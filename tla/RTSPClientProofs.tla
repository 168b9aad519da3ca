-------------------------- MODULE RTSPClientProofs --------------------------
(***************************************************************************)
(* Which answer a call gets, and what becomes of the session, for any      *)
(* number of threads and any range of numbers: proofs about RTSPClient.    *)
(*                                                                         *)
(* Requests and answers under way form one line, whose head is the oldest. *)
(* The invariant bounds how far each of them is behind the next request by *)
(* its place in that line; a call whose answer is read then lags by what   *)
(* is still in the line.                                                   *)
(***************************************************************************)
EXTENDS RTSPClient, TLAPS

\* How far identifier b is behind s, in 1 .. SeqMod.
Distance(s, b) == IF b < s THEN s - b ELSE s - b + SeqMod

\* At most one thread has a request under way.
PairsAreSerial ==
    \A t, u \in Threads : At(t, "awaits") /\ At(u, "awaits") => t = u

\* Nobody uses the connection before a session is open, nor after.
CallsFollowStage ==
    /\ stage \notin {"open", "close"} => UsersAreQuiet
    /\ stage \in {"idle", "close", "delete"} => At(M, "idle")

\* Requests and answers are no further behind than their place in the line.
LineIsRecent ==
    /\ \A j \in 1 .. Len(toSpeaker) :
           Distance(sent, toSpeaker[j].id) <= Len(toSpeaker) - j + 1
    /\ \A i \in 1 .. Len(toClient) :
           Distance(sent, toClient[i].id) <= Len(toSpeaker) + Len(toClient) - i + 1

\* The request of the thread that waits is the last that was sent.
OwnRequestIsLast ==
    \A t \in Threads : At(t, "awaits") => Distance(sent, calls[t].request.id) = 1

\* The line, and the calls on it.
LineInv ==
    /\ PairsAreSerial
    /\ LineIsRecent
    /\ OwnRequestIsLast
    /\ AnswersLagByTimeouts

\* The inductive invariant.
LagInv ==
    /\ TypeOK
    /\ CallsFollowStage
    /\ LineInv

-----------------------------------------------------------------------------
(***************************************************************************)
(* Types.                                                                  *)
(***************************************************************************)
\* The successor of a number is a number, and not the number itself.
LEMMA NextNumberType ==
    ASSUME NEW n \in Numbers
    PROVE  NextNumber(n) \in Numbers /\ NextNumber(n) = IF n = SeqMod - 1 THEN 0 ELSE n + 1
  BY ClientAssumption DEF NextNumber, Numbers

\* Session identifiers that are drawn are among those there are.
LEMMA FreshIdType == ASSUME NEW i \in Ids PROVE FreshId(i) \in Ids
  BY DEF FreshId, Ids

\* What a client, a speaker and a call are at the beginning.
LEMMA FreshTypes ==
    /\ FreshClient \in Clients
    /\ FreshSpeaker \in Speakers
    /\ \A pc \in Places, method \in Methods : CallAt(pc, method) \in CallRecords
    /\ Quiet \in CallRecords
<1>1. 0 \in Numbers /\ 0 \in Ids
  BY ClientAssumption DEF Numbers, Ids
<1>2. FreshClient \in Clients /\ FreshSpeaker \in Speakers
  BY <1>1 DEF FreshClient, Clients, Passwords, FreshSpeaker, Speakers
<1>3. NoRequest \in Requests /\ NoAnswer \in AnswerSet
  BY <1>1 DEF NoRequest, NoAnswer, Requests, AnswerSet, Methods, Passwords
<1>4. QED
  BY <1>2, <1>3 DEF Quiet, CallAt, CallRecords, Places, Methods

\* The manager is one of the threads.
LEMMA ManagerIsThread == M \in Threads /\ Users \subseteq Threads /\ M \notin Users
  BY ClientAssumption DEF M, Threads

\* The initial states are typed.
LEMMA InitTypes == Init => TypeOK
<1> SUFFICES ASSUME Init PROVE TypeOK
  OBVIOUS
<1>1. 0 \in Numbers
  BY ClientAssumption DEF Numbers
<1>2. toSpeaker \in Seq(Requests) /\ toClient \in Seq(AnswerSet)
  BY DEF Init
<1>3. QED
  BY <1>1, <1>2, FreshTypes DEF Init, TypeOK, Stages, Passwords

\* A call that is written over with a typed one is typed.
LEMMA CallsType ==
    ASSUME TypeOK, NEW t \in Threads, NEW c \in CallRecords,
           calls' = [calls EXCEPT ![t] = c]
    PROVE  calls' \in [Threads -> CallRecords]
  BY DEF TypeOK

\* An exception leaves a typed call.
LEMMA ThrowsType ==
    ASSUME TypeOK, NEW t \in Threads, Throws(t)
    PROVE  calls' \in [Threads -> CallRecords]
<1>1. calls[t].method \in Methods
  BY DEF TypeOK, CallRecords
<1>2. CallAt("failed", calls[t].method) \in CallRecords
  BY <1>1, FreshTypes DEF Places
<1>3. QED
  BY <1>2, CallsType DEF Throws

\* A thread that moves on leaves a typed call.
LEMMA GoesType ==
    ASSUME TypeOK, NEW t \in Threads, NEW pc \in Places, Goes(t, pc)
    PROVE  calls' \in [Threads -> CallRecords]
  BY DEF Goes, TypeOK, CallRecords

\* Every step of a request or a look keeps the types.
LEMMA CallKeepsTypes ==
    ASSUME TypeOK, NEW t \in Threads, CallProceeds(t)
    PROVE  TypeOK'
<1>0. calls[t] \in CallRecords /\ client \in Clients
  BY DEF TypeOK
<1>1. CASE Sends(t)
  <2> DEFINE r == Request(calls[t].method)
  <2>1. r \in Requests
    BY <1>0, NextNumberType DEF TypeOK, Request, Requests, Clients, CallRecords, Passwords
  <2>2. CASE link
    <3>1. calls' = [calls EXCEPT ![t] = [@ EXCEPT !.pc = "awaits", !.request = r]]
      BY <1>1, <2>2 DEF Sends
    <3>2. [calls[t] EXCEPT !.pc = "awaits", !.request = r] \in CallRecords
      BY <1>0, <2>1 DEF CallRecords, Places
    <3>3. calls' \in [Threads -> CallRecords]
      BY <3>1, <3>2, CallsType
    <3>4. toSpeaker' \in Seq(Requests) /\ sent' \in Numbers
      BY <1>1, <2>1, <2>2, NextNumberType DEF Sends, TypeOK
    <3>5. QED
      BY <1>1, <3>3, <3>4 DEF Sends, TypeOK, sessionVars
  <2>3. CASE ~link
    <3>1. Throws(t)
      BY <1>1, <2>3 DEF Sends
    <3>2. QED
      BY <1>1, <2>3, <3>1, ThrowsType DEF Sends, TypeOK, sessionVars
  <2>4. QED
    BY <2>2, <2>3
<1>2. CASE Receives(t)
  <2> DEFINE a == Head(toClient)
  <2>1. a \in AnswerSet /\ Tail(toClient) \in Seq(AnswerSet)
    BY <1>2 DEF Receives, TypeOK
  <2>2. client' \in Clients
    <3>1. NextNumber(client.number) \in Numbers
      BY <1>0, NextNumberType DEF Clients
    <3>2. (client.challenged \/ a.status = 401) \in BOOLEAN
      BY Zenon
    <3>3. \A n \in Numbers, b \in BOOLEAN :
              [client EXCEPT !.number = n, !.challenged = b] \in Clients
      BY <1>0 DEF Clients
    <3>4. QED
      BY <1>2, <3>1, <3>2, <3>3, Zenon DEF Receives
  <2>3. calls' = [calls EXCEPT ![t] = [@ EXCEPT !.pc = "answered", !.answer = a]]
    BY <1>2 DEF Receives
  <2>4. [calls[t] EXCEPT !.pc = "answered", !.answer = a] \in CallRecords
    BY <1>0, <2>1 DEF CallRecords, Places
  <2>5. calls' \in [Threads -> CallRecords]
    BY <2>3, <2>4, CallsType
  <2>6. QED
    BY <1>2, <2>1, <2>2, <2>5 DEF Receives, TypeOK
<1>3. CASE Fails(t)
  BY <1>3, ThrowsType DEF Fails, TypeOK, sessionVars, networkVars
<1>4. CASE Looks(t) \/ Peeks(t)
  <2>1. Throws(t) \/ Goes(t, "wants") \/ Goes(t, "peeks")
    BY <1>4 DEF Looks, Peeks
  <2>2. "wants" \in Places /\ "peeks" \in Places
    BY DEF Places
  <2>3. calls' \in [Threads -> CallRecords]
    BY <2>1, <2>2, ThrowsType, GoesType
  <2>4. QED
    BY <1>4, <2>3 DEF Looks, Peeks, TypeOK, sessionVars, networkVars
<1>5. QED
  BY <1>1, <1>2, <1>3, <1>4 DEF CallProceeds

\* Every step of a user's keeps the types.
LEMMA UserKeepsTypes ==
    ASSUME TypeOK, NEW u \in Users, UserBegins(u) \/ UserEnds(u)
    PROVE  TypeOK'
<1>1. u \in Threads
  BY ManagerIsThread
<1>2. calls' \in [Threads -> CallRecords]
  BY <1>1, FreshTypes DEF UserBegins, UserEnds, TypeOK, Asks, LooksFirst, Places, Methods
<1>3. QED
  BY <1>2 DEF UserBegins, UserEnds, TypeOK, sessionVars, networkVars

\* Every step of the manager's thread keeps the types.
LEMMA ManagerKeepsTypes ==
    ASSUME TypeOK, Connects \/ SetsParameter \/ CloseBegins \/ ManagerProceeds
    PROVE  TypeOK'
<1> USE ManagerIsThread
<1>1. CASE Connects \/ Deletes
  <2>1. <<>> \in Seq(Requests) /\ <<>> \in Seq(AnswerSet) /\ 0 \in Numbers
    BY ClientAssumption DEF Numbers
  <2>2. QED
    BY <1>1, <2>1, FreshTypes DEF Connects, Deletes, TypeOK, Stages, Building
<1>2. CASE SetsParameter \/ ParameterIsSet
  <2>1. calls' \in [Threads -> CallRecords]
    BY <1>2, FreshTypes DEF SetsParameter, ParameterIsSet, TypeOK, LooksFirst, Places, Methods
  <2>2. QED
    BY <1>2, <2>1 DEF SetsParameter, ParameterIsSet, TypeOK, sessionVars, networkVars
<1>3. CASE CloseBegins
  BY <1>3 DEF CloseBegins, TypeOK, Stages, networkVars
<1>4. CASE Builds
  <2>1. calls' \in [Threads -> CallRecords]
    BY <1>4, FreshTypes DEF Builds, TypeOK, Asks, Places, Methods, Building
  <2>2. client' \in Clients
    BY <1>4, FreshIdType DEF Builds, TypeOK, Announced, Clients
  <2>3. QED
    BY <1>4, <2>1, <2>2 DEF Builds, TypeOK, networkVars
<1>5. CASE Advances
  <2>1. calls[M].answer \in AnswerSet
    BY DEF TypeOK, CallRecords
  <2>2. client' \in Clients
    BY <1>5, <2>1 DEF Advances, TypeOK, Accepted, Clients, AnswerSet
  <2>3. stage' \in Stages
    BY <1>5 DEF Advances, Follows, Stages, Building
  <2>4. QED
    BY <1>5, <2>2, <2>3, FreshTypes DEF Advances, TypeOK, networkVars
<1>6. CASE GivesUp
  BY <1>6, FreshTypes DEF GivesUp, TypeOK, Stages, networkVars
<1>7. CASE IsRefused
  <2>1. stored' \in Passwords
    BY <1>7 DEF IsRefused, LeftAfterRefusal, TypeOK, Passwords
  <2>2. [client EXCEPT !.password = stored] \in Clients
    BY DEF TypeOK, Clients
  <2>3. CASE stored' = "none"
    BY <1>7, <2>1, <2>3, FreshTypes DEF IsRefused, TypeOK, Stages, networkVars
  <2>4. CASE stored' # "none"
    <3>1. stage' \in {"OPTIONS", "POST", "ANNOUNCE"} /\ tried' = TRUE
      BY <1>7, <2>4 DEF IsRefused
    <3>2. client' \in Clients
      BY <1>7, <2>2, <2>4, FreshTypes DEF IsRefused
    <3>3. QED
      BY <1>7, <2>1, <3>1, <3>2, FreshTypes DEF IsRefused, TypeOK, Stages, Building, networkVars
  <2>5. QED
    BY <2>3, <2>4
<1>8. CASE Closes
  <2>1. calls' \in [Threads -> CallRecords]
    BY <1>8, FreshTypes DEF Closes, TypeOK, Asks, Places, Methods
  <2>2. QED
    BY <1>8, <2>1 DEF Closes, TypeOK, Stages, networkVars
<1>9. CASE TornDown
  <2>1. \A b \in BOOLEAN : [client EXCEPT !.teardownRequired = b] \in Clients
    BY DEF TypeOK, Clients
  <2>2. At(M, "failed") \in BOOLEAN
    BY Zenon DEF At
  <2>3. client' \in Clients
    <3>1. client' = [client EXCEPT !.teardownRequired = At(M, "failed")]
      BY <1>9 DEF TornDown
    <3>2. QED
      BY <2>1, <2>2, <3>1, Zenon
  <2>4. QED
    BY <1>9, <2>3, FreshTypes DEF TornDown, TypeOK, Stages, networkVars
<1>10. QED
  BY <1>1, <1>2, <1>3, <1>4, <1>5, <1>6, <1>7, <1>8, <1>9 DEF ManagerProceeds

\* Every step of the speaker's and the network's keeps the types.
LEMMA NetworkKeepsTypes ==
    ASSUME TypeOK, Answers \/ Drops
    PROVE  TypeOK'
<1>1. CASE Answers
  <2> DEFINE r == Head(toSpeaker)
  <2>1. r \in Requests /\ Tail(toSpeaker) \in Seq(Requests)
    BY <1>1 DEF Answers, TypeOK
  <2>2. speaker' \in Speakers
    BY <1>1, <2>1, FreshIdType DEF Answers, Obeys, TypeOK, Speakers, Requests
  <2>3. \A status \in {200, 401, 453}, session \in Ids : AnswerTo(r, status, session) \in AnswerSet
    BY <2>1 DEF AnswerTo, AnswerSet, Requests
  <2>4. speaker'.session \in Ids /\ 0 \in Ids
    BY <2>2 DEF Speakers, Ids
  <2>5. \A a \in AnswerSet : Append(toClient, a) \in Seq(AnswerSet)
    BY DEF TypeOK
  <2>6. toClient' \in Seq(AnswerSet)
    <3>1. \/ toClient' = Append(toClient, AnswerTo(r, 200, speaker'.session))
          \/ toClient' = Append(toClient, AnswerTo(r, 453, 0))
          \/ toClient' = Append(toClient, AnswerTo(r, 401, 0))
      BY <1>1, Zenon DEF Answers
    <3>2. AnswerTo(r, 200, speaker'.session) \in AnswerSet
      BY <2>3, <2>4
    <3>3. AnswerTo(r, 453, 0) \in AnswerSet /\ AnswerTo(r, 401, 0) \in AnswerSet
      BY <2>3, <2>4
    <3>4. /\ Append(toClient, AnswerTo(r, 200, speaker'.session)) \in Seq(AnswerSet)
          /\ Append(toClient, AnswerTo(r, 453, 0)) \in Seq(AnswerSet)
          /\ Append(toClient, AnswerTo(r, 401, 0)) \in Seq(AnswerSet)
      BY <2>5, <3>2, <3>3
    <3>5. QED
      BY <3>1, <3>4
  <2>7. QED
    BY <1>1, <2>1, <2>2, <2>6 DEF Answers, TypeOK, sessionVars
<1>2. CASE Drops
  <2>1. <<>> \in Seq(Requests) /\ <<>> \in Seq(AnswerSet)
    OBVIOUS
  <2>2. QED
    BY <1>2, <2>1, FreshTypes DEF Drops, TypeOK, sessionVars
<1>3. QED
  BY <1>1, <1>2

\* Every step keeps the types.
LEMMA StepKeepsTypes == TypeOK /\ [Next]_vars => TypeOK'
<1> SUFFICES ASSUME TypeOK, [Next]_vars PROVE TypeOK'
  OBVIOUS
<1>1. CASE UNCHANGED vars
  BY <1>1 DEF TypeOK, vars, sessionVars, networkVars
<1>2. CASE Next
  BY <1>2, CallKeepsTypes, UserKeepsTypes, ManagerKeepsTypes, NetworkKeepsTypes DEF Next
<1>3. QED
  BY <1>1, <1>2

\* The client's variables, the threads' and the line's keep their types,
\* for any number of threads.
THEOREM TypesAreCorrect == Spec => []TypeOK
  BY InitTypes, StepKeepsTypes, PTL DEF Spec

-----------------------------------------------------------------------------
(***************************************************************************)
(* Distances and lags.                                                     *)
(***************************************************************************)
\* One more request puts every identifier at most one further behind.
LEMMA DistanceFacts ==
    ASSUME NEW s \in Numbers, NEW b \in Numbers
    PROVE  /\ Distance(s, b) \in 1 .. SeqMod
           /\ Distance(NextNumber(s), b) <= Distance(s, b) + 1
           /\ Distance(NextNumber(s), s) = 1
  BY NextNumberType, ClientAssumption DEF Distance, Numbers

\* What a remainder is in the two cases that occur.
LEMMA RemainderFacts ==
    ASSUME NEW k \in Nat, NEW n \in 0 .. k - 1
    PROVE  n % k = n /\ (n + k) % k = n
  OBVIOUS

\* A call whose request is the last one lags by one less than its answer's
\* distance.
LEMMA LagIsDistance ==
    ASSUME NEW s \in Numbers, NEW r \in Numbers, NEW a \in Numbers,
           Distance(s, r) = 1
    PROVE  (r + SeqMod - a) % SeqMod = Distance(s, a) - 1
<1>1. SeqMod \in Nat /\ SeqMod > 2
  BY ClientAssumption
<1>2. CASE a <= r
  <2>1. r - a \in 0 .. SeqMod - 1 /\ r + SeqMod - a = (r - a) + SeqMod
    BY <1>1, <1>2 DEF Numbers
  <2>2. (r + SeqMod - a) % SeqMod = r - a
    BY <1>1, <2>1, RemainderFacts
  <2>3. QED
    BY <1>1, <1>2, <2>2 DEF Distance, Numbers
<1>3. CASE a > r
  <2>1. r + SeqMod - a \in 0 .. SeqMod - 1
    BY <1>1, <1>3 DEF Numbers
  <2>2. (r + SeqMod - a) % SeqMod = r + SeqMod - a
    BY <1>1, <2>1, RemainderFacts
  <2>3. QED
    BY <1>1, <1>3, <2>2 DEF Distance, Numbers
<1>4. QED
  BY <1>2, <1>3 DEF Numbers

-----------------------------------------------------------------------------
(***************************************************************************)
(* The steps.                                                              *)
(***************************************************************************)
\* The initial states satisfy the invariant.
LEMMA InitLag == Init => LagInv
<1> SUFFICES ASSUME Init PROVE LagInv
  OBVIOUS
<1>1. \A t \in Threads : At(t, "idle")
  BY DEF Init, At, Quiet, CallAt
<1>2. \A t \in Threads : ~At(t, "awaits") /\ ~At(t, "answered")
  BY <1>1 DEF At
<1>3. PairsAreSerial /\ OwnRequestIsLast /\ AnswersLagByTimeouts
  BY <1>2 DEF PairsAreSerial, OwnRequestIsLast, AnswersLagByTimeouts
<1>4. CallsFollowStage
  BY <1>1, ManagerIsThread DEF CallsFollowStage, UsersAreQuiet
<1>5. LineIsRecent
  BY DEF Init, LineIsRecent
<1>6. QED
  BY <1>3, <1>4, <1>5, InitTypes DEF LagInv, LineInv

\* While the line stays as it is and no thread comes to wait or to be
\* answered, no call lags more and no fewer answers are overdue.
LEMMA IdleLine ==
    ASSUME TypeOK, LineInv, UNCHANGED networkVars,
           \A t \in Threads :
               calls'[t].pc \in {"awaits", "answered"} => calls'[t] = calls[t]
    PROVE  LineInv'
<1>1. \A t \in Threads : /\ At(t, "awaits")' => At(t, "awaits") /\ calls'[t] = calls[t]
                         /\ At(t, "answered")' => At(t, "answered") /\ calls'[t] = calls[t]
  BY DEF At
<1>2. UNCHANGED <<link, toSpeaker, toClient, sent>>
  BY DEF networkVars
<1>3. PairsAreSerial' /\ LineIsRecent' /\ OwnRequestIsLast'
  BY <1>1, <1>2 DEF LineInv, PairsAreSerial, LineIsRecent, OwnRequestIsLast
<1>4. MutexIsFree => MutexIsFree'
  BY <1>1 DEF MutexIsFree
<1>5. Overdue <= Overdue' /\ Overdue \in Int /\ Overdue' \in Int
  <2>1. Len(toSpeaker) \in Nat /\ Len(toClient) \in Nat
    BY DEF TypeOK
  <2>2. QED
    BY <1>2, <1>4, <2>1 DEF Overdue
<1>6. AnswersLagByTimeouts'
  <2> SUFFICES ASSUME NEW t \in Threads, At(t, "answered")', link'
               PROVE  Lag(t)' <= Overdue'
    BY DEF AnswersLagByTimeouts
  <2>1. Lag(t)' = Lag(t) /\ Lag(t) <= Overdue
    BY <1>1, <1>2 DEF LineInv, AnswersLagByTimeouts, Lag
  <2>2. Lag(t) \in Int
    BY ClientAssumption DEF Lag, TypeOK, CallRecords, Requests, AnswerSet, Numbers
  <2>3. QED
    BY <1>5, <2>1, <2>2
<1>7. QED
  BY <1>3, <1>6 DEF LineInv

\* The line's and the calls' numbers, as the steps below use them.
LEMMA LineTypes ==
    ASSUME TypeOK
    PROVE  /\ Len(toSpeaker) \in Nat /\ Len(toClient) \in Nat /\ sent \in Numbers
           /\ \A j \in 1 .. Len(toSpeaker) : toSpeaker[j].id \in Numbers
           /\ \A i \in 1 .. Len(toClient) : toClient[i].id \in Numbers
           /\ \A t \in Threads : /\ calls[t].request.id \in Numbers
                                 /\ calls[t].answer.id \in Numbers
                                 /\ Lag(t) \in Int
<1>1. \A j \in 1 .. Len(toSpeaker) : toSpeaker[j] \in Requests
  BY DEF TypeOK
<1>2. \A i \in 1 .. Len(toClient) : toClient[i] \in AnswerSet
  BY DEF TypeOK
<1>3. \A t \in Threads : calls[t].request.id \in Numbers /\ calls[t].answer.id \in Numbers
  BY DEF TypeOK, CallRecords, Requests, AnswerSet
<1>4. \A t \in Threads : Lag(t) \in Int
  BY <1>3, ClientAssumption DEF Lag, Numbers
<1>5. QED
  BY <1>1, <1>2, <1>3, <1>4 DEF TypeOK, Requests, AnswerSet

\* A request joins the line at its end.
LEMMA SendKeepsLine ==
    ASSUME TypeOK, LineInv, NEW t \in Threads, Sends(t), link
    PROVE  LineInv'
<1> DEFINE r == Request(calls[t].method)
<1>1. /\ calls' = [calls EXCEPT ![t].pc = "awaits", ![t].request = r]
      /\ toSpeaker' = Append(toSpeaker, r) /\ sent' = NextNumber(sent)
      /\ toClient' = toClient /\ link' = link /\ MutexIsFree
  BY DEF Sends
<1>2. calls \in [Threads -> CallRecords] /\ r.id = sent
  BY DEF TypeOK, Request
<1>3. /\ calls'[t].pc = "awaits" /\ calls'[t].request = r
      /\ \A u \in Threads \ {t} : calls'[u] = calls[u]
  BY <1>1, <1>2 DEF CallRecords
<1>4. \A u \in Threads : At(u, "awaits")' => u = t
  BY <1>1, <1>3 DEF At, MutexIsFree
<1>5. PairsAreSerial'
  BY <1>4 DEF PairsAreSerial
<1>6. /\ Len(toSpeaker') = Len(toSpeaker) + 1
      /\ toSpeaker'[Len(toSpeaker) + 1] = r
      /\ \A j \in 1 .. Len(toSpeaker) : toSpeaker'[j] = toSpeaker[j]
  BY <1>1, LineTypes DEF TypeOK
<1>7. \A b \in Numbers : /\ Distance(sent, b) \in Int
                         /\ Distance(sent', b) \in Int
                         /\ Distance(sent', b) <= Distance(sent, b) + 1
  BY <1>1, DistanceFacts, LineTypes, NextNumberType
<1>8. Distance(sent', r.id) = 1
  BY <1>1, <1>2, DistanceFacts, LineTypes
<1>9. LineIsRecent'
  <2>1. ASSUME NEW j \in 1 .. Len(toSpeaker')
        PROVE  Distance(sent', toSpeaker'[j].id) <= Len(toSpeaker') - j + 1
    <3>1. CASE j = Len(toSpeaker) + 1
      BY <1>6, <1>8, <3>1, LineTypes
    <3>2. CASE j \in 1 .. Len(toSpeaker)
      BY <1>6, <1>7, <3>2, LineTypes DEF LineInv, LineIsRecent
    <3>3. QED
      BY <1>6, <3>1, <3>2, LineTypes
  <2>2. ASSUME NEW i \in 1 .. Len(toClient)
        PROVE  Distance(sent', toClient[i].id) <= Len(toSpeaker') + Len(toClient) - i + 1
    BY <1>6, <1>7, LineTypes DEF LineInv, LineIsRecent
  <2>3. QED
    BY <1>1, <2>1, <2>2 DEF LineIsRecent
<1>10. OwnRequestIsLast'
  BY <1>3, <1>4, <1>8 DEF OwnRequestIsLast
<1>11. Overdue' = Overdue
  <2>1. ~MutexIsFree'
    BY <1>3 DEF MutexIsFree, At
  <2>2. QED
    BY <1>1, <1>6, <2>1, LineTypes DEF Overdue
<1>12. AnswersLagByTimeouts'
  <2>1. \A u \in Threads : At(u, "answered")' => At(u, "answered") /\ calls'[u] = calls[u]
    BY <1>3 DEF At
  <2>2. QED
    BY <1>1, <1>11, <2>1 DEF LineInv, AnswersLagByTimeouts, Lag
<1>13. QED
  BY <1>5, <1>9, <1>10, <1>12 DEF LineInv

\* The head of the line is read by the one thread that waits, and is behind
\* that thread's request by no more than what stays in the line.
LEMMA ReceiveKeepsLine ==
    ASSUME TypeOK, LineInv, NEW t \in Threads, Receives(t)
    PROVE  LineInv'
<1> DEFINE a == Head(toClient)
<1>1. /\ At(t, "awaits") /\ toClient # <<>>
      /\ calls' = [calls EXCEPT ![t].pc = "answered", ![t].answer = a]
      /\ toClient' = Tail(toClient)
      /\ UNCHANGED <<link, toSpeaker, sent>>
  BY DEF Receives
<1>2. calls \in [Threads -> CallRecords]
  BY DEF TypeOK
<1>3. /\ calls'[t].pc = "answered" /\ calls'[t].answer = a
      /\ calls'[t].request = calls[t].request
      /\ \A u \in Threads \ {t} : calls'[u] = calls[u]
  BY <1>1, <1>2 DEF CallRecords
<1>4. \A u \in Threads : ~At(u, "awaits")'
  BY <1>1, <1>3 DEF At, LineInv, PairsAreSerial
<1>5. /\ Len(toClient) > 0 /\ Len(toClient') = Len(toClient) - 1 /\ a = toClient[1]
      /\ \A i \in 1 .. Len(toClient) - 1 : toClient'[i] = toClient[i + 1]
  BY <1>1 DEF TypeOK
<1>6. PairsAreSerial' /\ OwnRequestIsLast'
  BY <1>4 DEF PairsAreSerial, OwnRequestIsLast
<1>7. LineIsRecent'
  <2>1. ASSUME NEW i \in 1 .. Len(toClient')
        PROVE  Distance(sent, toClient'[i].id) <= Len(toSpeaker) + Len(toClient') - i + 1
    <3>1. i + 1 \in 1 .. Len(toClient) /\ toClient'[i] = toClient[i + 1]
      BY <1>5, LineTypes
    <3>2. Distance(sent, toClient[i + 1].id) <= Len(toSpeaker) + Len(toClient) - (i + 1) + 1
      BY <3>1 DEF LineInv, LineIsRecent
    <3>3. QED
      BY <1>5, <3>1, <3>2, LineTypes
  <2>2. QED
    BY <1>1, <2>1 DEF LineInv, LineIsRecent
<1>8. Overdue' = Overdue /\ Overdue = Len(toSpeaker) + Len(toClient) - 1
  <2>1. MutexIsFree' /\ ~MutexIsFree
    BY <1>1, <1>4 DEF MutexIsFree
  <2>2. QED
    BY <1>1, <1>5, <2>1, LineTypes DEF Overdue
<1>9. Lag(t)' <= Overdue
  <2>1. Distance(sent, calls[t].request.id) = 1
    BY <1>1 DEF LineInv, OwnRequestIsLast
  <2>2. a.id \in Numbers /\ Distance(sent, a.id) <= Len(toSpeaker) + Len(toClient)
    BY <1>5, LineTypes DEF LineInv, LineIsRecent
  <2>3. Lag(t)' = Distance(sent, a.id) - 1
    BY <1>3, <2>1, <2>2, LagIsDistance, LineTypes DEF Lag
  <2>4. QED
    BY <1>8, <2>2, <2>3, DistanceFacts, LineTypes
<1>10. AnswersLagByTimeouts'
  <2>1. \A u \in Threads \ {t} :
            At(u, "answered")' => At(u, "answered") /\ Lag(u)' = Lag(u)
    BY <1>3 DEF At, Lag
  <2>2. QED
    BY <1>1, <1>8, <1>9, <2>1 DEF LineInv, AnswersLagByTimeouts
<1>11. QED
  BY <1>6, <1>7, <1>10 DEF LineInv

\* The speaker turns the oldest request into the newest answer, which keeps
\* its place in the line.
LEMMA AnswerKeepsLine ==
    ASSUME TypeOK, LineInv, Answers
    PROVE  LineInv'
<1> DEFINE r == Head(toSpeaker)
<1>1. /\ toSpeaker # <<>> /\ toSpeaker' = Tail(toSpeaker)
      /\ UNCHANGED <<calls, link, sent>>
      /\ \/ toClient' = Append(toClient, AnswerTo(r, 200, speaker'.session))
         \/ toClient' = Append(toClient, AnswerTo(r, 453, 0))
         \/ toClient' = Append(toClient, AnswerTo(r, 401, 0))
  BY Zenon DEF Answers
<1>2. PICK a : a.id = r.id /\ toClient' = Append(toClient, a)
  BY <1>1 DEF AnswerTo
<1>3. /\ Len(toSpeaker) > 0 /\ Len(toSpeaker') = Len(toSpeaker) - 1
      /\ r = toSpeaker[1]
      /\ \A j \in 1 .. Len(toSpeaker) - 1 : toSpeaker'[j] = toSpeaker[j + 1]
  BY <1>1 DEF TypeOK
<1>4. /\ Len(toClient') = Len(toClient) + 1 /\ toClient'[Len(toClient) + 1] = a
      /\ \A i \in 1 .. Len(toClient) : toClient'[i] = toClient[i]
  BY <1>2 DEF TypeOK
<1>5. Overdue' = Overdue
  BY <1>1, <1>3, <1>4, LineTypes DEF Overdue, MutexIsFree, At
<1>6. PairsAreSerial' /\ OwnRequestIsLast' /\ AnswersLagByTimeouts'
  BY <1>1, <1>5
  DEF LineInv, PairsAreSerial, OwnRequestIsLast, AnswersLagByTimeouts, At, Lag
<1>7. LineIsRecent'
  <2>1. ASSUME NEW j \in 1 .. Len(toSpeaker')
        PROVE  Distance(sent, toSpeaker'[j].id) <= Len(toSpeaker') - j + 1
    <3>1. j + 1 \in 1 .. Len(toSpeaker) /\ toSpeaker'[j] = toSpeaker[j + 1]
      BY <1>3, LineTypes
    <3>2. Distance(sent, toSpeaker[j + 1].id) <= Len(toSpeaker) - (j + 1) + 1
      BY <3>1 DEF LineInv, LineIsRecent
    <3>3. QED
      BY <1>3, <3>1, <3>2, LineTypes
  <2>2. ASSUME NEW i \in 1 .. Len(toClient')
        PROVE  Distance(sent, toClient'[i].id) <= Len(toSpeaker') + Len(toClient') - i + 1
    <3>1. CASE i = Len(toClient) + 1
      <4>1. Distance(sent, r.id) <= Len(toSpeaker)
        BY <1>3, LineTypes DEF LineInv, LineIsRecent
      <4>2. QED
        BY <1>2, <1>3, <1>4, <3>1, <4>1, LineTypes
    <3>2. CASE i \in 1 .. Len(toClient)
      BY <1>3, <1>4, <3>2, LineTypes DEF LineInv, LineIsRecent
    <3>3. QED
      BY <1>4, <3>1, <3>2, LineTypes
  <2>3. QED
    BY <1>1, <2>1, <2>2 DEF LineIsRecent
<1>8. QED
  BY <1>6, <1>7 DEF LineInv

\* The line is empty when the connection has gone.
LEMMA DropKeepsLine ==
    ASSUME LineInv, Drops
    PROVE  LineInv'
<1>1. /\ ~link' /\ toSpeaker' = <<>> /\ toClient' = <<>>
      /\ UNCHANGED <<calls, sent>>
  BY DEF Drops, sessionVars
<1>2. LineIsRecent'
  BY <1>1 DEF LineIsRecent
<1>3. QED
  BY <1>1, <1>2
  DEF LineInv, PairsAreSerial, OwnRequestIsLast, AnswersLagByTimeouts, At

\* The line is empty, and nobody is on it, when a connection is made and
\* when it is deleted.
LEMMA NewLine ==
    ASSUME CallsFollowStage, Connects \/ Deletes
    PROVE  LineInv'
<1>1. toSpeaker' = <<>> /\ toClient' = <<>> /\ calls' = calls
  BY DEF Connects, Deletes
<1>2. stage \in {"idle", "delete"}
  BY DEF Connects, Deletes
<1>3. \A t \in Threads : At(t, "idle")
  BY <1>2 DEF CallsFollowStage, UsersAreQuiet, Threads, M
<1>4. \A t \in Threads : ~At(t, "awaits")' /\ ~At(t, "answered")'
  BY <1>1, <1>3 DEF At
<1>5. LineIsRecent'
  BY <1>1 DEF LineIsRecent
<1>6. QED
  BY <1>4, <1>5 DEF LineInv, PairsAreSerial, OwnRequestIsLast, AnswersLagByTimeouts

\* What other steps of a thread do to its call.
LEMMA CallBecomes ==
    ASSUME TypeOK, NEW t \in Threads, NEW c, c.pc \notin {"awaits", "answered"},
           calls' = [calls EXCEPT ![t] = c]
    PROVE  \A u \in Threads :
               calls'[u].pc \in {"awaits", "answered"} => calls'[u] = calls[u]
  BY DEF TypeOK

\* The same of a thread that moves on.
LEMMA CallMoves ==
    ASSUME TypeOK, NEW t \in Threads, NEW pc, pc \notin {"awaits", "answered"},
           Goes(t, pc)
    PROVE  \A u \in Threads :
               calls'[u].pc \in {"awaits", "answered"} => calls'[u] = calls[u]
  BY DEF Goes, TypeOK, CallRecords

\* Failures, looks, and what begins and ends calls, leave the line alone.
LEMMA OthersKeepLine ==
    ASSUME TypeOK, LineInv,
           \/ \E t \in Threads : (Sends(t) /\ ~link) \/ Fails(t) \/ Looks(t) \/ Peeks(t)
           \/ \E u \in Users : UserBegins(u) \/ UserEnds(u)
           \/ SetsParameter \/ CloseBegins \/ Builds \/ Advances \/ GivesUp
           \/ IsRefused \/ ParameterIsSet \/ Closes \/ TornDown
    PROVE  LineInv'
<1> DEFINE Kept == \A u \in Threads :
               calls'[u].pc \in {"awaits", "answered"} => calls'[u] = calls[u]
           Off(c) == c.pc \notin {"awaits", "answered"}
<1>1. /\ Off(Quiet)
      /\ \A method : /\ Off(CallAt("wants", method))
                     /\ Off(CallAt("looks", method))
                     /\ Off(CallAt("failed", method))
  BY DEF Quiet, CallAt
<1>2. ASSUME NEW t \in Threads, (Sends(t) /\ ~link) \/ Fails(t) \/ Looks(t) \/ Peeks(t)
      PROVE  Kept /\ UNCHANGED networkVars
  <2>1. UNCHANGED networkVars
    BY <1>2 DEF Sends, Fails, Looks, Peeks, networkVars
  <2>2. Throws(t) \/ Goes(t, "wants") \/ Goes(t, "peeks")
    BY <1>2 DEF Sends, Fails, Looks, Peeks
  <2>3. CASE Throws(t)
    BY <1>1, <2>1, <2>3, CallBecomes DEF Throws
  <2>4. CASE Goes(t, "wants") \/ Goes(t, "peeks")
    BY <2>1, <2>4, CallMoves
  <2>5. QED
    BY <2>2, <2>3, <2>4
<1>3. ASSUME NEW u \in Users, UserBegins(u) \/ UserEnds(u)
      PROVE  Kept /\ UNCHANGED networkVars
  <2>1. u \in Threads
    BY ManagerIsThread
  <2>2. CASE UserBegins(u)
    BY <1>1, <2>1, <2>2, CallBecomes DEF UserBegins, Asks, LooksFirst
  <2>3. CASE UserEnds(u)
    BY <1>1, <2>1, <2>3, CallBecomes DEF UserEnds
  <2>4. QED
    BY <1>3, <2>2, <2>3
<1>4. CASE SetsParameter \/ Builds
  <2>1. Kept
    BY <1>1, <1>4, CallBecomes, ManagerIsThread DEF SetsParameter, Builds, Asks, LooksFirst
  <2>2. QED
    BY <1>4, <2>1, IdleLine DEF SetsParameter, Builds
<1>5. CASE Advances \/ GivesUp \/ IsRefused \/ ParameterIsSet \/ TornDown
  <2>1. calls' = [calls EXCEPT ![M] = Quiet] /\ UNCHANGED networkVars
    BY <1>5 DEF Advances, GivesUp, IsRefused, ParameterIsSet, TornDown
  <2>2. Kept
    BY <1>1, <2>1, CallBecomes, ManagerIsThread
  <2>3. QED
    BY <2>1, <2>2, IdleLine
<1>6. CASE CloseBegins \/ Closes
  <2>1. UNCHANGED networkVars /\ (UNCHANGED calls \/ Asks(M, "TEARDOWN"))
    BY <1>6 DEF CloseBegins, Closes
  <2>2. Kept
    BY <1>1, <2>1, CallBecomes, ManagerIsThread DEF Asks
  <2>3. QED
    BY <2>1, <2>2, IdleLine
<1>7. QED
  BY <1>2, <1>3, <1>4, <1>5, <1>6, IdleLine

\* A thread that is not idle is inside the stages that let it be.
LEMMA StepKeepsStages ==
    ASSUME TypeOK, CallsFollowStage, Next
    PROVE  CallsFollowStage'
<1> USE ManagerIsThread
<1>1. ASSUME NEW t \in Threads, CallProceeds(t)
      PROVE  CallsFollowStage'
  <2>1. stage' = stage /\ ~At(t, "idle")
    BY <1>1 DEF CallProceeds, Sends, Receives, Fails, Looks, Peeks, sessionVars, At
  <2>2. \A u \in Threads \ {t} : calls'[u] = calls[u]
    BY <1>1 DEF CallProceeds, Sends, Receives, Fails, Looks, Peeks, Throws, Goes, TypeOK
  <2>3. QED
    BY <2>1, <2>2 DEF CallsFollowStage, UsersAreQuiet, At, Threads
<1>2. ASSUME NEW u \in Users, UserBegins(u) \/ UserEnds(u)
      PROVE  CallsFollowStage'
  <2>1. stage' = stage
    BY <1>2 DEF UserBegins, UserEnds, sessionVars
  <2>2. \A t \in Threads \ {u} : calls'[t] = calls[t]
    BY <1>2 DEF UserBegins, UserEnds, Asks, LooksFirst, TypeOK
  <2>3. stage = "open" \/ At(u, "idle")'
    <3>1. CASE UserBegins(u)
      BY <3>1 DEF UserBegins
    <3>2. CASE UserEnds(u)
      BY <3>2 DEF UserEnds, TypeOK, At, Quiet, CallAt
    <3>3. QED
      BY <1>2, <3>1, <3>2
  <2>4. QED
    BY <2>1, <2>2, <2>3 DEF CallsFollowStage, UsersAreQuiet, At
<1>3. ASSUME \A u \in Users : calls'[u] = calls[u],
             stage' \notin {"open", "close"} => UsersAreQuiet,
             stage' \in {"idle", "close", "delete"} => At(M, "idle")'
      PROVE  CallsFollowStage'
  BY <1>3 DEF CallsFollowStage, UsersAreQuiet, At
<1>4. CASE Connects \/ Deletes \/ CloseBegins
  <2>1. /\ calls' = calls /\ At(M, "idle")
        /\ stage' \notin {"open", "close"} => UsersAreQuiet
    BY <1>4 DEF Connects, Deletes, CloseBegins, CallsFollowStage
  <2>2. QED
    BY <1>3, <2>1 DEF At
<1>5. CASE SetsParameter \/ Builds
  <2>1. /\ \A u \in Users : calls'[u] = calls[u]
        /\ stage' = stage /\ stage \in Building \cup {"open"}
    BY <1>5 DEF SetsParameter, Builds, Asks, LooksFirst, TypeOK, sessionVars
  <2>2. QED
    BY <1>3, <2>1 DEF CallsFollowStage, Building
<1>6. CASE Advances \/ GivesUp \/ IsRefused \/ ParameterIsSet \/ TornDown
  <2>1. calls' = [calls EXCEPT ![M] = Quiet]
    BY <1>6 DEF Advances, GivesUp, IsRefused, ParameterIsSet, TornDown
  <2>2. At(M, "idle")' /\ \A u \in Users : calls'[u] = calls[u]
    BY <2>1 DEF TypeOK, At, Quiet, CallAt
  <2>3. stage \in Building \cup {"TEARDOWN"} \/ stage' = "open"
    BY <1>6 DEF Advances, GivesUp, IsRefused, ParameterIsSet, TornDown, sessionVars
  <2>4. QED
    BY <1>3, <2>2, <2>3 DEF CallsFollowStage, Building
<1>7. CASE Closes
  <2>1. UsersAreQuiet /\ At(M, "idle")
    BY <1>7 DEF Closes, CallsFollowStage
  <2>2. \A u \in Users : calls'[u] = calls[u]
    BY <1>7 DEF Closes, Asks, TypeOK
  <2>3. stage' = "TEARDOWN" \/ calls' = calls
    BY <1>7 DEF Closes
  <2>4. QED
    BY <1>3, <2>1, <2>2, <2>3 DEF At
<1>8. CASE Answers \/ Drops
  BY <1>8 DEF Answers, Drops, sessionVars, CallsFollowStage, UsersAreQuiet, At
<1>9. QED
  BY <1>1, <1>2, <1>4, <1>5, <1>6, <1>7, <1>8 DEF Next, ManagerProceeds

\* The invariant is inductive.
LEMMA StepKeepsLag == LagInv /\ [Next]_vars => LagInv'
<1> SUFFICES ASSUME LagInv, [Next]_vars PROVE LagInv'
  OBVIOUS
<1>1. TypeOK /\ CallsFollowStage /\ LineInv
  BY DEF LagInv
<1>2. CASE UNCHANGED vars
  <2>1. UNCHANGED networkVars /\ calls' = calls /\ stage' = stage
    BY <1>2 DEF vars, sessionVars
  <2>2. LineInv'
    BY <1>1, <2>1, IdleLine
  <2>3. CallsFollowStage'
    BY <1>1, <2>1 DEF CallsFollowStage, UsersAreQuiet, At
  <2>4. QED
    BY <1>1, <1>2, <2>2, <2>3, StepKeepsTypes DEF LagInv
<1>3. CASE Next
  <2>1. LineInv'
    BY <1>1, <1>3, SendKeepsLine, ReceiveKeepsLine, AnswerKeepsLine, DropKeepsLine,
       NewLine, OthersKeepLine
    DEF Next, CallProceeds, ManagerProceeds
  <2>2. QED
    BY <1>1, <1>3, <2>1, StepKeepsStages, StepKeepsTypes DEF LagInv
<1>4. QED
  BY <1>2, <1>3

\* However many threads use the connection, and whatever times out, a call
\* gets the answer of its own request or of one that is earlier by no more
\* than the answers that are overdue.
THEOREM AnswersLag == Spec => []AnswersLagByTimeouts
<1>1. LagInv => AnswersLagByTimeouts
  BY DEF LagInv, LineInv
<1>2. QED
  BY <1>1, InitLag, StepKeepsLag, PTL DEF Spec

-----------------------------------------------------------------------------
(***************************************************************************)
(* What becomes of the session on the speaker's side.                      *)
(*                                                                         *)
(* While a session is built, at most one request is under way, and it is   *)
(* the manager's own; so an answer that is taken then is the request's.    *)
(* Once the session is established everybody's requests name it, and only  *)
(* the last of them, the teardown, changes what the speaker does.          *)
(***************************************************************************)
\* The session is recorded and has not been torn down.
Established ==
    stage \in {"open", "TEARDOWN"} \/ (stage = "close" /\ client.teardownRequired)

UsualMethods == {"FLUSH", "SET_PARAMETER", "TEARDOWN"}

Own == calls[M].request

\* Which requests the threads make.
CallsFitStage ==
    /\ \A u \in Users : ~At(u, "idle") => Established /\ calls[u].method \in UsualMethods
    /\ ~At(M, "idle") =>
         /\ stage \in Building \cup {"open", "TEARDOWN"}
         /\ stage \in Building => calls[M].method = stage
         /\ stage = "open" => calls[M].method = "SET_PARAMETER"
         /\ stage = "TEARDOWN" => calls[M].method = "TEARDOWN"

\* The longest the line can be while a session is built.
OwnLength == IF At(M, "awaits") \/ At(M, "failed") THEN 1 ELSE 0

\* Which requests are under way.
LineFitsStage ==
    /\ Established => \A i \in 1 .. Len(toSpeaker) : toSpeaker[i].method \in UsualMethods
    /\ stage \in Building => Len(toSpeaker) + Len(toClient) <= OwnLength
    /\ \A i \in 1 .. Len(toSpeaker) :
         toSpeaker[i].method \in {"ANNOUNCE", "SETUP"} => Len(toSpeaker) = 1

\* What an answer says is true of the speaker.
AnswerIsTrue(a) ==
    /\ a.status = 401 => Own.password # "right"
    /\ link /\ a.status = 200 =>
         /\ stage = "ANNOUNCE" => speaker.announced = client.local
         /\ stage = "SETUP" => speaker.session = a.session
    /\ link /\ speaker.recording => stage = "RECORD" /\ a.status = 200

\* The one request of a session that is built.
BuildingIsOwn ==
    stage \in Building =>
        /\ At(M, "awaits") =>
             /\ Own.method = stage /\ Own.local = client.local /\ Own.remote = client.remote
             /\ Len(toSpeaker) = 1 => toSpeaker[1] = Own
             /\ Len(toClient) = 1 => AnswerIsTrue(toClient[1])
             /\ link /\ speaker.recording => Len(toClient) = 1
        /\ At(M, "answered") =>
             /\ AnswerIsTrue(calls[M].answer)
             /\ calls[M].answer.status = 401 => client.challenged
        /\ At(M, "failed") =>
             /\ Len(toSpeaker) = 1 => toSpeaker[1].method = stage
             /\ link /\ speaker.recording => Len(toSpeaker) + Len(toClient) > 0
        /\ link /\ speaker.recording => At(M, "awaits") \/ At(M, "answered") \/ At(M, "failed")

\* A password that was tried is the one that is sent.
PasswordIsSent ==
    stage \in Building /\ tried =>
        /\ link => client.challenged /\ client.password = stored
        /\ At(M, "awaits") \/ At(M, "answered") => Own.password = stored

\* The client and the speaker agree on the session.
SessionAgreed ==
    link =>
        /\ stage \in {"SETUP", "RECORD"} \/ Established => client.local = speaker.announced
        /\ stage = "RECORD" \/ Established => client.remote = speaker.session

\* A speaker that still records has not read all that was sent to it, or the
\* client knows that a teardown is due.
TeardownIsDue ==
    /\ Established => client.teardownRequired
    /\ stage \in Building => ~client.teardownRequired
    /\ stage = "TEARDOWN" /\ link /\ speaker.recording =>
         \/ At(M, "idle") \/ At(M, "wants")
         \/ \E i \in 1 .. Len(toSpeaker) : toSpeaker[i].method = "TEARDOWN"
    /\ /\ stage = "delete" \/ (stage = "close" /\ ~client.teardownRequired)
       /\ link /\ speaker.recording
       => Len(toSpeaker) + Len(toClient) > 0

\* The inductive invariant, on top of the types and of the stages.
SessionInv ==
    /\ CallsFitStage
    /\ LineFitsStage
    /\ BuildingIsOwn
    /\ PasswordIsSent
    /\ SessionAgreed
    /\ TeardownIsDue
    /\ RequestsNameTheSession

-----------------------------------------------------------------------------
\* What the types say of the line, of a call and of the client.
LEMMA TypeFacts ==
    ASSUME TypeOK
    PROVE  /\ Len(toSpeaker) \in Nat /\ Len(toClient) \in Nat
           /\ \A i \in 1 .. Len(toSpeaker) : toSpeaker[i] \in Requests
           /\ \A i \in 1 .. Len(toClient) : toClient[i] \in AnswerSet
           /\ \A t \in Threads : calls[t] \in CallRecords
           /\ client \in Clients /\ speaker \in Speakers
  BY DEF TypeOK

LEMMA InitSession == Init => SessionInv
<1> SUFFICES ASSUME Init PROVE SessionInv
  OBVIOUS
<1>1. /\ \A t \in Threads : At(t, "idle")
      /\ stage = "idle" /\ ~link /\ Len(toSpeaker) = 0
  BY DEF Init, At, Quiet, CallAt
<1>2. stage \notin Building /\ ~Established
  BY <1>1 DEF Building, Established
<1>3. RequestsNameTheSession
  BY DEF Init, RequestsNameTheSession
<1>4. QED
  BY <1>1, <1>2, <1>3, ManagerIsThread
  DEF SessionInv, CallsFitStage, LineFitsStage, BuildingIsOwn, PasswordIsSent, SessionAgreed,
      TeardownIsDue

\* A step that touches nothing but the call of a user.
LEMMA UserCall ==
    ASSUME TypeOK, SessionInv, UNCHANGED <<sessionVars, networkVars>>,
           NEW u \in Users,
           \A t \in Threads \ {u} : calls'[t] = calls[t],
           ~At(u, "idle")' => Established /\ calls'[u].method \in UsualMethods
    PROVE  SessionInv'
<1>1. /\ calls'[M] = calls[M]
      /\ stage' = stage /\ client' = client /\ tried' = tried /\ stored' = stored
      /\ link' = link /\ toSpeaker' = toSpeaker /\ toClient' = toClient /\ speaker' = speaker
  BY ManagerIsThread DEF sessionVars, networkVars
<1>2. Established' = Established
  BY <1>1 DEF Established
<1>3. CallsFitStage'
  BY <1>1, <1>2, ManagerIsThread DEF SessionInv, CallsFitStage, At
<1>4. LineFitsStage'
  BY <1>1, <1>2 DEF SessionInv, LineFitsStage, OwnLength, At
<1>5. BuildingIsOwn'
  BY <1>1 DEF SessionInv, BuildingIsOwn, AnswerIsTrue, Own, At
<1>6. PasswordIsSent'
  BY <1>1 DEF SessionInv, PasswordIsSent, Own, At
<1>7. SessionAgreed' /\ TeardownIsDue' /\ RequestsNameTheSession'
  BY <1>1, <1>2 DEF SessionInv, SessionAgreed, TeardownIsDue, RequestsNameTheSession, At
<1>8. QED
  BY <1>3, <1>4, <1>5, <1>6, <1>7 DEF SessionInv

\* A step of a user's that sends and receives nothing.
LEMMA UserKeepsSession ==
    ASSUME TypeOK, SessionInv, NEW u \in Users,
           UserBegins(u) \/ UserEnds(u) \/ Looks(u) \/ Peeks(u) \/ Fails(u)
    PROVE  SessionInv'
<1>1. u \in Threads /\ UNCHANGED <<sessionVars, networkVars>>
  BY ManagerIsThread DEF UserBegins, UserEnds, Looks, Peeks, Fails
<1>2. \A t \in Threads \ {u} : calls'[t] = calls[t]
  BY DEF UserBegins, UserEnds, Looks, Peeks, Fails, Throws, Goes, Asks, LooksFirst, TypeOK
<1>3. ~At(u, "idle")' => Established /\ calls'[u].method \in UsualMethods
  <2>1. CASE UserBegins(u)
    BY <1>1, <2>1
    DEF UserBegins, Asks, LooksFirst, TypeOK, CallAt, Established, UsualMethods
  <2>2. CASE UserEnds(u)
    BY <1>1, <2>2 DEF UserEnds, TypeOK, Quiet, CallAt, At
  <2>3. CASE Looks(u) \/ Peeks(u) \/ Fails(u)
    <3>1. ~At(u, "idle") /\ calls[u] \in CallRecords
      BY <1>1, <2>3, TypeFacts DEF Looks, Peeks, Fails, At
    <3>2. calls'[u].method = calls[u].method
      BY <1>1, <2>3, <3>1 DEF Looks, Peeks, Fails, Throws, Goes, CallAt, TypeOK, CallRecords
    <3>3. QED
      BY <3>1, <3>2 DEF SessionInv, CallsFitStage
  <2>4. QED
    BY <2>1, <2>2, <2>3
<1>4. QED
  BY <1>1, <1>2, <1>3, UserCall

\* The manager's looks, and its waits that end in vain.
LEMMA ManagerLooksKeepSession ==
    ASSUME TypeOK, SessionInv, Looks(M) \/ Peeks(M) \/ Fails(M)
    PROVE  SessionInv'
<1>1. /\ \A u \in Users : calls'[u] = calls[u]
      /\ stage' = stage /\ client' = client /\ tried' = tried /\ stored' = stored
      /\ link' = link /\ toSpeaker' = toSpeaker /\ toClient' = toClient /\ speaker' = speaker
  BY ManagerIsThread
  DEF Looks, Peeks, Fails, Throws, Goes, TypeOK, sessionVars, networkVars
<1>2. calls[M] \in CallRecords /\ Len(toSpeaker) \in Nat /\ Len(toClient) \in Nat
  BY TypeFacts, ManagerIsThread
<1>3. /\ ~At(M, "idle") /\ calls'[M].method = calls[M].method
      /\ calls'[M].pc \in {"wants", "peeks", "failed"}
      /\ calls[M].pc \in {"looks", "peeks", "awaits"}
      /\ calls[M].pc = "awaits" => toClient = <<>> /\ calls'[M].pc = "failed"
  BY <1>2, ManagerIsThread DEF Looks, Peeks, Fails, Throws, Goes, CallAt, TypeOK, CallRecords, At
<1>4. Established' = Established
  BY <1>1 DEF Established
<1>5. CallsFitStage'
  BY <1>1, <1>3, <1>4 DEF SessionInv, CallsFitStage, At
<1>6. LineFitsStage'
  BY <1>1, <1>2, <1>3, <1>4 DEF SessionInv, LineFitsStage, OwnLength, At
<1>7. BuildingIsOwn'
  BY <1>1, <1>2, <1>3 DEF SessionInv, BuildingIsOwn, LineFitsStage, OwnLength, At
<1>8. PasswordIsSent'
  BY <1>1, <1>3 DEF SessionInv, PasswordIsSent, At
<1>9. SessionAgreed' /\ TeardownIsDue' /\ RequestsNameTheSession'
  BY <1>1, <1>3, <1>4 DEF SessionInv, SessionAgreed, TeardownIsDue, RequestsNameTheSession, At
<1>10. QED
  BY <1>5, <1>6, <1>7, <1>8, <1>9 DEF SessionInv

\* What is not there while a session is established.
LEMMA EstablishedFacts ==
    Established => stage \notin Building \cup {"idle", "delete"}
                   /\ ~(stage = "close" /\ ~client.teardownRequired)
  BY DEF Established, Building

\* A user's request is sent.
LEMMA UserSends ==
    ASSUME TypeOK, SessionInv, NEW u \in Users, Sends(u)
    PROVE  SessionInv'
<1> DEFINE r == Request(calls[u].method)
<1>1. u \in Threads /\ At(u, "wants") /\ calls[u] \in CallRecords
  BY ManagerIsThread, TypeFacts DEF Sends
<1>2. Established /\ calls[u].method \in UsualMethods
  BY <1>1 DEF SessionInv, CallsFitStage, At
<1>3. CASE ~link
  <2>1. Throws(u) /\ UNCHANGED <<sessionVars, networkVars>>
    BY <1>3 DEF Sends, networkVars
  <2>2. /\ \A t \in Threads \ {u} : calls'[t] = calls[t]
        /\ calls'[u].method = calls[u].method
    BY <1>1, <2>1 DEF Throws, TypeOK, CallAt
  <2>3. QED
    BY <1>2, <2>1, <2>2, UserCall
<1>4. CASE link
  <2>1. /\ calls' = [calls EXCEPT ![u].pc = "awaits", ![u].request = r]
        /\ toSpeaker' = Append(toSpeaker, r)
        /\ stage' = stage /\ client' = client /\ tried' = tried /\ stored' = stored
        /\ link' = link /\ toClient' = toClient /\ speaker' = speaker
    BY <1>4 DEF Sends, sessionVars
  <2>2. /\ \A t \in Threads \ {u} : calls'[t] = calls[t]
        /\ calls'[u].method = calls[u].method
    BY <1>1, <2>1 DEF TypeOK, CallRecords
  <2>3. /\ Len(toSpeaker') = Len(toSpeaker) + 1
        /\ \A i \in 1 .. Len(toSpeaker) : toSpeaker'[i] = toSpeaker[i]
        /\ toSpeaker'[Len(toSpeaker) + 1] = r
        /\ Len(toSpeaker) \in Nat
    BY <2>1 DEF TypeOK
  <2>4. r.method \in UsualMethods /\ r.local = client.local /\ r.remote = client.remote
    BY <1>2 DEF Request
  <2>5. Established' /\ stage \notin Building
    BY <1>2, <2>1, EstablishedFacts DEF Established
  <2>6. CallsFitStage'
    BY <1>2, <2>1, <2>2, <2>5, ManagerIsThread DEF SessionInv, CallsFitStage, At
  <2>7. \A i \in 1 .. Len(toSpeaker') : toSpeaker'[i].method \in UsualMethods
    BY <1>2, <2>3, <2>4 DEF SessionInv, LineFitsStage
  <2>8. LineFitsStage'
    BY <2>1, <2>5, <2>7 DEF LineFitsStage, UsualMethods
  <2>9. BuildingIsOwn' /\ PasswordIsSent' /\ SessionAgreed'
    BY <1>2, <2>1, <2>5 DEF SessionInv, BuildingIsOwn, PasswordIsSent, SessionAgreed
  <2>10. TeardownIsDue'
    <3>1. At(M, "idle")' = At(M, "idle") /\ At(M, "wants")' = At(M, "wants")
      BY <2>2, ManagerIsThread DEF At
    <3>2. (\E i \in 1 .. Len(toSpeaker) : toSpeaker[i].method = "TEARDOWN") =>
          (\E i \in 1 .. Len(toSpeaker') : toSpeaker'[i].method = "TEARDOWN")
      BY <2>3
    <3>3. QED
      BY <1>2, <2>1, <2>5, <3>1, <3>2, EstablishedFacts DEF SessionInv, TeardownIsDue
  <2>11. RequestsNameTheSession'
    <3>1. r.local = speaker.announced /\ r.remote = speaker.session
      BY <1>2, <1>4, <2>4 DEF SessionInv, SessionAgreed
    <3>2. QED
      BY <2>1, <2>3, <3>1 DEF SessionInv, RequestsNameTheSession
  <2>12. QED
    BY <2>6, <2>8, <2>9, <2>10, <2>11 DEF SessionInv
<1>5. QED
  BY <1>3, <1>4

\* The manager's request is sent.
LEMMA ManagerSends ==
    ASSUME TypeOK, SessionInv, Sends(M)
    PROVE  SessionInv'
<1> DEFINE r == Request(calls[M].method)
<1>1. M \in Threads /\ At(M, "wants") /\ calls[M] \in CallRecords
  BY ManagerIsThread, TypeFacts DEF Sends
<1>2. /\ stage \in Building \cup {"open", "TEARDOWN"}
      /\ stage \in Building => calls[M].method = stage
      /\ stage = "open" => calls[M].method = "SET_PARAMETER"
      /\ stage = "TEARDOWN" => calls[M].method = "TEARDOWN"
  BY <1>1 DEF SessionInv, CallsFitStage, At
<1>3. /\ stage' = stage /\ client' = client /\ tried' = tried /\ stored' = stored
      /\ link' = link /\ toClient' = toClient /\ speaker' = speaker
      /\ Established' = Established
  BY DEF Sends, sessionVars, Established
<1>4. /\ stage \in Building => Len(toSpeaker) = 0 /\ Len(toClient) = 0
      /\ stage \in Building /\ link => ~speaker.recording
      /\ stage \in Building \/ Established
  BY <1>1, <1>2, TypeFacts
  DEF SessionInv, LineFitsStage, BuildingIsOwn, OwnLength, At, Established
<1>5. CASE ~link
  <2>1. calls' = [calls EXCEPT ![M] = CallAt("failed", calls[M].method)] /\ toSpeaker' = toSpeaker
    BY <1>5 DEF Sends, Throws
  <2>2. /\ \A t \in Threads \ {M} : calls'[t] = calls[t]
        /\ calls'[M].method = calls[M].method /\ calls'[M].pc = "failed"
    BY <1>1, <2>1 DEF TypeOK, CallAt
  <2>3. CallsFitStage'
    BY <1>2, <1>3, <2>2, ManagerIsThread DEF SessionInv, CallsFitStage, At
  <2>4. LineFitsStage'
    BY <1>3, <1>4, <2>1, <2>2 DEF SessionInv, LineFitsStage, OwnLength, At
  <2>5. BuildingIsOwn' /\ PasswordIsSent'
    BY <1>3, <1>4, <1>5, <2>1, <2>2
    DEF SessionInv, BuildingIsOwn, PasswordIsSent, At
  <2>6. SessionAgreed' /\ TeardownIsDue' /\ RequestsNameTheSession'
    BY <1>3, <1>5, <2>1
    DEF SessionInv, SessionAgreed, TeardownIsDue, RequestsNameTheSession
  <2>7. QED
    BY <2>3, <2>4, <2>5, <2>6 DEF SessionInv
<1>6. CASE link
  <2>1. /\ calls' = [calls EXCEPT ![M].pc = "awaits", ![M].request = r]
        /\ toSpeaker' = Append(toSpeaker, r)
    BY <1>6 DEF Sends
  <2>2. /\ \A t \in Threads \ {M} : calls'[t] = calls[t]
        /\ calls'[M].method = calls[M].method /\ calls'[M].pc = "awaits"
        /\ calls'[M].request = r
    BY <1>1, <2>1 DEF TypeOK, CallRecords
  <2>3. /\ Len(toSpeaker') = Len(toSpeaker) + 1
        /\ \A i \in 1 .. Len(toSpeaker) : toSpeaker'[i] = toSpeaker[i]
        /\ toSpeaker'[Len(toSpeaker) + 1] = r
        /\ Len(toSpeaker) \in Nat
    BY <2>1 DEF TypeOK
  <2>4. /\ r.method = calls[M].method /\ r.local = client.local /\ r.remote = client.remote
        /\ r.password = IF client.challenged THEN client.password ELSE "none"
    BY DEF Request
  <2>5. CallsFitStage'
    BY <1>2, <1>3, <2>2, ManagerIsThread DEF SessionInv, CallsFitStage, At
  <2>6. LineFitsStage'
    <3>1. Established => \A i \in 1 .. Len(toSpeaker') : toSpeaker'[i].method \in UsualMethods
      BY <1>2, <2>3, <2>4, EstablishedFacts DEF SessionInv, LineFitsStage, UsualMethods
    <3>2. stage \in Building => Len(toSpeaker') = 1
      BY <1>4, <2>3
    <3>3. OwnLength' = 1
      BY <2>2 DEF OwnLength, At
    <3>4. \A i \in 1 .. Len(toSpeaker') :
              toSpeaker'[i].method \in {"ANNOUNCE", "SETUP"} => Len(toSpeaker') = 1
      BY <1>4, <3>1, <3>2 DEF UsualMethods
    <3>5. stage \in Building => Len(toSpeaker') + Len(toClient') <= 1
      <4>1. SUFFICES ASSUME stage \in Building PROVE Len(toSpeaker') + Len(toClient') <= 1
        OBVIOUS
      <4>2. Len(toClient') = 0
        BY <1>3, <1>4, <4>1
      <4>3. QED
        BY <3>2, <4>1, <4>2
    <3>6. QED
      BY <1>3, <3>1, <3>3, <3>4, <3>5 DEF LineFitsStage
  <2>7. BuildingIsOwn'
    BY <1>2, <1>3, <1>4, <2>2, <2>3, <2>4 DEF BuildingIsOwn, At, Own
  <2>8. PasswordIsSent'
    BY <1>3, <1>6, <2>2, <2>4 DEF SessionInv, PasswordIsSent, At, Own
  <2>9. SessionAgreed'
    BY <1>3 DEF SessionInv, SessionAgreed
  <2>10. TeardownIsDue'
    <3>1. stage = "TEARDOWN" =>
              \E i \in 1 .. Len(toSpeaker') : toSpeaker'[i].method = "TEARDOWN"
      BY <1>2, <2>3, <2>4
    <3>2. QED
      BY <1>2, <1>3, <3>1 DEF SessionInv, TeardownIsDue, Building
  <2>11. RequestsNameTheSession'
    <3>1. r.method \in SessionMethods => r.local = speaker.announced /\ r.remote = speaker.session
      BY <1>2, <1>4, <1>6, <2>4 DEF SessionInv, SessionAgreed, SessionMethods, Building
    <3>2. QED
      BY <1>3, <2>1, <2>3, <3>1 DEF SessionInv, RequestsNameTheSession
  <2>12. QED
    BY <2>5, <2>6, <2>7, <2>8, <2>9, <2>10, <2>11 DEF SessionInv
<1>7. QED
  BY <1>5, <1>6

\* A user gets an answer.
LEMMA UserReceives ==
    ASSUME TypeOK, SessionInv, NEW u \in Users, Receives(u)
    PROVE  SessionInv'
<1>1. u \in Threads /\ At(u, "awaits") /\ calls[u] \in CallRecords
  BY ManagerIsThread, TypeFacts DEF Receives
<1>2. Established /\ calls[u].method \in UsualMethods
  BY <1>1 DEF SessionInv, CallsFitStage, At
<1>3. /\ stage' = stage /\ tried' = tried /\ stored' = stored
      /\ link' = link /\ toSpeaker' = toSpeaker /\ speaker' = speaker
      /\ client'.local = client.local /\ client'.remote = client.remote
      /\ client'.teardownRequired = client.teardownRequired
  BY DEF Receives, TypeOK, Clients
<1>4. /\ \A t \in Threads \ {u} : calls'[t] = calls[t]
      /\ calls'[u].method = calls[u].method
  BY <1>1 DEF Receives, TypeOK, CallRecords
<1>5. Established' /\ stage \notin Building
  BY <1>2, <1>3, EstablishedFacts DEF Established
<1>6. CallsFitStage'
  BY <1>2, <1>3, <1>4, <1>5, ManagerIsThread DEF SessionInv, CallsFitStage, At
<1>7. LineFitsStage'
  BY <1>2, <1>3, <1>5 DEF SessionInv, LineFitsStage
<1>8. BuildingIsOwn' /\ PasswordIsSent' /\ SessionAgreed' /\ RequestsNameTheSession'
  BY <1>2, <1>3, <1>5
  DEF SessionInv, BuildingIsOwn, PasswordIsSent, SessionAgreed, RequestsNameTheSession
<1>9. TeardownIsDue'
  <2>1. At(M, "idle")' = At(M, "idle") /\ At(M, "wants")' = At(M, "wants")
    BY <1>4, ManagerIsThread DEF At
  <2>2. QED
    BY <1>2, <1>3, <1>5, <2>1, EstablishedFacts DEF SessionInv, TeardownIsDue
<1>10. QED
  BY <1>6, <1>7, <1>8, <1>9 DEF SessionInv

\* The manager gets an answer.
LEMMA ManagerReceives ==
    ASSUME TypeOK, SessionInv, Receives(M)
    PROVE  SessionInv'
<1> DEFINE a == Head(toClient)
<1>1. M \in Threads /\ At(M, "awaits") /\ calls[M] \in CallRecords
  BY ManagerIsThread, TypeFacts DEF Receives
<1>2. stage \in Building \cup {"open", "TEARDOWN"}
  BY <1>1 DEF SessionInv, CallsFitStage, At
<1>3. /\ stage' = stage /\ tried' = tried /\ stored' = stored
      /\ link' = link /\ toSpeaker' = toSpeaker /\ speaker' = speaker
      /\ client'.local = client.local /\ client'.remote = client.remote
      /\ client'.password = client.password
      /\ client'.teardownRequired = client.teardownRequired
      /\ client'.challenged = (client.challenged \/ a.status = 401)
  BY DEF Receives, TypeOK, Clients
<1>4. /\ \A t \in Threads \ {M} : calls'[t] = calls[t]
      /\ calls'[M].method = calls[M].method /\ calls'[M].pc = "answered"
      /\ calls'[M].request = calls[M].request /\ calls'[M].answer = a
  BY <1>1 DEF Receives, TypeOK, CallRecords
<1>5. /\ Len(toClient) \in Nat /\ Len(toSpeaker) \in Nat
      /\ Len(toClient) > 0 /\ a = toClient[1] /\ Len(toClient') = Len(toClient) - 1
  BY DEF Receives, TypeOK
<1>6. stage \in Building => Len(toSpeaker) = 0 /\ Len(toClient) = 1
  BY <1>1, <1>5 DEF SessionInv, LineFitsStage, OwnLength
<1>7. Established' = Established
  BY <1>3 DEF Established
<1>8. CallsFitStage'
  BY <1>1, <1>3, <1>4, <1>7, ManagerIsThread DEF SessionInv, CallsFitStage, At
<1>9. LineFitsStage'
  BY <1>3, <1>4, <1>5, <1>6, <1>7 DEF SessionInv, LineFitsStage, OwnLength, At
<1>10. BuildingIsOwn'
  <2>1. SUFFICES ASSUME stage \in Building PROVE BuildingIsOwn'
    BY <1>3 DEF BuildingIsOwn
  <2>2. AnswerIsTrue(a)
    BY <1>1, <1>5, <1>6, <2>1 DEF SessionInv, BuildingIsOwn
  <2>3. AnswerIsTrue(calls[M].answer)'
    BY <1>3, <1>4, <2>2 DEF AnswerIsTrue, Own
  <2>4. QED
    BY <1>3, <1>4, <2>3 DEF BuildingIsOwn, At
<1>11. PasswordIsSent'
  BY <1>1, <1>3, <1>4 DEF SessionInv, PasswordIsSent, At, Own
<1>12. SessionAgreed' /\ RequestsNameTheSession'
  BY <1>3, <1>7 DEF SessionInv, SessionAgreed, RequestsNameTheSession
<1>13. TeardownIsDue'
  BY <1>1, <1>2, <1>3, <1>7 DEF SessionInv, TeardownIsDue, At, Building
<1>14. QED
  BY <1>8, <1>9, <1>10, <1>11, <1>12, <1>13 DEF SessionInv

-----------------------------------------------------------------------------
\* A connection is made, or the client deleted: nothing is under way.
LEMMA NewConnection ==
    ASSUME TypeOK, CallsFollowStage, SessionInv, Connects \/ Deletes
    PROVE  SessionInv'
<1>1. /\ calls' = calls /\ tried' = FALSE /\ toSpeaker' = <<>> /\ toClient' = <<>>
      /\ client'.teardownRequired = FALSE /\ speaker'.recording = FALSE
      /\ stage' \in {"OPTIONS", "POST", "ANNOUNCE", "idle"}
      /\ At(M, "idle") /\ UsersAreQuiet
  BY DEF Connects, Deletes, FreshClient, FreshSpeaker, CallsFollowStage
<1>2. ~Established' /\ Len(toSpeaker') = 0 /\ Len(toClient') = 0
  BY <1>1 DEF Established
<1>3. At(M, "idle")' /\ \A u \in Users : At(u, "idle")'
  BY <1>1 DEF UsersAreQuiet, At
<1>4. CallsFitStage' /\ LineFitsStage'
  BY <1>1, <1>2, <1>3 DEF CallsFitStage, LineFitsStage, OwnLength, At
<1>5. BuildingIsOwn' /\ PasswordIsSent' /\ SessionAgreed' /\ TeardownIsDue'
  BY <1>1, <1>2, <1>3
  DEF BuildingIsOwn, PasswordIsSent, SessionAgreed, TeardownIsDue, At
<1>6. RequestsNameTheSession'
  BY <1>1 DEF RequestsNameTheSession
<1>7. QED
  BY <1>4, <1>5, <1>6 DEF SessionInv

\* A request of the session's that is wanted.
LEMMA BuildsKeepsSession ==
    ASSUME TypeOK, SessionInv, Builds
    PROVE  SessionInv'
<1>1. /\ stage \in Building /\ At(M, "idle") /\ M \in Threads
      /\ stage' = stage /\ tried' = tried /\ stored' = stored
      /\ link' = link /\ toSpeaker' = toSpeaker /\ toClient' = toClient /\ speaker' = speaker
      /\ client'.remote = client.remote /\ client'.challenged = client.challenged
      /\ client'.password = client.password
      /\ client'.teardownRequired = client.teardownRequired
      /\ stage # "ANNOUNCE" => client' = client
  BY ManagerIsThread DEF Builds, networkVars, Announced, TypeOK, Clients
<1>2. /\ \A t \in Threads \ {M} : calls'[t] = calls[t]
      /\ calls'[M].method = stage /\ calls'[M].pc = "wants"
  BY <1>1 DEF Builds, Asks, CallAt, TypeOK
<1>3. ~Established /\ ~Established'
  BY <1>1, EstablishedFacts DEF Established, Building
<1>4. CallsFitStage'
  BY <1>1, <1>2, <1>3, ManagerIsThread DEF SessionInv, CallsFitStage, At, Building
<1>5. LineFitsStage'
  BY <1>1, <1>2, <1>3 DEF SessionInv, LineFitsStage, OwnLength, At
<1>6. BuildingIsOwn' /\ PasswordIsSent'
  BY <1>1, <1>2 DEF SessionInv, BuildingIsOwn, PasswordIsSent, At
<1>7. SessionAgreed'
  BY <1>1, <1>3 DEF SessionInv, SessionAgreed
<1>8. TeardownIsDue' /\ RequestsNameTheSession'
  BY <1>1, <1>3 DEF SessionInv, TeardownIsDue, RequestsNameTheSession, Building
<1>9. QED
  BY <1>4, <1>5, <1>6, <1>7, <1>8 DEF SessionInv

\* The answer is OK, and the next stage begins.
LEMMA AdvancesKeepsSession ==
    ASSUME TypeOK, CallsFollowStage, SessionInv, Advances
    PROVE  SessionInv'
<1> DEFINE a == calls[M].answer
<1>1. /\ stage \in Building /\ At(M, "answered") /\ M \in Threads /\ a.status = 200
      /\ stage' = Follows(stage) /\ client' = Accepted(stage, a)
      /\ calls' = [calls EXCEPT ![M] = Quiet]
      /\ tried' = tried /\ stored' = stored
      /\ link' = link /\ toSpeaker' = toSpeaker /\ toClient' = toClient /\ speaker' = speaker
  BY ManagerIsThread DEF Advances, networkVars
<1>2. At(M, "idle")' /\ \A u \in Users : At(u, "idle")'
  BY <1>1, ManagerIsThread
  DEF CallsFollowStage, UsersAreQuiet, At, Quiet, CallAt, TypeOK, Building
<1>3. Len(toSpeaker) = 0 /\ Len(toClient) = 0
  BY <1>1, TypeFacts DEF SessionInv, LineFitsStage, OwnLength, At
<1>4. AnswerIsTrue(a)
  BY <1>1 DEF SessionInv, BuildingIsOwn
<1>5. /\ client'.local = client.local /\ client'.challenged = client.challenged
      /\ client'.password = client.password
      /\ client'.remote = IF stage = "SETUP" THEN a.session ELSE client.remote
      /\ client'.teardownRequired = (stage = "RECORD" \/ client.teardownRequired)
  BY <1>1 DEF Accepted, TypeOK, Clients
<1>6. /\ stage = "OPTIONS" => stage' = "close"
      /\ stage = "POST" => stage' = "ANNOUNCE"
      /\ stage = "ANNOUNCE" => stage' = "SETUP"
      /\ stage = "SETUP" => stage' = "RECORD"
      /\ stage = "RECORD" => stage' = "open"
  BY <1>1 DEF Follows
<1>7. ~client.teardownRequired
  BY <1>1 DEF SessionInv, TeardownIsDue
<1>8. Established' <=> stage = "RECORD"
  BY <1>1, <1>5, <1>6, <1>7 DEF Established, Building
<1>9. CallsFitStage'
  BY <1>2 DEF CallsFitStage
<1>10. LineFitsStage'
  BY <1>1, <1>2, <1>3 DEF LineFitsStage, OwnLength, At
<1>11. BuildingIsOwn'
  BY <1>1, <1>2, <1>4, <1>6 DEF BuildingIsOwn, AnswerIsTrue, At, Building
<1>12. PasswordIsSent'
  BY <1>1, <1>2, <1>5 DEF SessionInv, PasswordIsSent, At
<1>13. SessionAgreed'
  BY <1>1, <1>4, <1>5, <1>6, <1>8 DEF SessionInv, SessionAgreed, AnswerIsTrue, Building
<1>14. TeardownIsDue'
  BY <1>1, <1>4, <1>5, <1>6, <1>7, <1>8 DEF TeardownIsDue, AnswerIsTrue, Building
<1>15. RequestsNameTheSession'
  BY <1>1 DEF SessionInv, RequestsNameTheSession
<1>16. QED
  BY <1>9, <1>10, <1>11, <1>12, <1>13, <1>14, <1>15 DEF SessionInv

\* The speaker refuses, or does not answer.
LEMMA GivesUpKeepsSession ==
    ASSUME TypeOK, CallsFollowStage, SessionInv, GivesUp
    PROVE  SessionInv'
<1>1. /\ stage \in Building /\ M \in Threads /\ stage' = "close" /\ client' = client
      /\ At(M, "failed") \/ (At(M, "answered") /\ calls[M].answer.status # 200)
      /\ calls' = [calls EXCEPT ![M] = Quiet]
      /\ link' = link /\ toSpeaker' = toSpeaker /\ toClient' = toClient /\ speaker' = speaker
  BY ManagerIsThread DEF GivesUp, networkVars
<1>2. At(M, "idle")' /\ \A u \in Users : At(u, "idle")'
  BY <1>1, ManagerIsThread
  DEF CallsFollowStage, UsersAreQuiet, At, Quiet, CallAt, TypeOK, Building
<1>3. ~client.teardownRequired /\ ~Established'
  BY <1>1 DEF SessionInv, TeardownIsDue, Established
<1>4. link /\ speaker.recording => Len(toSpeaker) + Len(toClient) > 0
  BY <1>1 DEF SessionInv, BuildingIsOwn, AnswerIsTrue
<1>5. CallsFitStage' /\ PasswordIsSent' /\ BuildingIsOwn'
  BY <1>1, <1>2 DEF CallsFitStage, PasswordIsSent, BuildingIsOwn, Building
<1>6. LineFitsStage'
  BY <1>1, <1>3 DEF SessionInv, LineFitsStage, Building
<1>7. SessionAgreed' /\ TeardownIsDue' /\ RequestsNameTheSession'
  BY <1>1, <1>3, <1>4
  DEF SessionInv, SessionAgreed, TeardownIsDue, RequestsNameTheSession, Building
<1>8. QED
  BY <1>5, <1>6, <1>7 DEF SessionInv

\* The speaker asks for a password.
LEMMA IsRefusedKeepsSession ==
    ASSUME TypeOK, CallsFollowStage, SessionInv, IsRefused
    PROVE  SessionInv'
<1>1. /\ stage \in Building /\ At(M, "answered") /\ M \in Threads
      /\ calls[M].answer.status = 401
      /\ stored' = LeftAfterRefusal
      /\ calls' = [calls EXCEPT ![M] = Quiet]
      /\ link' = link /\ toSpeaker' = toSpeaker /\ toClient' = toClient /\ speaker' = speaker
  BY ManagerIsThread DEF IsRefused, networkVars
<1>2. At(M, "idle")' /\ \A u \in Users : At(u, "idle")'
  BY <1>1, ManagerIsThread
  DEF CallsFollowStage, UsersAreQuiet, At, Quiet, CallAt, TypeOK, Building
<1>3. Len(toSpeaker) = 0 /\ Len(toClient) = 0
  BY <1>1, TypeFacts DEF SessionInv, LineFitsStage, OwnLength, At
<1>4. AnswerIsTrue(calls[M].answer) /\ client.challenged
  BY <1>1 DEF SessionInv, BuildingIsOwn
<1>5. ~(link /\ speaker.recording) /\ ~client.teardownRequired
  BY <1>1, <1>4 DEF AnswerIsTrue, SessionInv, TeardownIsDue
<1>6. /\ stage' \in {"close", "OPTIONS", "POST", "ANNOUNCE"}
      /\ ~client'.teardownRequired
  BY <1>1, <1>5 DEF IsRefused, TypeOK, Clients, FreshClient
<1>7. stage' # "close" /\ link => client'.challenged /\ client'.password = stored'
  BY <1>1, <1>4 DEF IsRefused, LeftAfterRefusal, TypeOK, Clients
<1>8. ~Established'
  BY <1>6 DEF Established
<1>9. CallsFitStage'
  BY <1>2 DEF CallsFitStage
<1>10. LineFitsStage'
  BY <1>1, <1>2, <1>3, <1>8 DEF LineFitsStage, OwnLength, At
<1>11. BuildingIsOwn'
  BY <1>1, <1>2, <1>5 DEF BuildingIsOwn, At
<1>12. PasswordIsSent'
  BY <1>1, <1>2, <1>6, <1>7 DEF PasswordIsSent, At, Building
<1>13. SessionAgreed' /\ TeardownIsDue' /\ RequestsNameTheSession'
  BY <1>1, <1>5, <1>6, <1>8
  DEF SessionInv, SessionAgreed, TeardownIsDue, RequestsNameTheSession
<1>14. QED
  BY <1>9, <1>10, <1>11, <1>12, <1>13 DEF SessionInv

-----------------------------------------------------------------------------
\* Parameters of an open session.
LEMMA ParametersKeepSession ==
    ASSUME TypeOK, SessionInv, SetsParameter \/ ParameterIsSet
    PROVE  SessionInv'
<1>1. /\ stage = "open" /\ M \in Threads
      /\ stage' = stage /\ client' = client /\ tried' = tried /\ stored' = stored
      /\ link' = link /\ toSpeaker' = toSpeaker /\ toClient' = toClient /\ speaker' = speaker
  BY ManagerIsThread DEF SetsParameter, ParameterIsSet, sessionVars, networkVars
<1>2. /\ \A t \in Threads \ {M} : calls'[t] = calls[t]
      /\ At(M, "idle")' \/ calls'[M].method = "SET_PARAMETER"
  BY <1>1 DEF SetsParameter, ParameterIsSet, LooksFirst, CallAt, Quiet, At, TypeOK
<1>3. Established /\ Established' /\ stage \notin Building
  BY <1>1 DEF Established, Building
<1>4. CallsFitStage'
  BY <1>1, <1>2, <1>3, ManagerIsThread DEF SessionInv, CallsFitStage, At
<1>5. LineFitsStage' /\ BuildingIsOwn' /\ PasswordIsSent'
  BY <1>1, <1>3 DEF SessionInv, LineFitsStage, BuildingIsOwn, PasswordIsSent
<1>6. SessionAgreed' /\ TeardownIsDue' /\ RequestsNameTheSession'
  BY <1>1, <1>3 DEF SessionInv, SessionAgreed, TeardownIsDue, RequestsNameTheSession
<1>7. QED
  BY <1>4, <1>5, <1>6 DEF SessionInv

\* The end of a session, up to its teardown.
LEMMA ClosingKeepsSession ==
    ASSUME TypeOK, CallsFollowStage, SessionInv, CloseBegins \/ Closes
    PROVE  SessionInv'
<1>1. /\ stage \in {"open", "close"} /\ stage' \in {"close", "TEARDOWN", "delete"}
      /\ M \in Threads /\ At(M, "idle")
      /\ client' = client /\ tried' = tried /\ stored' = stored
      /\ link' = link /\ toSpeaker' = toSpeaker /\ toClient' = toClient /\ speaker' = speaker
  BY ManagerIsThread DEF CloseBegins, Closes, networkVars, CallsFollowStage
<1>2. /\ stage' = "close" => stage = "open" /\ calls' = calls
      /\ stage' = "TEARDOWN" => UsersAreQuiet /\ client.teardownRequired
                                /\ calls' = [calls EXCEPT ![M] = CallAt("wants", "TEARDOWN")]
      /\ stage' = "delete" => UsersAreQuiet /\ calls' = calls
                              /\ ~(link /\ client.teardownRequired)
      /\ stage' # "close" => stage = "close"
  BY DEF CloseBegins, Closes, Asks
<1>3. Established' <=> Established /\ stage' # "delete"
  <2>1. stage = "open" => client.teardownRequired
    BY DEF SessionInv, TeardownIsDue, Established
  <2>2. QED
    BY <1>1, <1>2, <2>1 DEF Established
<1>4. CallsFitStage'
  <2>1. CASE stage' = "TEARDOWN"
    <3>1. /\ \A u \in Users : At(u, "idle")'
          /\ calls'[M].method = "TEARDOWN"
      BY <1>1, <1>2, <2>1, ManagerIsThread DEF UsersAreQuiet, At, TypeOK, CallAt
    <3>2. QED
      BY <2>1, <3>1 DEF CallsFitStage, Building
  <2>2. CASE stage' # "TEARDOWN"
    BY <1>1, <1>2, <1>3, <2>2 DEF SessionInv, CallsFitStage, UsersAreQuiet, At
  <2>3. QED
    BY <2>1, <2>2
<1>5. LineFitsStage' /\ BuildingIsOwn' /\ PasswordIsSent'
  BY <1>1, <1>3 DEF SessionInv, LineFitsStage, BuildingIsOwn, PasswordIsSent, Building
<1>6. SessionAgreed' /\ RequestsNameTheSession'
  BY <1>1, <1>3 DEF SessionInv, SessionAgreed, RequestsNameTheSession
<1>7. TeardownIsDue'
  <2>1. stage' = "TEARDOWN" => At(M, "wants")'
    BY <1>1, <1>2 DEF At, TypeOK, CallAt
  <2>2. QED
    BY <1>1, <1>2, <1>3, <2>1 DEF SessionInv, TeardownIsDue, Building, Established
<1>8. QED
  BY <1>4, <1>5, <1>6, <1>7 DEF SessionInv

\* The teardown has been answered, or its answer awaited in vain.
LEMMA TornDownKeepsSession ==
    ASSUME TypeOK, CallsFollowStage, SessionInv, TornDown
    PROVE  SessionInv'
<1>1. /\ stage = "TEARDOWN" /\ stage' = "delete" /\ M \in Threads
      /\ At(M, "answered") \/ At(M, "failed")
      /\ calls' = [calls EXCEPT ![M] = Quiet]
      /\ link' = link /\ toSpeaker' = toSpeaker /\ toClient' = toClient /\ speaker' = speaker
  BY ManagerIsThread DEF TornDown, networkVars
<1>2. At(M, "idle")' /\ \A u \in Users : At(u, "idle")'
  BY <1>1, ManagerIsThread
  DEF CallsFollowStage, UsersAreQuiet, At, Quiet, CallAt, TypeOK
<1>3. ~Established'
  BY <1>1 DEF Established
<1>4. link /\ speaker.recording => Len(toSpeaker) + Len(toClient) > 0
  BY <1>1, TypeFacts DEF SessionInv, TeardownIsDue, At
<1>5. CallsFitStage' /\ BuildingIsOwn' /\ PasswordIsSent'
  BY <1>1, <1>2 DEF CallsFitStage, BuildingIsOwn, PasswordIsSent, Building
<1>6. LineFitsStage'
  BY <1>1, <1>3 DEF SessionInv, LineFitsStage, Building
<1>7. SessionAgreed' /\ TeardownIsDue' /\ RequestsNameTheSession'
  BY <1>1, <1>3, <1>4
  DEF SessionInv, SessionAgreed, TeardownIsDue, RequestsNameTheSession, Building
<1>8. QED
  BY <1>5, <1>6, <1>7 DEF SessionInv

-----------------------------------------------------------------------------
(***************************************************************************)
(* The speaker and the network.                                            *)
(***************************************************************************)
\* How the line moves on when a request is answered.
LEMMA LineMoves ==
    ASSUME TypeOK, Answers
    PROVE  /\ Len(toSpeaker) > 0 /\ Len(toSpeaker') = Len(toSpeaker) - 1
           /\ Len(toClient') = Len(toClient) + 1
           /\ \A i \in 1 .. Len(toSpeaker') : toSpeaker'[i] = toSpeaker[i + 1]
           /\ Head(toSpeaker) = toSpeaker[1] /\ toSpeaker[1] \in Requests
           /\ stage' = stage /\ client' = client /\ tried' = tried /\ stored' = stored
           /\ link' = link /\ calls' = calls
<1>1. /\ toSpeaker # <<>> /\ toSpeaker' = Tail(toSpeaker) /\ toSpeaker \in Seq(Requests)
      /\ toClient \in Seq(AnswerSet)
      /\ \E a : toClient' = Append(toClient, a)
  BY DEF Answers, TypeOK
<1>2. Len(toClient') = Len(toClient) + 1
  BY <1>1
<1>3. QED
  BY <1>1, <1>2 DEF Answers, sessionVars

\* What the speaker's answer to a request has to do with what it does.
LEMMA AnswerFacts ==
    ASSUME TypeOK, Answers, NEW r, r = Head(toSpeaker)
    PROVE  \E a :
             /\ toClient' = Append(toClient, a)
             /\ a.status = 401 => r.password # "right" /\ r.method # "TEARDOWN"
             /\ a.status = 200 => speaker' = Obeys(r) /\ a.session = speaker'.session
             /\ a.status # 200 => speaker' = speaker /\ r.method # "TEARDOWN"
<1>1. CASE /\ speaker' = Obeys(r)
           /\ toClient' = Append(toClient, AnswerTo(r, 200, speaker'.session))
  <2> DEFINE a == AnswerTo(r, 200, speaker'.session)
  <2>1. a.status = 200 /\ a.session = speaker'.session
    BY DEF AnswerTo
  <2> HIDE DEF a
  <2>2. QED
    BY <1>1, <2>1 DEF a
<1>2. CASE /\ r.method # "TEARDOWN"
           /\ toClient' = Append(toClient, AnswerTo(r, 453, 0))
           /\ UNCHANGED speaker
  <2>1. AnswerTo(r, 453, 0).status = 453
    BY DEF AnswerTo
  <2>2. QED
    BY <1>2, <2>1
<1>3. CASE /\ MayAsk(r)
           /\ toClient' = Append(toClient, AnswerTo(r, 401, 0))
           /\ UNCHANGED speaker
  <2>1. AnswerTo(r, 401, 0).status = 401
    BY DEF AnswerTo
  <2>2. QED
    BY <1>3, <2>1 DEF MayAsk
<1>4. QED
  BY <1>1, <1>2, <1>3 DEF Answers

\* What a request changes of the speaker's side.
LEMMA ObeysFacts ==
    ASSUME TypeOK, NEW r \in Requests
    PROVE  /\ Obeys(r).announced = IF r.method = "ANNOUNCE" THEN r.local ELSE speaker.announced
           /\ r.method # "SETUP" => Obeys(r).session = speaker.session
           /\ Obeys(r).recording =>
                r.method = "RECORD" \/ (r.method # "TEARDOWN" /\ speaker.recording)
  BY DEF Obeys, TypeOK, Speakers, Requests, Methods

\* The speaker answers, and does what it was asked to do, or not.
LEMMA AnswersKeepsSession ==
    ASSUME TypeOK, SessionInv, Answers
    PROVE  SessionInv'
<1> DEFINE r == toSpeaker[1]
<1>1. /\ Len(toSpeaker) > 0 /\ Len(toSpeaker') = Len(toSpeaker) - 1
      /\ Len(toClient') = Len(toClient) + 1
      /\ \A i \in 1 .. Len(toSpeaker') : toSpeaker'[i] = toSpeaker[i + 1]
      /\ stage' = stage /\ client' = client /\ tried' = tried /\ stored' = stored
      /\ link' = link /\ calls' = calls
      /\ Len(toSpeaker) \in Nat /\ Len(toClient) \in Nat /\ r \in Requests
  BY LineMoves, TypeFacts
<1>2. PICK a :
        /\ toClient' = Append(toClient, a)
        /\ a.status = 401 => r.password # "right" /\ r.method # "TEARDOWN"
        /\ a.status = 200 => speaker' = Obeys(r) /\ a.session = speaker'.session
        /\ a.status # 200 => speaker' = speaker /\ r.method # "TEARDOWN"
  BY AnswerFacts, LineMoves
<1>3. /\ r.method # "ANNOUNCE" => speaker'.announced = speaker.announced
      /\ r.method # "SETUP" => speaker'.session = speaker.session
      /\ speaker'.recording => speaker.recording \/ (r.method = "RECORD" /\ a.status = 200)
      /\ r.method = "TEARDOWN" => ~speaker'.recording
      /\ a.status = 200 /\ r.method = "ANNOUNCE" => speaker'.announced = r.local
  <2>1. CASE a.status = 200
    <3>1. speaker' = Obeys(r) /\ r \in Requests
      BY <1>1, <1>2, <2>1
    <3>2. QED
      BY <2>1, <3>1, ObeysFacts
  <2>2. CASE a.status # 200
    BY <1>2, <2>2
  <2>3. QED
    BY <2>1, <2>2
<1>4. Established' = Established /\ At(M, "idle")' = At(M, "idle")
      /\ At(M, "wants")' = At(M, "wants") /\ At(M, "awaits")' = At(M, "awaits")
      /\ At(M, "failed")' = At(M, "failed") /\ At(M, "answered")' = At(M, "answered")
      /\ Own' = Own
  BY <1>1 DEF Established, At, Own
<1>5. CallsFitStage'
  BY <1>1, <1>4 DEF SessionInv, CallsFitStage, At
<1>6. stage \in Building =>
        /\ Len(toSpeaker) = 1 /\ Len(toClient) = 0
        /\ At(M, "awaits") \/ At(M, "failed")
        /\ r.method = stage
        /\ At(M, "awaits") => r = Own /\ ~(link /\ speaker.recording)
  BY <1>1 DEF SessionInv, LineFitsStage, BuildingIsOwn, OwnLength
<1>7. stage \in Building => Len(toSpeaker') = 0 /\ Len(toClient') = 1 /\ toClient'[1] = a
  <2>1. SUFFICES ASSUME stage \in Building
                 PROVE  Len(toSpeaker') = 0 /\ Len(toClient') = 1 /\ toClient'[1] = a
    OBVIOUS
  <2>2. toClient = <<>>
    BY <1>6, <2>1 DEF TypeOK
  <2>3. toClient' = <<a>>
    BY <1>2, <2>2
  <2>4. Len(toSpeaker) = 1
    BY <1>6, <2>1
  <2>5. QED
    BY <1>1, <2>3, <2>4
<1>8. Established => r.method \in UsualMethods
  BY <1>1 DEF SessionInv, LineFitsStage
<1>9. LineFitsStage'
  <2>1. Established => \A i \in 1 .. Len(toSpeaker') : toSpeaker'[i].method \in UsualMethods
    BY <1>1 DEF SessionInv, LineFitsStage
  <2>2. \A i \in 1 .. Len(toSpeaker') : toSpeaker'[i].method \notin {"ANNOUNCE", "SETUP"}
    <3>1. SUFFICES ASSUME NEW i \in 1 .. Len(toSpeaker'),
                          toSpeaker'[i].method \in {"ANNOUNCE", "SETUP"}
                   PROVE  FALSE
      OBVIOUS
    <3>2. i + 1 \in 1 .. Len(toSpeaker) /\ toSpeaker[i + 1].method \in {"ANNOUNCE", "SETUP"}
      BY <1>1, <3>1
    <3>3. Len(toSpeaker) = 1
      BY <3>2 DEF SessionInv, LineFitsStage
    <3>4. QED
      BY <3>2, <3>3
  <2>3. stage \in Building => Len(toSpeaker') + Len(toClient') <= OwnLength'
    <3>1. SUFFICES ASSUME stage \in Building
                   PROVE  Len(toSpeaker') + Len(toClient') <= OwnLength'
      OBVIOUS
    <3>2. Len(toSpeaker') = 0 /\ Len(toClient') = 1
      BY <1>7, <3>1
    <3>3. OwnLength' = 1
      BY <1>4, <1>6, <3>1 DEF OwnLength
    <3>4. QED
      BY <3>2, <3>3
  <2>4. QED
    BY <1>1, <1>4, <2>1, <2>2, <2>3 DEF LineFitsStage
<1>10. BuildingIsOwn'
  <2>1. SUFFICES ASSUME stage \in Building PROVE BuildingIsOwn'
    BY <1>1 DEF BuildingIsOwn
  <2>2. At(M, "awaits") => AnswerIsTrue(a)'
    BY <1>1, <1>2, <1>3, <1>4, <1>6, <2>1 DEF AnswerIsTrue, SessionInv, BuildingIsOwn
  <2>3. Len(toSpeaker') = 0 /\ Len(toClient') = 1 /\ toClient'[1] = a
    BY <1>7, <2>1
  <2>4. Len(toSpeaker') + Len(toClient') > 0
    BY <2>3
  <2>5. At(M, "awaits") => Own.method = stage /\ Own.local = client.local /\ Own.remote = client.remote
    BY <2>1 DEF SessionInv, BuildingIsOwn
  <2>6. ~At(M, "answered")
    BY <1>6, <2>1 DEF At
  <2>7. At(M, "awaits") => AnswerIsTrue(toClient[1])'
    BY <2>2, <2>3 DEF AnswerIsTrue
  <2>8. At(M, "awaits")' =>
          (Own.method = stage /\ Own.local = client.local /\ Own.remote = client.remote)'
    <3>1. At(M, "awaits")' = At(M, "awaits") /\ Own' = Own
      BY <1>4
    <3>2. QED
      BY <1>1, <2>5, <3>1
  <2>9. ~At(M, "answered")' /\ (At(M, "awaits") \/ At(M, "failed"))'
    BY <1>4, <1>6, <2>1, <2>6
  <2>10. QED
    <3>1. At(M, "awaits")' => AnswerIsTrue(toClient[1])'
      BY <1>4, <2>7
    <3>2. Len(toSpeaker') # 1 /\ Len(toClient') = 1
      BY <2>3
    <3>3. QED
      BY <2>4, <2>8, <2>9, <3>1, <3>2 DEF BuildingIsOwn
<1>11. PasswordIsSent'
  BY <1>1, <1>4 DEF SessionInv, PasswordIsSent
<1>12. SessionAgreed'
  <2>1. stage \in {"SETUP", "RECORD"} \/ Established => r.method # "ANNOUNCE"
    BY <1>6, <1>8 DEF UsualMethods, Building
  <2>2. stage = "RECORD" \/ Established => r.method # "SETUP"
    BY <1>6, <1>8 DEF UsualMethods, Building
  <2>3. QED
    BY <1>1, <1>3, <1>4, <2>1, <2>2 DEF SessionInv, SessionAgreed
<1>13. TeardownIsDue'
  <2>1. ASSUME stage = "TEARDOWN", link, speaker'.recording
        PROVE  \/ At(M, "idle") \/ At(M, "wants")
               \/ \E i \in 1 .. Len(toSpeaker') : toSpeaker'[i].method = "TEARDOWN"
    <3>1. speaker.recording /\ r.method # "TEARDOWN"
      BY <1>3, <1>8, <2>1 DEF Established, UsualMethods
    <3>2. CASE \E i \in 1 .. Len(toSpeaker) : toSpeaker[i].method = "TEARDOWN"
      <4>1. PICK i \in 1 .. Len(toSpeaker) : toSpeaker[i].method = "TEARDOWN"
        BY <3>2
      <4>2. i # 1
        BY <3>1, <4>1
      <4>3. i - 1 \in 1 .. Len(toSpeaker') /\ toSpeaker'[i - 1] = toSpeaker[i]
        BY <1>1, <4>1, <4>2
      <4>4. QED
        BY <4>1, <4>3
    <3>3. QED
      BY <2>1, <3>1, <3>2 DEF SessionInv, TeardownIsDue
  <2>2. Len(toSpeaker') + Len(toClient') > 0
    <3> DEFINE m == Len(toSpeaker)
               n == Len(toClient)
    <3>1. m \in Nat /\ n \in Nat /\ m > 0 /\ Len(toSpeaker') = m - 1 /\ Len(toClient') = n + 1
      BY <1>1
    <3> HIDE DEF m, n
    <3>2. QED
      BY <3>1
  <2>3. QED
    BY <1>1, <1>4, <2>1, <2>2 DEF SessionInv, TeardownIsDue
<1>14. RequestsNameTheSession'
  <2>1. SUFFICES ASSUME NEW i \in 1 .. Len(toSpeaker'),
                        toSpeaker'[i].method \in SessionMethods
                 PROVE  /\ toSpeaker'[i].local = speaker'.announced
                        /\ toSpeaker'[i].remote = speaker'.session
    <3>1. DOMAIN toSpeaker' = 1 .. Len(toSpeaker')
      BY StepKeepsTypes DEF Next, TypeOK
    <3>2. QED
      BY <3>1 DEF RequestsNameTheSession
  <2>2. i + 1 \in 1 .. Len(toSpeaker) /\ toSpeaker'[i] = toSpeaker[i + 1]
    BY <1>1
  <2>3. r.method \notin {"ANNOUNCE", "SETUP"}
    BY <1>1, <2>2 DEF SessionInv, LineFitsStage
  <2>4. DOMAIN toSpeaker = 1 .. Len(toSpeaker)
    BY DEF TypeOK
  <2>5. QED
    BY <1>3, <2>1, <2>2, <2>3, <2>4 DEF SessionInv, RequestsNameTheSession
<1>15. QED
  BY <1>5, <1>9, <1>10, <1>11, <1>12, <1>13, <1>14 DEF SessionInv

\* The connection drops, with all that is on it.
LEMMA DropsKeepsSession ==
    ASSUME TypeOK, SessionInv, Drops
    PROVE  SessionInv'
<1>1. /\ ~link' /\ Len(toSpeaker') = 0 /\ Len(toClient') = 0 /\ toSpeaker' = <<>>
      /\ stage' = stage /\ client' = client /\ tried' = tried /\ stored' = stored
      /\ calls' = calls
  BY DEF Drops, sessionVars
<1>2. Established' = Established
  BY <1>1 DEF Established
<1>3. CallsFitStage'
  BY <1>1, <1>2 DEF SessionInv, CallsFitStage, At
<1>4. LineFitsStage'
  BY <1>1 DEF LineFitsStage, OwnLength
<1>5. BuildingIsOwn'
  BY <1>1 DEF SessionInv, BuildingIsOwn, AnswerIsTrue, At, Own
<1>6. PasswordIsSent' /\ SessionAgreed'
  BY <1>1 DEF SessionInv, PasswordIsSent, SessionAgreed, At, Own
<1>7. TeardownIsDue' /\ RequestsNameTheSession'
  BY <1>1, <1>2 DEF SessionInv, TeardownIsDue, RequestsNameTheSession
<1>8. QED
  BY <1>3, <1>4, <1>5, <1>6, <1>7 DEF SessionInv

-----------------------------------------------------------------------------
(***************************************************************************)
(* The theorems.                                                           *)
(***************************************************************************)
\* Both invariants, of the line and of the session, are inductive together.
LEMMA StepKeepsSession ==
    LagInv /\ SessionInv /\ [Next]_vars => LagInv' /\ SessionInv'
<1> SUFFICES ASSUME LagInv, SessionInv, [Next]_vars PROVE SessionInv'
  BY StepKeepsLag
<1>1. TypeOK /\ CallsFollowStage
  BY DEF LagInv
<1>2. CASE UNCHANGED vars
  BY <1>2
  DEF vars, sessionVars, networkVars, SessionInv, CallsFitStage, LineFitsStage, OwnLength,
      BuildingIsOwn, AnswerIsTrue, PasswordIsSent, SessionAgreed, TeardownIsDue,
      RequestsNameTheSession, Established, Own, At
<1>3. ASSUME NEW t \in Threads, CallProceeds(t)
      PROVE  SessionInv'
  <2>1. CASE t = M
    BY <1>1, <1>3, <2>1, ManagerSends, ManagerReceives, ManagerLooksKeepSession DEF CallProceeds
  <2>2. CASE t \in Users
    BY <1>1, <1>3, <2>2, UserSends, UserReceives, UserKeepsSession DEF CallProceeds
  <2>3. QED
    BY <1>3, <2>1, <2>2 DEF Threads, M
<1>4. ASSUME NEW u \in Users, UserBegins(u) \/ UserEnds(u)
      PROVE  SessionInv'
  BY <1>1, <1>4, UserKeepsSession
<1>5. CASE Connects \/ SetsParameter \/ CloseBegins \/ ManagerProceeds
  BY <1>1, <1>5, NewConnection, BuildsKeepsSession, AdvancesKeepsSession, GivesUpKeepsSession,
     IsRefusedKeepsSession, ParametersKeepSession, ClosingKeepsSession, TornDownKeepsSession
  DEF ManagerProceeds
<1>6. CASE Answers \/ Drops
  BY <1>1, <1>6, AnswersKeepsSession, DropsKeepsSession
<1>7. QED
  BY <1>2, <1>3, <1>4, <1>5, <1>6 DEF Next

\* The invariant holds of every behaviour.
LEMMA SessionInvariant == Spec => [](LagInv /\ SessionInv)
  BY InitLag, InitSession, StepKeepsSession, PTL DEF Spec

\* For any number of threads, whatever times out and however often a
\* password is asked for, requests about a session name the one that the
\* speaker announced and set up last.
THEOREM RequestsAgree == Spec => []RequestsNameTheSession
<1>1. SessionInv => RequestsNameTheSession
  BY DEF SessionInv
<1>2. QED
  BY <1>1, SessionInvariant, PTL

\* For any number of threads: when the client is deleted and no answer is
\* overdue, the speaker does not record any more.
THEOREM SpeakersAreReleased == Spec => []SpeakerIsReleased
<1>1. LagInv /\ SessionInv => SpeakerIsReleased
  <2> SUFFICES ASSUME LagInv, SessionInv, stage = "delete", link, Overdue = 0, speaker.recording
               PROVE  FALSE
    BY DEF SpeakerIsReleased
  <2>1. TypeOK /\ UsersAreQuiet /\ At(M, "idle")
    BY DEF LagInv, CallsFollowStage
  <2>2. MutexIsFree
    BY <2>1 DEF MutexIsFree, UsersAreQuiet, Threads, At, M
  <2>3. Len(toSpeaker) + Len(toClient) = 0
    BY <2>1, <2>2, TypeFacts DEF Overdue
  <2>4. Len(toSpeaker) + Len(toClient) > 0
    BY DEF SessionInv, TeardownIsDue
  <2>5. QED
    BY <2>1, <2>3, <2>4, TypeFacts
<1>2. QED
  BY <1>1, SessionInvariant, PTL

\* For any number of threads: a password that the speaker would accept is
\* never cleared, since one that is refused after it was sent is another.
THEOREM RightPasswordsAreKept == Spec => RightPasswordIsKept
<1>1. LagInv /\ SessionInv /\ [Next]_vars => [stored = "right" => stored' = "right"]_vars
  <2> SUFFICES ASSUME LagInv, SessionInv, Next, stored = "right"
               PROVE  stored' = "right"
    OBVIOUS
  <2>1. CASE IsRefused
    <3>1. stage \in Building /\ At(M, "answered") /\ calls[M].answer.status = 401
      BY <2>1 DEF IsRefused
    <3>2. Own.password # "right"
      BY <3>1 DEF SessionInv, BuildingIsOwn, AnswerIsTrue
    <3>3. ~tried
      BY <3>1, <3>2 DEF SessionInv, PasswordIsSent
    <3>4. QED
      BY <2>1, <3>3 DEF IsRefused, LeftAfterRefusal
  <2>2. CASE ~IsRefused
    BY <2>2
    DEF Next, CallProceeds, ManagerProceeds, Sends, Receives, Fails, Looks, Peeks, UserBegins,
        UserEnds, Connects, SetsParameter, CloseBegins, Builds, Advances, GivesUp,
        ParameterIsSet, Closes, TornDown, Deletes, Answers, Drops, sessionVars
  <2>3. QED
    BY <2>1, <2>2
<1>2. QED
  BY <1>1, SessionInvariant, PTL DEF Spec, RightPasswordIsKept

=============================================================================
