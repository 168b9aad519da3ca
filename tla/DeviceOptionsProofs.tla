------------------------ MODULE DeviceOptionsProofs ------------------------
(***************************************************************************)
(* For every set of speakers: when the dialog is applied, a speaker that   *)
(* the options had is left out for a reason only.                          *)
(*                                                                         *)
(* The dialog builds the new options from the rows of its listbox, so what *)
(* is to be shown is that every active speaker has its row all the time,   *)
(* but for those that were dropped, those that the dialog is still to hear *)
(* of from the user's thread, and the one whose row the discovery's thread *)
(* is carrying from the first of its two window messages to the second.    *)
(***************************************************************************)
EXTENDS DeviceOptions, TLAPS

Places == {"idle", "open", "try", "refused", "failed", "deselect",
           "post", "remove", "insert", "copy", "next"}

RowsOfList == [sel : BOOLEAN, stale : BOOLEAN, shown : BOOLEAN]

Jobs == [Threads -> [pc : Places, dev : SUBSET Devices, rest : SUBSET Devices, sel : BOOLEAN]]

USE DEF RowsOfList, Jobs

\* What the threads and the rows look like.
OptionsTyped ==
    /\ devices \subseteq Devices
    /\ found \subseteq Devices
    /\ rows \in [Devices -> RowsOfList]
    /\ job \in Jobs
    /\ posts \in [drop : SUBSET Devices, add : SUBSET Devices]

\* Nobody is to be told of a speaker that is active that it was dropped, and an
\* idle user's thread has told everything.
PostsAreDue ==
    /\ posts.drop \cap devices = {}
    /\ At("user", "idle") => posts.drop = {} /\ posts.add = {}

\* The discovery's thread serves one speaker, none that was entered by hand, and
\* while it carries a row there is none in the listbox.
CarriesOne ==
    ~At("network", "idle") =>
        \E d \in Devices \ Static :
            /\ job["network"].dev = {d}
            /\ At("network", "insert") => ~rows[d].shown

HasRow(d) == rows[d].shown /\ (rows[d].sel \/ d \in Static)

Carried(d) == At("network", "insert") /\ job["network"].sel /\ job["network"].dev = {d}

\* Every active speaker has its row, or there is a reason why not.
RowsAreKept ==
    dialog => \A d \in devices \ (dropped \cup posts.add) : HasRow(d) \/ Carried(d)

OptionsInv == OptionsTyped /\ PostsAreDue /\ CarriesOne /\ RowsAreKept

-----------------------------------------------------------------------------
(* Threads that go on. *)

\* A thread other than the discovery's that goes from one place to another.
LEMMA OthersGo ==
    ASSUME OptionsInv, job' \in Jobs,
           job'["network"] = job["network"],
           At("user", "idle")' => At("user", "idle"),
           UNCHANGED <<devices, rows, dialog, found, posts, dropped>>
    PROVE  OptionsInv'
<1>1. OptionsTyped'
  BY DEF OptionsInv, OptionsTyped
<1>2. PostsAreDue'
  BY DEF OptionsInv, PostsAreDue
<1>3. CarriesOne'
  BY DEF OptionsInv, CarriesOne, At
<1>4. RowsAreKept'
  BY DEF OptionsInv, RowsAreKept, HasRow, Carried, At
<1> QED
  BY <1>1, <1>2, <1>3, <1>4 DEF OptionsInv

\* Opening a device: the thread goes on to another place of openDevice() or
\* to what it does after it.
Opening == {"open", "try", "refused", "failed", "deselect", "post", "remove", "next"}

LEMMA OpeningGoes ==
    ASSUME OptionsInv, NEW t \in Threads, NEW pc \in Opening, Goes(t, pc),
           job[t].pc \in Opening,
           UNCHANGED <<devices, rows, dialog, found, posts, dropped>>
    PROVE  OptionsInv'
<1>1. \A s \in Threads : /\ job'[s].pc = IF s = t THEN pc ELSE job[s].pc
                         /\ job'[s].dev = job[s].dev
                         /\ job'[s].sel = job[s].sel
  BY DEF OptionsInv, OptionsTyped, Goes
<1>2. job' \in Jobs
  BY DEF OptionsInv, OptionsTyped, Goes, Opening, Places
<1>3. OptionsTyped'
  BY <1>2 DEF OptionsInv, OptionsTyped
<1>4. PostsAreDue'
  BY <1>1 DEF OptionsInv, PostsAreDue, At, Opening, Threads
<1>5. CarriesOne'
  BY <1>1 DEF OptionsInv, CarriesOne, At, Opening, Threads
<1>6. RowsAreKept'
  BY <1>1 DEF OptionsInv, RowsAreKept, HasRow, Carried, At, Opening, Threads
<1> QED
  BY <1>3, <1>4, <1>5, <1>6 DEF OptionsInv

LEMMA OpeningKeeps ==
    ASSUME OptionsInv, NEW t \in Threads,
           OpenLocks(t) \/ Opens(t) \/ ClearsPassword(t) \/ FailedIsDestroyed(t)
    PROVE  OptionsInv'
<1>1. UNCHANGED <<devices, rows, dialog, found, posts, dropped>>
  BY DEF OpenLocks, Opens, ClearsPassword, FailedIsDestroyed, optionVars, managerVars
<1>2. job[t].pc \in Opening
  BY DEF OpenLocks, Opens, ClearsPassword, FailedIsDestroyed, At, Opening
<1>3. After(t) \in Opening
  BY DEF After, Threads, Opening
<1>4. \E pc \in Opening : Goes(t, pc)
  BY <1>3 DEF OpenLocks, Opens, ClearsPassword, FailedIsDestroyed, Opening
<1> QED
  BY <1>1, <1>2, <1>4, OpeningGoes

\* A row that is selected or not is a row still, and no other changes.
LEMMA SelectedRows ==
    ASSUME OptionsTyped, NEW d \in Devices, NEW sel \in BOOLEAN, rows' = Selected(d, sel)
    PROVE  /\ rows' \in [Devices -> RowsOfList]
           /\ \A e \in Devices : rows'[e].shown = rows[e].shown
           /\ \A e \in Devices \ {d} : rows'[e].sel = rows[e].sel
           /\ rows[d].shown => rows'[d].sel = sel
  BY DEF OptionsTyped, Selected

\* A speaker that failed is dropped, so its row need not be selected.
LEMMA DeselectingKeeps ==
    ASSUME OptionsInv, NEW t \in Threads, FailedIsDeselected(t)
    PROVE  OptionsInv'
<1>1. PICK d \in job[t].dev : rows' = Selected(d, FALSE) /\ dropped' = dropped \cup {d}
  BY DEF FailedIsDeselected
<1>2. UNCHANGED <<devices, dialog, found, posts>> /\ job[t].pc = "deselect" /\ Goes(t, After(t))
  BY DEF FailedIsDeselected, optionVars, managerVars, At
<1>3. d \in Devices /\ After(t) \in Opening
  BY DEF OptionsInv, OptionsTyped, After, Threads, Opening
<1>4. /\ rows' \in [Devices -> RowsOfList]
      /\ \A e \in Devices : rows'[e].shown = rows[e].shown
      /\ \A e \in Devices \ {d} : rows'[e].sel = rows[e].sel
  BY <1>1, <1>3, SelectedRows DEF OptionsInv
<1>5. \A s \in Threads : /\ job'[s].pc = IF s = t THEN After(t) ELSE job[s].pc
                         /\ job'[s].dev = job[s].dev
                         /\ job'[s].sel = job[s].sel
  BY <1>2 DEF OptionsInv, OptionsTyped, Goes
<1>6. job' \in Jobs
  BY <1>2, <1>3 DEF OptionsInv, OptionsTyped, Goes, Opening, Places
<1>7. OptionsTyped'
  BY <1>2, <1>4, <1>6 DEF OptionsInv, OptionsTyped
<1>8. PostsAreDue'
  BY <1>2, <1>3, <1>5 DEF OptionsInv, PostsAreDue, At, Opening, Threads
<1>9. CarriesOne'
  BY <1>2, <1>3, <1>4, <1>5 DEF OptionsInv, CarriesOne, At, Opening, Threads
<1>10. RowsAreKept'
  <2> SUFFICES ASSUME dialog, NEW e \in devices, e \notin dropped, e # d, e \notin posts.add
               PROVE  HasRow(e)' \/ Carried(e)'
    BY <1>1, <1>2 DEF RowsAreKept
  <2>1. e \in Devices /\ (HasRow(e) \/ Carried(e))
    BY DEF OptionsInv, OptionsTyped, RowsAreKept
  <2>2. Carried(e) => Carried(e)'
    BY <1>2, <1>5 DEF Carried, At, Threads
  <2>3. HasRow(e) => HasRow(e)'
    BY <1>4, <2>1 DEF HasRow
  <2> QED
    BY <2>1, <2>2, <2>3
<1> QED
  BY <1>7, <1>8, <1>9, <1>10 DEF OptionsInv

-----------------------------------------------------------------------------
(* The player's thread and the monitor's, which no row depends on. *)

LEMMA PlayerKeeps ==
    ASSUME OptionsInv,
           PlayerOpens \/ PlayerCopies \/ PlayerOpensNext \/ PlayerCloses \/ MonitorCloses
    PROVE  OptionsInv'
<1>1. UNCHANGED <<devices, rows, dialog, found, posts, dropped>>
  BY DEF PlayerOpens, PlayerCopies, PlayerOpensNext, PlayerCloses, MonitorCloses,
         optionVars, managerVars
<1>2. job' \in Jobs
  <2>1. CASE PlayerOpens
    BY <2>1 DEF PlayerOpens, OptionsInv, OptionsTyped, Idle, Places, Threads
  <2>2. CASE PlayerCopies
    BY <2>2 DEF PlayerCopies, OptionsInv, OptionsTyped, Places, Threads
  <2>3. CASE PlayerOpensNext
    <3>1. CASE job["player"].rest = {}
      <4>1. job' = [job EXCEPT !["player"] = Idle]
        BY <2>3, <3>1, Zenon DEF PlayerOpensNext
      <4> QED
        BY <4>1 DEF OptionsInv, OptionsTyped, Idle, Places, Threads
    <3>2. CASE job["player"].rest # {}
      <4>1. PICK d \in job["player"].rest :
              job' = [job EXCEPT !["player"].pc = "open", !["player"].dev = {d},
                                 !["player"].rest = @ \ {d}]
        BY <2>3, <3>2, Zenon DEF PlayerOpensNext
      <4>2. PICK one, others \in SUBSET Devices :
              one = {d} /\ others = job["player"].rest \ {d}
        BY DEF OptionsInv, OptionsTyped, Threads
      <4>3. job' = [job EXCEPT !["player"].pc = "open", !["player"].dev = one,
                               !["player"].rest = others]
        BY <4>1, <4>2
      <4>4. PICK j1 \in Jobs : j1 = [job EXCEPT !["player"].pc = "open"]
        BY DEF OptionsInv, OptionsTyped, Places, Threads
      <4>5. PICK j2 \in Jobs : j2 = [j1 EXCEPT !["player"].dev = one]
        BY DEF Threads
      <4>6. [j2 EXCEPT !["player"].rest = others] \in Jobs
        BY DEF Threads
      <4> QED
        BY <4>3, <4>4, <4>5, <4>6, Zenon
    <3> QED
      BY <3>1, <3>2
  <2>4. CASE PlayerCloses \/ MonitorCloses
    BY <2>4 DEF PlayerCloses, MonitorCloses, OptionsInv, OptionsTyped
  <2> QED
    BY <2>1, <2>2, <2>3, <2>4
<1>3. job'["network"] = job["network"] /\ job'["user"] = job["user"]
  BY DEF PlayerOpens, PlayerCopies, PlayerOpensNext, PlayerCloses, MonitorCloses,
         OptionsInv, OptionsTyped, Threads
<1> QED
  BY <1>1, <1>2, <1>3, OthersGo DEF At

-----------------------------------------------------------------------------
(* The discovery's thread. *)

\* The discovery's thread, idle until now, begins with one speaker.
LEMMA NewsKeeps ==
    ASSUME OptionsInv, NEW d \in Devices \ Static, DeviceFound(d) \/ DeviceLost(d)
    PROVE  OptionsInv'
<1>1. UNCHANGED <<devices, rows, dialog, posts, dropped>> /\ At("network", "idle")
  BY DEF DeviceFound, DeviceLost, optionVars
<1>2. found' \subseteq Devices
  BY DEF DeviceFound, DeviceLost, OptionsInv, OptionsTyped
<1>3. PICK pc \in {"open", "remove"} :
        job' = [job EXCEPT !["network"] = [pc |-> pc, dev |-> {d}, rest |-> {}, sel |-> FALSE]]
  BY DEF DeviceFound, DeviceLost, Idle
<1>4. /\ job' \in Jobs
      /\ job'["user"] = job["user"]
      /\ job'["network"].pc = pc /\ job'["network"].dev = {d}
  BY <1>3 DEF OptionsInv, OptionsTyped, Places, Threads
<1>5. OptionsTyped'
  BY <1>1, <1>2, <1>4 DEF OptionsInv, OptionsTyped
<1>6. PostsAreDue'
  BY <1>1, <1>4 DEF OptionsInv, PostsAreDue, At
<1>7. CarriesOne'
  BY <1>4 DEF CarriesOne, At
<1>8. RowsAreKept'
  BY <1>1 DEF OptionsInv, RowsAreKept, HasRow, Carried, At
<1> QED
  BY <1>5, <1>6, <1>7, <1>8 DEF OptionsInv

\* The row that the first message removes is carried from then on.
LEMMA RemovingKeeps ==
    ASSUME OptionsInv, RemovesRow
    PROVE  OptionsInv'
<1>1. UNCHANGED <<devices, dialog, found, posts, dropped>> /\ job["network"].pc = "remove"
  BY DEF RemovesRow, optionVars, managerVars, At
<1>2. PICK d \in Devices \ Static : job["network"].dev = {d}
  BY <1>1 DEF OptionsInv, CarriesOne, At
<1>3. CASE ~dialog
  <2>1. job' = [job EXCEPT !["network"] = Idle] /\ rows' = rows
    BY <1>3 DEF RemovesRow
  <2>2. /\ job' \in Jobs
        /\ job'["user"] = job["user"] /\ job'["network"].pc = "idle"
    BY <2>1 DEF OptionsInv, OptionsTyped, Idle, Places, Threads
  <2> QED
    BY <1>1, <1>3, <2>1, <2>2
       DEF OptionsInv, OptionsTyped, PostsAreDue, CarriesOne, RowsAreKept, At
<1>4. CASE dialog
  <2>1. /\ rows' = [rows EXCEPT ![d] = NoRow]
        /\ job' = [job EXCEPT !["network"].pc = "insert", !["network"].sel = rows[d].sel]
    BY <1>2, <1>4 DEF RemovesRow
  <2>2. /\ rows' \in [Devices -> RowsOfList]
        /\ ~rows'[d].shown
        /\ \A e \in Devices \ {d} : rows'[e] = rows[e]
    BY <2>1 DEF OptionsInv, OptionsTyped, NoRow
  <2>3. rows[d].sel \in BOOLEAN
    BY DEF OptionsInv, OptionsTyped
  <2>4. /\ job' \in Jobs
        /\ job'["user"] = job["user"]
        /\ job'["network"].pc = "insert"
        /\ job'["network"].dev = {d}
        /\ job'["network"].sel = rows[d].sel
    BY <1>2, <2>1, <2>3 DEF OptionsInv, OptionsTyped, Places, Threads
  <2>5. OptionsTyped' /\ PostsAreDue'
    BY <1>1, <2>2, <2>4 DEF OptionsInv, OptionsTyped, PostsAreDue, At
  <2>6. CarriesOne'
    BY <2>2, <2>4 DEF CarriesOne, At
  <2>7. RowsAreKept'
    <3> SUFFICES ASSUME NEW e \in devices, e \notin dropped, e \notin posts.add
                 PROVE  HasRow(e)' \/ Carried(e)'
      BY <1>1 DEF RowsAreKept
    <3>1. e \in Devices /\ HasRow(e)
      BY <1>1, <1>4 DEF OptionsInv, OptionsTyped, RowsAreKept, Carried, At
    <3>2. CASE e = d
      BY <2>4, <3>1, <3>2 DEF HasRow, Carried, At
    <3>3. CASE e # d
      BY <2>2, <3>1, <3>3 DEF HasRow
    <3> QED
      BY <3>2, <3>3
  <2> QED
    BY <2>5, <2>6, <2>7 DEF OptionsInv
<1> QED
  BY <1>3, <1>4

\* The second message inserts the row that was carried, selected if it was.
LEMMA InsertingKeeps ==
    ASSUME OptionsInv, InsertsRow
    PROVE  OptionsInv'
<1>1. UNCHANGED <<devices, dialog, found, posts, dropped>> /\ job["network"].pc = "insert"
  BY DEF InsertsRow, optionVars, managerVars, At
<1>2. PICK d \in Devices \ Static : job["network"].dev = {d} /\ ~rows[d].shown
  BY <1>1 DEF OptionsInv, CarriesOne, At
<1>3. rows' = IF dialog THEN [rows EXCEPT ![d] = NewRow(d, job["network"].sel)] ELSE rows
  BY <1>2 DEF InsertsRow
<1>4. job["network"].sel \in BOOLEAN
  BY DEF OptionsInv, OptionsTyped, Threads
<1>5. /\ NewRow(d, job["network"].sel) \in RowsOfList
      /\ job["network"].sel => NewRow(d, job["network"].sel).sel /\ NewRow(d, job["network"].sel).shown
  BY <1>4 DEF NewRow, Row, NoRow
<1>6. /\ rows' \in [Devices -> RowsOfList]
      /\ dialog => rows'[d] = NewRow(d, job["network"].sel)
      /\ \A e \in Devices \ {d} : rows'[e] = rows[e]
  BY <1>3, <1>5 DEF OptionsInv, OptionsTyped
<1>7. job' = [job EXCEPT !["network"] = Idle]
  BY DEF InsertsRow
<1>8. /\ job' \in Jobs
      /\ job'["user"] = job["user"] /\ job'["network"].pc = "idle"
  BY <1>7 DEF OptionsInv, OptionsTyped, Idle, Places, Threads
<1>9. OptionsTyped' /\ PostsAreDue' /\ CarriesOne'
  BY <1>1, <1>6, <1>8 DEF OptionsInv, OptionsTyped, PostsAreDue, CarriesOne, At
<1>10. RowsAreKept'
  <2> SUFFICES ASSUME dialog, NEW e \in devices, e \notin dropped, e \notin posts.add
               PROVE  HasRow(e)'
    BY <1>1 DEF RowsAreKept
  <2>1. e \in Devices /\ (HasRow(e) \/ Carried(e))
    BY DEF OptionsInv, OptionsTyped, RowsAreKept
  <2>2. CASE e = d
    <3>1. Carried(d)
      BY <1>2, <2>1, <2>2 DEF HasRow
    <3> QED
      BY <1>5, <1>6, <2>2, <3>1 DEF HasRow, Carried
  <2>3. CASE e # d
    BY <1>2, <1>6, <2>1, <2>3 DEF HasRow, Carried
  <2> QED
    BY <2>2, <2>3
<1> QED
  BY <1>9, <1>10 DEF OptionsInv

-----------------------------------------------------------------------------
(* The user's thread. *)

\* A dialog that opens has a row for every active speaker.
LEMMA DialogOpensKeeps ==
    ASSUME OptionsInv, DialogOpens
    PROVE  OptionsInv'
<1>1. UNCHANGED <<devices, found, job, posts, dropped>> /\ job["network"].pc = "idle"
  BY DEF DialogOpens, optionVars, managerVars, At
<1>2. \A d \in Devices :
        rows'[d] = IF d \in found \ Static THEN Row(d \in devices, FALSE)
                   ELSE IF d \in devices THEN Row(TRUE, d \notin Static) ELSE NoRow
  BY DEF DialogOpens
<1>3. rows' \in [Devices -> RowsOfList]
  <2>1. \A s, t \in BOOLEAN : Row(s, t) \in RowsOfList
    BY DEF Row
  <2>2. NoRow \in RowsOfList
    BY DEF NoRow
  <2>3. \A d \in Devices : rows'[d] \in RowsOfList
    <3> TAKE d \in Devices
    <3>1. PICK s, t \in BOOLEAN : rows'[d] = Row(s, t) \/ rows'[d] = NoRow
      <4>1. CASE d \in found \ Static
        <5>1. rows'[d] = Row(d \in devices, FALSE)
          BY <1>2, <4>1, Zenon
        <5> DEFINE chosen == d \in devices
        <5>2. chosen \in BOOLEAN
          OBVIOUS
        <5> HIDE DEF chosen
        <5>3. rows'[d] = Row(chosen, FALSE)
          BY <5>1 DEF chosen
        <5> QED
          BY <5>2, <5>3, Zenon
      <4>2. CASE d \notin found \ Static
        <5>1. rows'[d] = Row(TRUE, d \notin Static) \/ rows'[d] = NoRow
          BY <1>2, <4>2, Zenon
        <5> QED
          BY <5>1, Zenon
      <4> QED
        BY <4>1, <4>2
    <3> QED
      BY <2>1, <2>2, <3>1, Zenon
  <2>4. rows' = [d \in Devices |-> rows'[d]]
    BY DEF DialogOpens
  <2> QED
    BY <2>3, <2>4
<1>4. ASSUME NEW d \in devices
      PROVE  HasRow(d)'
  <2>1. d \in Devices
    BY DEF OptionsInv, OptionsTyped
  <2>2. PICK t \in BOOLEAN : rows'[d] = Row(TRUE, t)
    <3>1. rows'[d] = Row(d \in devices, FALSE) \/ rows'[d] = Row(TRUE, d \notin Static)
      BY <1>2, <1>4, <2>1, Zenon
    <3> QED
      BY <1>4, <3>1 DEF Row
  <2> QED
    BY <2>2 DEF HasRow, Row
<1> QED
  BY <1>1, <1>3, <1>4 DEF OptionsInv, OptionsTyped, PostsAreDue, CarriesOne, RowsAreKept, At

LEMMA DialogClosesKeeps ==
    ASSUME OptionsInv, DialogCloses
    PROVE  OptionsInv'
<1>1. UNCHANGED <<devices, found, job, posts, dropped>> /\ job["network"].pc = "idle" /\ ~dialog'
  BY DEF DialogCloses, optionVars, managerVars, At
<1>2. rows' \in [Devices -> RowsOfList]
  BY DEF DialogCloses, NoRow
<1> QED
  BY <1>1, <1>2 DEF OptionsInv, OptionsTyped, PostsAreDue, CarriesOne, RowsAreKept, At

\* What the user does to one row: it stays or it comes, unless the speaker is
\* dropped, and it is none that is carried.
LEMMA RowChanges ==
    ASSUME OptionsInv, NEW d \in Devices, d \in Static \/ rows[d].shown,
           UNCHANGED <<devices, found, dialog, job, posts>>,
           rows' \in [Devices -> RowsOfList],
           \A e \in Devices \ {d} : rows'[e] = rows[e] /\ (e \in dropped => e \in dropped'),
           HasRow(d)' \/ d \in dropped'
    PROVE  OptionsInv'
<1>1. OptionsTyped' /\ PostsAreDue'
  BY DEF OptionsInv, OptionsTyped, PostsAreDue, At
<1>2. CarriesOne'
  BY DEF OptionsInv, CarriesOne, At
<1>3. RowsAreKept'
  <2> SUFFICES ASSUME dialog, NEW e \in devices, e \notin dropped', e \notin posts.add
               PROVE  HasRow(e)' \/ Carried(e)'
    BY DEF RowsAreKept
  <2>1. CASE e = d
    BY <2>1
  <2>2. CASE e # d
    <3>1. e \in Devices /\ (HasRow(e) \/ Carried(e))
      BY <2>2 DEF OptionsInv, OptionsTyped, RowsAreKept
    <3> QED
      BY <2>2, <3>1 DEF HasRow, Carried, At
  <2> QED
    BY <2>1, <2>2
<1> QED
  BY <1>1, <1>2, <1>3 DEF OptionsInv

LEMMA UserKeeps ==
    ASSUME OptionsInv, NEW d \in Devices,
           UserSelects(d) \/ (d \in Static /\ (UserAdds(d) \/ UserRemoves(d)))
    PROVE  OptionsInv'
<1>1. UNCHANGED <<devices, found, dialog, job, posts>>
  BY DEF UserSelects, UserAdds, UserRemoves, optionVars, managerVars
<1>2. d \in Static \/ rows[d].shown
  BY DEF UserSelects
<1>3. rows \in [Devices -> RowsOfList]
  BY DEF OptionsInv, OptionsTyped
<1>4. CASE UserSelects(d)
  <2>1. /\ rows' = [rows EXCEPT ![d].sel = ~rows[d].sel] /\ rows[d].shown
        /\ dropped' = IF rows[d].sel THEN dropped \cup {d} ELSE dropped \ {d}
    BY <1>4 DEF UserSelects
  <2>2. /\ rows' \in [Devices -> RowsOfList]
        /\ \A e \in Devices \ {d} : rows'[e] = rows[e] /\ (e \in dropped => e \in dropped')
        /\ rows'[d].shown
        /\ rows'[d].sel <=> ~rows[d].sel
    BY <1>3, <2>1
  <2> QED
    BY <1>1, <1>2, <2>1, <2>2, RowChanges DEF HasRow
<1>5. CASE d \in Static /\ UserAdds(d)
  <2>1. /\ rows' \in [Devices -> RowsOfList]
        /\ \A e \in Devices \ {d} : rows'[e] = rows[e] /\ (e \in dropped => e \in dropped')
        /\ rows'[d].shown
    BY <1>3, <1>5 DEF UserAdds, Row
  <2> QED
    BY <1>1, <1>5, <2>1, RowChanges DEF HasRow
<1>6. CASE d \in Static /\ UserRemoves(d)
  <2>1. /\ rows' \in [Devices -> RowsOfList]
        /\ \A e \in Devices \ {d} : rows'[e] = rows[e] /\ (e \in dropped => e \in dropped')
        /\ rows[d].shown /\ d \in dropped'
    BY <1>3, <1>6 DEF UserRemoves, NoRow
  <2> QED
    BY <1>1, <2>1, RowChanges
<1> QED
  BY <1>4, <1>5, <1>6

-----------------------------------------------------------------------------
(* Options that are replaced, and what is posted of it. *)

\* While theOptions is replaced the speakers that are new are still to be told,
\* and those that are left out are active no more.
LEMMA SetOptionsKeeps ==
    ASSUME OptionsInv, At("user", "idle"), NEW new \in SUBSET Devices, SetOptions(new),
           UNCHANGED <<rows, dialog, found, dropped>>,
           dialog => \A d \in new \ (dropped \cup (new \ devices)) : HasRow(d) \/ Carried(d)
    PROVE  OptionsInv'
<1>1. devices' = new /\ posts' = [drop |-> devices \ new, add |-> new \ devices]
  BY DEF SetOptions
<1>2. /\ job' \in Jobs
      /\ job'["network"] = job["network"]
      /\ job'["user"].pc = "post"
  BY DEF SetOptions, Goes, OptionsInv, OptionsTyped, Places, Threads
<1>3. OptionsTyped'
  BY <1>1, <1>2 DEF OptionsInv, OptionsTyped
<1>4. PostsAreDue'
  BY <1>1, <1>2 DEF PostsAreDue, At
<1>5. CarriesOne'
  BY <1>2 DEF OptionsInv, CarriesOne, At
<1>6. RowsAreKept'
  BY <1>1, <1>2 DEF RowsAreKept, HasRow, Carried, At
<1> QED
  BY <1>3, <1>4, <1>5, <1>6 DEF OptionsInv

\* The options that the dialog builds are those of its rows.
LEMMA ApplyKeeps ==
    ASSUME OptionsInv, DoApply
    PROVE  OptionsInv'
<1>1. Built \in SUBSET Devices /\ \A d \in Built : HasRow(d)
  BY DEF Built, HasRow
<1> QED
  BY <1>1, SetOptionsKeeps DEF DoApply, managerVars

\* The menu only adds speakers that the dialog is told of.
LEMMA ToggleKeeps ==
    ASSUME OptionsInv, NEW d \in Devices, Toggle(d)
    PROVE  OptionsInv'
<1> DEFINE new == {e \in DefinedOrDiscovered : e # d \/ e \in Static}
<1>1. new \in SUBSET Devices
  BY DEF DefinedOrDiscovered, OptionsInv, OptionsTyped
<1>2. posts.add = {} /\ At("user", "idle")
  BY DEF Toggle, OptionsInv, PostsAreDue
<1>3. dialog => \A e \in new \ (dropped \cup (new \ devices)) : HasRow(e) \/ Carried(e)
  BY <1>2 DEF OptionsInv, RowsAreKept
<1>4. SetOptions(new) /\ UNCHANGED <<rows, dialog, found, dropped>>
  BY DEF Toggle, managerVars
<1> QED
  BY <1>1, <1>2, <1>3, <1>4, SetOptionsKeeps

\* A notification of a speaker that is active no more.
LEMMA DeactivateKeeps ==
    ASSUME OptionsInv, PostsDeactivate
    PROVE  OptionsInv'
<1>1. PICK d \in posts.drop : posts' = [posts EXCEPT !.drop = @ \ {d}] /\ rows' = Selected(d, FALSE)
  BY DEF PostsDeactivate
<1>2. UNCHANGED <<devices, dialog, found, job, dropped>> /\ ~At("user", "idle")
  BY DEF PostsDeactivate, optionVars, At
<1>3. d \in Devices /\ d \notin devices
  BY DEF OptionsInv, OptionsTyped, PostsAreDue
<1>4. /\ rows' \in [Devices -> RowsOfList]
      /\ \A e \in Devices : rows'[e].shown = rows[e].shown
      /\ \A e \in Devices \ {d} : rows'[e].sel = rows[e].sel
  BY <1>1, <1>3, SelectedRows DEF OptionsInv
<1>5. /\ posts' \in [drop : SUBSET Devices, add : SUBSET Devices]
      /\ posts'.add = posts.add /\ posts'.drop \subseteq posts.drop
  BY <1>1 DEF OptionsInv, OptionsTyped
<1>6. OptionsTyped' /\ PostsAreDue'
  BY <1>2, <1>4, <1>5 DEF OptionsInv, OptionsTyped, PostsAreDue, At
<1>7. CarriesOne'
  BY <1>2, <1>4 DEF OptionsInv, CarriesOne, At
<1>8. RowsAreKept'
  <2> SUFFICES ASSUME dialog, NEW e \in devices, e \notin dropped, e \notin posts.add
               PROVE  HasRow(e)' \/ Carried(e)'
    BY <1>2, <1>5 DEF RowsAreKept
  <2>1. e \in Devices /\ e # d /\ (HasRow(e) \/ Carried(e))
    BY <1>3 DEF OptionsInv, OptionsTyped, RowsAreKept
  <2> QED
    BY <1>2, <1>4, <2>1 DEF HasRow, Carried, At
<1> QED
  BY <1>6, <1>7, <1>8 DEF OptionsInv

\* A notification of a speaker that is active from now on: its row is selected,
\* if there is one.
LEMMA ActivateKeeps ==
    ASSUME OptionsInv, PostsActivate
    PROVE  OptionsInv'
<1>1. PICK d \in posts.add :
        /\ posts' = [posts EXCEPT !.add = @ \ {d}]
        /\ IF inUse
           THEN job' = [job EXCEPT !["user"].pc = "open", !["user"].dev = {d}]
           ELSE UNCHANGED job
        /\ rows' = Selected(d, TRUE)
        /\ dropped' = IF dialog /\ ~rows[d].shown THEN dropped \cup {d} ELSE dropped \ {d}
  BY DEF PostsActivate
<1>2. UNCHANGED <<devices, dialog, found>> /\ job["user"].pc = "post"
  BY DEF PostsActivate, optionVars, managerVars, At
<1>3. d \in Devices
  BY DEF OptionsInv, OptionsTyped
<1>4. /\ rows' \in [Devices -> RowsOfList]
      /\ \A e \in Devices : rows'[e].shown = rows[e].shown
      /\ \A e \in Devices \ {d} : rows'[e].sel = rows[e].sel
      /\ rows[d].shown => rows'[d].sel
  <2>1. rows' = Selected(d, TRUE)
    BY <1>1, Zenon
  <2> QED
    BY <1>3, <2>1, SelectedRows DEF OptionsInv
<1>5. /\ posts' \in [drop : SUBSET Devices, add : SUBSET Devices]
      /\ posts'.add = posts.add \ {d} /\ posts'.drop = posts.drop
  <2>1. posts' = [posts EXCEPT !.add = posts.add \ {d}]
    BY <1>1, Zenon
  <2> QED
    BY <2>1 DEF OptionsInv, OptionsTyped
<1>6. /\ job' \in Jobs
      /\ job'["network"] = job["network"]
      /\ job'["user"].pc # "idle"
  <2>1. CASE inUse
    <3>1. PICK one \in SUBSET Devices : one = {d}
      BY <1>3
    <3>2. job' = [job EXCEPT !["user"].pc = "open", !["user"].dev = one]
      BY <1>1, <2>1, <3>1, Zenon
    <3>3. PICK j1 \in Jobs : j1 = [job EXCEPT !["user"].pc = "open"]
      BY DEF OptionsInv, OptionsTyped, Places, Threads
    <3>4. j1["network"] = job["network"] /\ j1["user"].pc = "open"
      BY <3>3 DEF OptionsInv, OptionsTyped, Threads
    <3>5. PICK j2 \in Jobs : j2 = [j1 EXCEPT !["user"].dev = one]
      BY DEF Threads
    <3>6. j2["network"] = j1["network"] /\ j2["user"].pc = j1["user"].pc
      BY <3>5 DEF Threads
    <3>7. job' = j2
      BY <3>2, <3>3, <3>5, Zenon
    <3> QED
      BY <3>4, <3>6, <3>7
  <2>2. CASE ~inUse
    BY <1>1, <1>2, <2>2 DEF OptionsInv, OptionsTyped
  <2> QED
    BY <2>1, <2>2
<1>7. OptionsTyped'
  BY <1>2, <1>4, <1>5, <1>6 DEF OptionsInv, OptionsTyped
<1>8. PostsAreDue'
  BY <1>2, <1>5, <1>6 DEF OptionsInv, PostsAreDue, At
<1>9. CarriesOne'
  BY <1>2, <1>4, <1>6 DEF OptionsInv, CarriesOne, At
<1>10. RowsAreKept'
  <2> SUFFICES ASSUME dialog, NEW e \in devices, e \notin dropped', e \notin posts'.add
               PROVE  HasRow(e)' \/ Carried(e)'
    BY <1>2 DEF RowsAreKept
  <2>1. e \in Devices
    BY DEF OptionsInv, OptionsTyped
  <2>2. CASE e = d
    <3>1. rows[d].shown
      BY <1>1, <2>2, Zenon
    <3> QED
      BY <1>3, <1>4, <2>2, <3>1 DEF HasRow
  <2>3. CASE e # d
    <3>1. e \notin dropped
      BY <1>1, <2>3
    <3>2. HasRow(e) \/ Carried(e)
      BY <1>5, <2>3, <3>1 DEF OptionsInv, RowsAreKept
    <3> QED
      BY <1>2, <1>4, <1>6, <2>1, <2>3, <3>2 DEF HasRow, Carried, At
  <2> QED
    BY <2>2, <2>3
<1> QED
  BY <1>7, <1>8, <1>9, <1>10 DEF OptionsInv

LEMMA PostsEndKeeps ==
    ASSUME OptionsInv, PostsEnd
    PROVE  OptionsInv'
<1>1. UNCHANGED <<devices, rows, dialog, found, posts, dropped>> /\ posts.drop = {} /\ posts.add = {}
  BY DEF PostsEnd, optionVars, managerVars
<1>2. job' = [job EXCEPT !["user"] = Idle]
  BY DEF PostsEnd
<1>3. /\ job' \in Jobs
      /\ job'["network"] = job["network"]
  BY <1>2 DEF OptionsInv, OptionsTyped, Idle, Places, Threads
<1>4. OptionsTyped' /\ PostsAreDue' /\ CarriesOne'
  BY <1>1, <1>3 DEF OptionsInv, OptionsTyped, PostsAreDue, CarriesOne, At
<1>5. RowsAreKept'
  BY <1>1, <1>3 DEF OptionsInv, RowsAreKept, HasRow, Carried, At
<1> QED
  BY <1>4, <1>5 DEF OptionsInv

-----------------------------------------------------------------------------
(* The theorem. *)

LEMMA OptionsInit == Init => OptionsInv
<1> SUFFICES ASSUME Init
             PROVE  OptionsInv
  OBVIOUS
<1>1. OptionsTyped
  BY DEF Init, OptionsTyped, NoRow, Idle, Places
<1>2. PostsAreDue /\ CarriesOne /\ RowsAreKept
  BY DEF Init, PostsAreDue, CarriesOne, RowsAreKept, At, Idle, Threads
<1> QED
  BY <1>1, <1>2 DEF OptionsInv

LEMMA OptionsNext == OptionsInv /\ [Next]_vars => OptionsInv'
<1> SUFFICES ASSUME OptionsInv, [Next]_vars
             PROVE  OptionsInv'
  OBVIOUS
<1>1. CASE \E t \in Threads : OpeningGoesOn(t)
  BY <1>1, OpeningKeeps, DeselectingKeeps DEF OpeningGoesOn
<1>2. CASE PlayerOpens \/ PlayerGoesOn \/ PlayerCloses \/ MonitorCloses
  BY <1>2, PlayerKeeps DEF PlayerGoesOn
<1>3. CASE NetworkGoesOn
  BY <1>3, RemovingKeeps, InsertingKeeps DEF NetworkGoesOn
<1>4. CASE PostingGoesOn
  BY <1>4, DeactivateKeeps, ActivateKeeps, PostsEndKeeps DEF PostingGoesOn
<1>5. CASE DialogOpens \/ DialogCloses \/ DoApply
  BY <1>5, DialogOpensKeeps, DialogClosesKeeps, ApplyKeeps
<1>6. CASE \E d \in Devices : UserSelects(d) \/ Toggle(d)
  BY <1>6, UserKeeps, ToggleKeeps
<1>7. CASE \E d \in Static : UserAdds(d) \/ UserRemoves(d)
  BY <1>7, UserKeeps, DevicesAssumption
<1>8. CASE \E d \in Devices \ Static : DeviceFound(d) \/ DeviceLost(d)
  BY <1>8, NewsKeeps
<1>9. CASE UNCHANGED vars
  BY <1>9 DEF vars, optionVars, managerVars, OptionsInv, OptionsTyped, PostsAreDue, CarriesOne,
             RowsAreKept, HasRow, Carried, At
<1> QED
  BY <1>1, <1>2, <1>3, <1>4, <1>5, <1>6, <1>7, <1>8, <1>9 DEF Next

\* A speaker that is not in the options that the dialog builds has no row that
\* is selected, though the user's thread has nothing to tell any more.
LEMMA ApplyHasAReason ==
    ASSUME OptionsInv, DoApply
    PROVE  \A d \in devices \ devices' :
             d \in dropped \/ (~At("network", "idle") /\ job["network"].dev = {d})
<1>1. devices' = Built /\ dialog /\ posts.add = {}
  BY DEF DoApply, SetOptions, OptionsInv, PostsAreDue
<1> TAKE d \in devices \ devices'
<1>2. ~HasRow(d)
  BY <1>1 DEF Built, HasRow, OptionsInv, OptionsTyped
<1> QED
  BY <1>1, <1>2 DEF OptionsInv, RowsAreKept, Carried, At

(***************************************************************************)
(* A speaker that was chosen is not forgotten when the dialog is applied   *)
(* (OptionsDialog.cpp:565-581, 677-702): the user dropped it, or it failed *)
(* when it was opened, or the discovery's thread is busy with it, however  *)
(* many speakers there are, and whatever vanishes and comes back.          *)
(***************************************************************************)
THEOREM ChosenStayChosen == Spec => ChosenForAReason
<1>1. OptionsInv /\ [Next]_vars =>
        [DoApply => \A d \in devices \ devices' :
           d \in dropped \/ (~At("network", "idle") /\ job["network"].dev = {d})]_vars
  BY ApplyHasAReason
<1> QED
  BY OptionsInit, OptionsNext, <1>1, PTL DEF Spec, ChosenForAReason

=============================================================================
