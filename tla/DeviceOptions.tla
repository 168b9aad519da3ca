--------------------------- MODULE DeviceOptions ---------------------------
(***************************************************************************)
(* Which speakers are chosen: the active options (Options.cpp), the rows   *)
(* of the options dialog (OptionsDialog.cpp), the menu that toggles one    *)
(* speaker (DeviceUtils.cpp), and the devices that the manager knows and   *)
(* opens because of them (DeviceManager.cpp).  Three threads change them:  *)
(* the user's, which posts what changed to the manager and the dialog; the *)
(* discovery's, whose news reach the manager, then the dialog in two       *)
(* window messages; and the player's, which opens all devices there are.   *)
(*                                                                         *)
(* The two switches of the options are in DeviceVolume and RemoteControl,  *)
(* sessions in RTSPClient.  Passwords are never entered, only forgotten.   *)
(***************************************************************************)
EXTENDS FiniteSets

CONSTANTS
    Devices,   \* the speakers, by name
    Static,    \* those entered by hand (not zeroConf)
    Secured    \* those that refuse the password in the options

ASSUME DevicesAssumption == Static \subseteq Devices /\ Secured \subseteq Devices

VARIABLES
    devices,    \* theOptions: its devices
    passwords,  \* theOptions: the devices it has a password for
    held,       \* whether the options a thread holds are still theOptions
    rows,       \* the listbox: none, or a row that is selected and stale or not
    dialog,     \* whether the dialog is there
    found,      \* DeviceManager::_discoveredDevices
    known,      \* DeviceManager::_devices: none, closed or open
    mutex,      \* DeviceManager::_mutex: who holds it
    inUse,      \* whether the output chain holds the device sink
    job,        \* every thread: where it is, its device, and those after it
    posts,      \* the notifications the user's thread still has to post
    dropped     \* history: devices the user dropped, or that failed, or that were
                \* chosen in the menu while the dialog had no row for them

optionVars == <<devices, passwords, held>>
managerVars == <<found, known, mutex, inUse>>
vars == <<optionVars, rows, dialog, managerVars, job, posts, dropped>>

Threads == {"user", "network", "player"}

NoRow == [sel |-> FALSE, stale |-> FALSE, shown |-> FALSE]

Row(sel, stale) == [sel |-> sel, stale |-> stale, shown |-> TRUE]

Idle == [pc |-> "idle", dev |-> {}, rest |-> {}, sel |-> FALSE]

Init ==
    /\ devices \in SUBSET Devices
    /\ passwords = devices \cap Secured
    /\ held = FALSE
    /\ rows = [d \in Devices |-> NoRow]
    /\ dialog = FALSE
    /\ found = {}
    /\ known = [d \in Devices |-> "none"]
    /\ mutex = "free"
    /\ inUse = FALSE
    /\ job = [t \in Threads |-> Idle]
    /\ posts = [drop |-> {}, add |-> {}]
    /\ dropped = {}

At(t, pc) == job[t].pc = pc

Goes(t, pc) == job' = [job EXCEPT ![t].pc = pc]

\* A window message is served by a thread that waits for messages, or its own.
WindowServes(t) == t = "user" \/ At("user", "idle")

-----------------------------------------------------------------------------
(***************************************************************************)
(* DeviceManager::openDevice(), and what a thread does after it.           *)
(***************************************************************************)
After(t) ==
    CASE t = "user" -> "post" [] t = "network" -> "remove" [] t = "player" -> "next"

OpenLocks(t) ==
    /\ At(t, "open")
    /\ mutex = "free"
    /\ \E d \in job[t].dev :
         IF known[d] = "open"
         THEN Goes(t, After(t)) /\ UNCHANGED <<mutex, known>>
         ELSE /\ mutex' = t
              /\ known' = [known EXCEPT ![d] = "closed"]
              /\ Goes(t, "try")
    /\ UNCHANGED <<optionVars, rows, dialog, found, inUse, posts, dropped>>

\* A speaker that wants no password may answer or not; one that does is given
\* the password of the options of the moment, and refuses it.
Opens(t) ==
    /\ At(t, "try")
    /\ \E d \in job[t].dev :
         \/ /\ d \notin Secured
            /\ known' = [known EXCEPT ![d] = "open"]
            /\ mutex' = "free"
            /\ Goes(t, After(t))
            /\ UNCHANGED held
         \/ /\ d \in Secured => d \notin passwords
            /\ mutex' = "free"
            /\ Goes(t, "failed")
            /\ UNCHANGED <<known, held>>
         \/ /\ d \in Secured /\ d \in passwords
            /\ held' = TRUE
            /\ Goes(t, "refused")
            /\ UNCHANGED <<known, mutex>>
    /\ UNCHANGED <<devices, passwords, rows, dialog, found, inUse, posts, dropped>>

\* Wrong variant: the password is only forgotten by the thread.
KeepsPassword(d) == passwords

\* The options that were held when it was sent may be active no more.
WithoutPassword(d) == IF held THEN passwords \ {d} ELSE passwords

ClearsPassword(t) ==
    /\ At(t, "refused")
    /\ \E d \in job[t].dev : passwords' = WithoutPassword(d)
    /\ held' = FALSE
    /\ Goes(t, "try")
    /\ UNCHANGED <<devices, rows, dialog, managerVars, posts, dropped>>

\* The exception is caught without the mutex; DEACTIVATE is posted: the manager
\* destroys the device, whoever has opened it by now, ...
FailedIsDestroyed(t) ==
    /\ At(t, "failed")
    /\ mutex = "free"
    /\ \E d \in job[t].dev : known' = [known EXCEPT ![d] = "none"]
    /\ Goes(t, "deselect")
    /\ UNCHANGED <<optionVars, rows, dialog, found, mutex, inUse, posts, dropped>>

Selected(d, sel) ==
    IF rows[d].shown THEN [rows EXCEPT ![d].sel = sel] ELSE rows

\* ... and the dialog deselects it.
FailedIsDeselected(t) ==
    /\ At(t, "deselect")
    /\ WindowServes(t)
    /\ \E d \in job[t].dev :
         /\ rows' = Selected(d, FALSE)
         /\ dropped' = dropped \cup {d}
    /\ Goes(t, After(t))
    /\ UNCHANGED <<optionVars, dialog, managerVars, posts>>

-----------------------------------------------------------------------------
(***************************************************************************)
(* The player's thread: openDevices(), when it opens the output and when a *)
(* pause ends, goes over the options' devices, then over a copy of the     *)
(* discovered ones; the sink is in use after it, if any device is open.    *)
(***************************************************************************)
PlayerOpens ==
    /\ At("player", "idle")
    /\ job' = [job EXCEPT !["player"] = [Idle EXCEPT !.pc = "copy", !.rest = devices]]
    /\ UNCHANGED <<optionVars, rows, dialog, managerVars, posts, dropped>>

PlayerCopies ==
    /\ At("player", "copy") /\ mutex = "free"
    /\ job' = [job EXCEPT !["player"].rest = @ \cup found, !["player"].pc = "next"]
    /\ UNCHANGED <<optionVars, rows, dialog, managerVars, posts, dropped>>

PlayerOpensNext ==
    /\ At("player", "next")
    /\ IF job["player"].rest = {}
       THEN /\ inUse' = (inUse \/ \E d \in Devices : known[d] = "open")
            /\ job' = [job EXCEPT !["player"] = Idle]
       ELSE /\ \E d \in job["player"].rest :
                 job' = [job EXCEPT !["player"].pc = "open", !["player"].dev = {d},
                                    !["player"].rest = @ \ {d}]
            /\ UNCHANGED inUse
    /\ UNCHANGED <<optionVars, rows, dialog, found, known, mutex, posts, dropped>>

\* The player closes, and the monitor the devices after eight seconds.
PlayerCloses ==
    /\ At("player", "idle") /\ inUse
    /\ inUse' = FALSE
    /\ UNCHANGED <<optionVars, rows, dialog, found, known, mutex, job, posts, dropped>>

MonitorCloses ==
    /\ ~inUse /\ mutex = "free"
    /\ \E d \in Devices : known[d] = "open"
    /\ known' = [d \in Devices |-> IF known[d] = "open" THEN "closed" ELSE known[d]]
    /\ UNCHANGED <<optionVars, rows, dialog, found, mutex, inUse, job, posts, dropped>>

-----------------------------------------------------------------------------
(***************************************************************************)
(* The discovery's thread.  onDeviceFound() and onDeviceLost() of the      *)
(* dialog remove the row and insert another, each a window message.        *)
(***************************************************************************)
DeviceFound(d) ==
    /\ At("network", "idle")
    /\ d \notin found
    /\ mutex = "free"
    /\ found' = found \cup {d}
    /\ job' = [job EXCEPT !["network"] =
                 [Idle EXCEPT !.pc = IF inUse THEN "open" ELSE "remove", !.dev = {d}]]
    /\ UNCHANGED <<optionVars, rows, dialog, known, mutex, inUse, posts, dropped>>

DeviceLost(d) ==
    /\ At("network", "idle")
    /\ d \in found
    /\ mutex = "free"
    /\ found' = found \ {d}
    /\ known' = [known EXCEPT ![d] = "none"]
    /\ job' = [job EXCEPT !["network"] = [Idle EXCEPT !.pc = "remove", !.dev = {d}]]
    /\ UNCHANGED <<optionVars, rows, dialog, mutex, inUse, posts, dropped>>

RemovesRow ==
    /\ At("network", "remove")
    /\ WindowServes("network")
    /\ IF dialog
       THEN \E d \in job["network"].dev :
              /\ rows' = [rows EXCEPT ![d] = NoRow]
              /\ job' = [job EXCEPT !["network"].pc = "insert",
                                    !["network"].sel = rows[d].sel]
       ELSE job' = [job EXCEPT !["network"] = Idle] /\ UNCHANGED rows
    /\ UNCHANGED <<optionVars, dialog, managerVars, posts, dropped>>

\* Wrong variant: a speaker that is back has a row like a new one's.
RowAsNew(d, sel) == IF d \in found THEN Row(FALSE, FALSE) ELSE IF sel THEN Row(TRUE, TRUE) ELSE NoRow

\* The row of a selected speaker that is lost stays visible, as stale.
NewRow(d, sel) == IF d \in found THEN Row(sel, FALSE) ELSE IF sel THEN Row(TRUE, TRUE) ELSE NoRow

InsertsRow ==
    /\ At("network", "insert")
    /\ WindowServes("network")
    /\ \E d \in job["network"].dev :
         rows' = IF dialog THEN [rows EXCEPT ![d] = NewRow(d, job["network"].sel)] ELSE rows
    /\ job' = [job EXCEPT !["network"] = Idle]
    /\ UNCHANGED <<optionVars, dialog, managerVars, posts, dropped>>

-----------------------------------------------------------------------------
(***************************************************************************)
(* The user's thread.  A dialog that opens fills its rows from the options *)
(* and is told of every device that was found (addListener(), in which the *)
(* discovery's own news wait); one that closes waits for them to be told.  *)
(***************************************************************************)
DialogOpens ==
    /\ At("user", "idle") /\ At("network", "idle") /\ ~dialog
    /\ dialog' = TRUE
    /\ rows' = [d \in Devices |->
                  IF d \in found \ Static THEN Row(d \in devices, FALSE)
                  ELSE IF d \in devices THEN Row(TRUE, d \notin Static) ELSE NoRow]
    /\ UNCHANGED <<optionVars, managerVars, job, posts, dropped>>

DialogCloses ==
    /\ At("user", "idle") /\ At("network", "idle") /\ dialog
    /\ dialog' = FALSE
    /\ rows' = [d \in Devices |-> NoRow]
    /\ UNCHANGED <<optionVars, managerVars, job, posts, dropped>>

UserSelects(d) ==
    /\ At("user", "idle")
    /\ rows[d].shown
    /\ rows' = [rows EXCEPT ![d].sel = ~@]
    /\ dropped' = IF rows[d].sel THEN dropped \cup {d} ELSE dropped \ {d}
    /\ UNCHANGED <<optionVars, dialog, managerVars, job, posts>>

\* The context menu adds a speaker by hand, or removes one.
UserAdds(d) ==
    /\ At("user", "idle") /\ dialog
    /\ ~rows[d].shown
    /\ rows' = [rows EXCEPT ![d] = Row(FALSE, FALSE)]
    /\ UNCHANGED <<optionVars, dialog, managerVars, job, posts, dropped>>

UserRemoves(d) ==
    /\ At("user", "idle")
    /\ rows[d].shown
    /\ rows' = [rows EXCEPT ![d] = NoRow]
    /\ dropped' = dropped \cup {d}
    /\ UNCHANGED <<optionVars, dialog, managerVars, job, posts>>

\* setOptions(): theOptions is replaced, and every change is posted.
SetOptions(new) ==
    /\ devices' = new
    /\ passwords' = passwords \cap new
    /\ held' = FALSE
    /\ posts' = [drop |-> devices \ new, add |-> new \ devices]
    /\ Goes("user", "post")

\* buildOptions(): the selected rows and those entered by hand, with the
\* passwords that the active options have for them.
Built == {d \in Devices : rows[d].shown /\ (rows[d].sel \/ d \in Static)}

DoApply ==
    /\ At("user", "idle") /\ dialog
    /\ SetOptions(Built)
    /\ UNCHANGED <<rows, dialog, managerVars, dropped>>

\* The menu knows the devices of the options and those found, but for stale ones.
DefinedOrDiscovered == (devices \cap Static) \cup found

Toggle(which) ==
    /\ At("user", "idle")
    /\ SetOptions({d \in DefinedOrDiscovered : d # which \/ d \in Static})
    /\ UNCHANGED <<rows, dialog, managerVars, dropped>>

\* One notification: the manager hears it first, the dialog after it.
PostsDeactivate ==
    /\ At("user", "post")
    /\ mutex = "free"
    /\ \E d \in posts.drop :
         /\ posts' = [posts EXCEPT !.drop = @ \ {d}]
         /\ known' = [known EXCEPT ![d] = "none"]
         /\ rows' = Selected(d, FALSE)
    /\ UNCHANGED <<optionVars, dialog, found, mutex, inUse, job, dropped>>

PostsActivate ==
    /\ At("user", "post") /\ posts.drop = {}
    /\ \E d \in posts.add :
         /\ posts' = [posts EXCEPT !.add = @ \ {d}]
         /\ IF inUse
            THEN job' = [job EXCEPT !["user"].pc = "open", !["user"].dev = {d}]
            ELSE UNCHANGED job
         /\ rows' = Selected(d, TRUE)
         /\ dropped' = IF dialog /\ ~rows[d].shown THEN dropped \cup {d} ELSE dropped \ {d}
    /\ UNCHANGED <<optionVars, dialog, managerVars>>

PostsEnd ==
    /\ At("user", "post") /\ posts.drop = {} /\ posts.add = {}
    /\ job' = [job EXCEPT !["user"] = Idle]
    /\ UNCHANGED <<optionVars, rows, dialog, managerVars, posts, dropped>>

-----------------------------------------------------------------------------
OpeningGoesOn(t) ==
    \/ OpenLocks(t) \/ Opens(t) \/ ClearsPassword(t)
    \/ FailedIsDestroyed(t) \/ FailedIsDeselected(t)

PlayerGoesOn == PlayerCopies \/ PlayerOpensNext

NetworkGoesOn == RemovesRow \/ InsertsRow

PostingGoesOn == PostsDeactivate \/ PostsActivate \/ PostsEnd

Next ==
    \/ \E t \in Threads : OpeningGoesOn(t)
    \/ PlayerOpens \/ PlayerGoesOn \/ PlayerCloses \/ MonitorCloses
    \/ NetworkGoesOn \/ PostingGoesOn
    \/ DialogOpens \/ DialogCloses \/ DoApply
    \/ \E d \in Devices : UserSelects(d) \/ Toggle(d)
    \/ \E d \in Static : UserAdds(d) \/ UserRemoves(d)
    \/ \E d \in Devices \ Static : DeviceFound(d) \/ DeviceLost(d)

Spec == Init /\ [][Next]_vars

\* No thread stops in what it is doing; nobody has to begin anything.
FairSpec ==
    /\ Spec
    /\ \A t \in Threads : WF_vars(OpeningGoesOn(t))
    /\ WF_vars(PlayerGoesOn) /\ WF_vars(NetworkGoesOn) /\ WF_vars(PostingGoesOn)

-----------------------------------------------------------------------------
(***************************************************************************)
(* A speaker that was chosen, and that the user did not drop and that      *)
(* answered, is not forgotten when the dialog is applied, however often it *)
(* vanished from the network and came back (OptionsDialog.cpp:565-581,     *)
(* 677-702), unless it is applied, or the speaker was chosen in the menu,  *)
(* before the second of the two window messages has inserted its new row.  *)
(***************************************************************************)
ChosenForAReason ==
    [][DoApply => \A d \in devices \ devices' :
         d \in dropped \/ (~At("network", "idle") /\ job["network"].dev = {d})]_vars

(***************************************************************************)
(* A password that a speaker has refused is forgotten once the options are *)
(* no longer replaced, though the thread may have cleared it in options    *)
(* that were not the active ones any more (DeviceManager.cpp:506-530).     *)
(***************************************************************************)
RefusedPasswordIsForgotten ==
    <>[][~DoApply /\ \A d \in Devices : ~Toggle(d)]_vars =>
        \A d \in Secured :
            (\E t \in Threads : At(t, "refused") /\ job[t].dev = {d}) ~> d \notin passwords
=============================================================================
