----------------------------- MODULE ConsolePages -----------------------------
(***************************************************************************)
(* The pages of the web console on which something is changed: the         *)
(* handlers of State, frontend/frontend.py, in two browser tabs over one   *)
(* backend.                                                                *)
(*                                                                         *)
(* A tab sends its clicks one after the other: one is held back until the  *)
(* handler of the one before has ended, and carries what its button was    *)
(* built with.  A handler calls the backend, and most of them load a list  *)
(* anew after that; every call is a step, between which the other tab's    *)
(* go, and may be lost before or after the backend carried it out.         *)
(*                                                                         *)
(* The backend is what the pages see of it: three lists that are edited,   *)
(* the threats, two settings, the ports, and whether the segment is there. *)
(***************************************************************************)
EXTENDS Naturals, Sequences, FiniteSets

CONSTANTS Tab,         \* browser tabs
          Item,        \* users, MAC addresses, SSIDs
          Device,      \* devices, one port each
          Nothing,     \* no row, no device
          MaxWaiting,  \* bound on the clicks held back
          MaxClicks, MaxLost

ASSUME PagesAssumption ==
    /\ Nothing \notin Item \cup Device
    /\ MaxWaiting \in Nat /\ MaxClicks \in Nat /\ MaxLost \in Nat

Edited == {"users", "authorized", "wlans"}
Page == Edited \cup {"threats"}
Setting == {"mode", "policy"}

VARIABLES rows,      \* rows[p]: the rows of the backend's list
          named,     \* the SSIDs that have been renamed
          setting,   \* setting[s]: armed, or the policy's second window
          down,      \* devices whose port is shut
          segment,   \* the segment is provisioned
          shown,     \* shown[t][p]: the rows that tab t shows
          fields,    \* fields[t][s]: the setting that tab t shows
          asks,      \* asks[t][p]: the row that says "Confirm?"
          editing,   \* editing[t]: the SSID in the form
          view,      \* view[t]: the selected device, and the port as it is shown
          outcome,   \* outcome[t]: what is said of the last provision
          waiting,   \* waiting[t]: clicks that were not yet sent
          work,      \* work[t]: the handler under way
          behind,    \* history: behind[t]: pages whose list in tab t need not be the backend's,
                     \*   for it was not loaded, or another changed it since
          clicks, lost

backend == <<rows, named, setting, down, segment>>
face == <<shown, fields, asks, editing, view, outcome>>
pageVars == <<backend, face, waiting, work, behind, clicks, lost>>

ListHandlers == {"addUser", "removeUser", "addMac", "removeMac", "trust", "saveWlan", "removeWlan"}
Handlers == ListHandlers \cup
    {"openSettings", "openSecurity", "openSchedule", "ask", "cancel", "editWlan",
     "set", "select", "port", "provision", "deprovision", "scan"}

\* arg is the row or the device, page the list or the setting, to the value sent.
ClickType == [do : Handlers, arg : Item \cup Device \cup {Nothing},
              page : Page \cup Setting, to : BOOLEAN]
Click(do, arg, page, to) == [do |-> do, arg |-> arg, page |-> page, to |-> to]

Still == [click |-> Click("cancel", Nothing, "users", FALSE), at |-> "idle", loads |-> <<>>]

PagesTypeOK ==
    /\ rows \in [Page -> SUBSET Item] /\ named \subseteq Item
    /\ setting \in [Setting -> BOOLEAN]
    /\ down \subseteq Device /\ segment \in BOOLEAN
    /\ shown \in [Tab -> [Page -> SUBSET Item]]
    /\ fields \in [Tab -> [Setting -> BOOLEAN]]
    /\ asks \in [Tab -> [Edited -> Item \cup {Nothing}]]
    /\ editing \in [Tab -> Item \cup {Nothing}]
    /\ view \in [Tab -> [device : Device \cup {Nothing}, port : {"none", "up", "down", "offline"}]]
    /\ outcome \in [Tab -> {"none", "finished", "failed", "unconfirmed"}]
    /\ waiting \in [Tab -> Seq(ClickType)]
    /\ \A t \in Tab : Len(waiting[t]) <= MaxWaiting
    /\ work \in [Tab -> [click : ClickType, at : {"idle", "call", "clear", "load"},
                         loads : Seq(Page \cup Setting \cup {"port"})]]
    /\ behind \in [Tab -> SUBSET Page]
    /\ clicks \in 0..MaxClicks /\ lost \in 0..MaxLost

\* Every list has a row; some tabs have had every page open, and the others show nothing yet.
PagesInit ==
    /\ \E r \in Item : rows = [p \in Page |-> {r}]
    /\ named = {}
    /\ setting = [s \in Setting |-> FALSE]
    /\ down = {} /\ segment = FALSE
    /\ \E opened \in SUBSET Tab :
         /\ shown = [t \in Tab |-> IF t \in opened THEN rows ELSE [p \in Page |-> {}]]
         /\ behind = [t \in Tab |-> IF t \in opened THEN {} ELSE Page]
    /\ fields = [t \in Tab |-> [s \in Setting |-> FALSE]]
    /\ asks = [t \in Tab |-> [p \in Edited |-> Nothing]]
    /\ editing = [t \in Tab |-> Nothing]
    /\ view = [t \in Tab |-> [device |-> Nothing, port |-> "none"]]
    /\ outcome = [t \in Tab |-> "none"]
    /\ waiting = [t \in Tab |-> <<>>]
    /\ work = [t \in Tab |-> Still]
    /\ clicks = 0 /\ lost = 0

-----------------------------------------------------------------------------
(* The operator.                                                            *)

\* What tab t has a button for.
Offered(t) ==
    LET listed(p) == shown[t][p]
        rowClicks(do, p) == {Click(do, r, p, FALSE) : r \in listed(p)}
        confirmed(do, p) == {Click(do, r, p, FALSE) : r \in listed(p) \cap {asks[t][p]}}
    IN  {Click(do, Nothing, "users", FALSE) :
            do \in {"openSettings", "openSecurity", "openSchedule", "scan", "deprovision"}}
        \cup (UNION {rowClicks("ask", p) : p \in Edited})
        \cup {Click("cancel", Nothing, p, FALSE) : p \in {q \in Edited : asks[t][q] # Nothing}}
        \cup {Click("addUser", r, "users", FALSE) : r \in Item}
        \cup {Click("addMac", r, "authorized", FALSE) : r \in Item}
        \cup confirmed("removeUser", "users") \cup confirmed("removeMac", "authorized")
        \cup confirmed("removeWlan", "wlans")
        \cup rowClicks("editWlan", "wlans") \cup rowClicks("trust", "threats")
        \cup (IF editing[t] = Nothing THEN {} ELSE {Click("saveWlan", Nothing, "wlans", TRUE),
                                                   Click("editWlan", Nothing, "wlans", FALSE)})
        \cup {Click("set", Nothing, "mode", ~fields[t]["mode"])}
        \cup {Click("set", Nothing, "policy", v) : v \in BOOLEAN}
        \cup {Click("select", d, "users", FALSE) : d \in Device}
        \cup (IF view[t].port \in {"up", "down"}
              THEN {Click("port", view[t].device, "users", view[t].port = "up")} ELSE {})
        \cup (IF work[t].click.do = "provision" THEN {}
              ELSE {Click("provision", Nothing, "users", FALSE)})

Clicks(t) ==
    /\ clicks < MaxClicks
    /\ clicks' = clicks + 1
    /\ Len(waiting[t]) < MaxWaiting
    /\ \E c \in Offered(t) : waiting' = [waiting EXCEPT ![t] = Append(@, c)]
    /\ UNCHANGED <<backend, face, work, behind, lost>>

\* What each handler loads at its end; trust_threat clears the threats before that.
LoadsOf(c) ==
    CASE c.do \in {"addUser", "removeUser"} -> <<"users">>
      [] c.do \in {"addMac", "removeMac"} -> <<"authorized">>
      [] c.do \in {"saveWlan", "removeWlan"} -> <<"wlans">>
      [] c.do \in {"trust", "scan"} -> <<"threats">>
      [] c.do = "openSettings" -> <<"authorized", "users">>
      [] c.do = "openSecurity" -> <<"threats", "mode">>
      [] c.do = "openSchedule" -> <<"policy", "wlans">>
      [] c.do \in {"select", "port"} -> <<"port">>
      [] OTHER -> <<>>

\* A handler without a call is over at once; the others begin.
BeginHandler(t) ==
    /\ work[t].at = "idle"
    /\ waiting[t] # <<>>
    /\ waiting' = [waiting EXCEPT ![t] = Tail(@)]
    /\ LET c == Head(waiting[t])
       IN  /\ c.do \notin {"ask", "cancel", "editWlan"}
           /\ work' = [work EXCEPT ![t] =
                  [click |-> c, loads |-> LoadsOf(c),
                   at |-> IF c.do \in {"openSettings", "openSecurity", "openSchedule", "select"}
                          THEN "load" ELSE "call"]]
           /\ view' = IF c.do = "select"
                      THEN [view EXCEPT ![t] = [device |-> c.arg, port |-> "none"]] ELSE view
    /\ UNCHANGED <<backend, shown, fields, asks, editing, outcome, behind, clicks, lost>>

\* ask_delete_user, ask_remove_authorized, ask_delete_wlan, and what takes them back.
Ask(t) ==
    /\ work[t].at = "idle" /\ waiting[t] # <<>>
    /\ LET c == Head(waiting[t])
       IN  /\ c.do \in {"ask", "cancel"}
           /\ asks' = [asks EXCEPT ![t][c.page] = c.arg]
           /\ editing' = IF c.do = "ask" /\ c.page = "wlans"
                         THEN [editing EXCEPT ![t] = Nothing] ELSE editing
    /\ waiting' = [waiting EXCEPT ![t] = Tail(@)]
    /\ UNCHANGED <<backend, shown, fields, view, outcome, work, behind, clicks, lost>>

\* begin_edit_wlan, and cancel_edit_wlan, where no row says "Confirm?".
BeginEditWlan(t) ==
    /\ work[t].at = "idle" /\ waiting[t] # <<>>
    /\ Head(waiting[t]).do = "editWlan"
    /\ editing' = [editing EXCEPT ![t] = Head(waiting[t]).arg]
    /\ asks' = [asks EXCEPT ![t]["wlans"] = Nothing]
    /\ waiting' = [waiting EXCEPT ![t] = Tail(@)]
    /\ UNCHANGED <<backend, shown, fields, view, outcome, work, behind, clicks, lost>>

-----------------------------------------------------------------------------
(* The call of a handler.                                                   *)

Calls(t, do) == work[t].at = "call" /\ work[t].click.do = do
Arg(t) == work[t].click.arg

\* The handler goes on to its loads, if it has any.
Loading(t) ==
    work' = [work EXCEPT ![t] = IF @.loads = <<>> THEN Still ELSE [@ EXCEPT !.at = "load"]]

Done(t) == work' = [work EXCEPT ![t] = Still]

Answered == UNCHANGED lost
CallLost == lost < MaxLost /\ lost' = lost + 1

\* List p becomes new: a tab that is not at work on it is behind.
Becomes(t, p, new) ==
    /\ rows' = [rows EXCEPT ![p] = new]
    /\ behind' = IF new = rows[p] THEN behind
                 ELSE [u \in Tab |-> IF u = t THEN behind[u] ELSE behind[u] \cup {p}]

\* The call makes list p new, and the list is loaded anew, whatever became of the call.
Edit(t, p, new) ==
    /\ \/ Answered /\ Becomes(t, p, new)
       \/ CallLost /\ \E some \in {rows[p], new} : Becomes(t, p, some)
    /\ Loading(t)

ListRest == UNCHANGED <<named, setting, down, segment, shown, fields, view, outcome,
                        waiting, clicks>>

\* create_user: a name that is taken is refused, here and in the next one without a change.
AddUser(t) ==
    /\ Calls(t, "addUser")
    /\ Edit(t, "users", rows["users"] \cup {Arg(t)})
    /\ UNCHANGED <<asks, editing>> /\ ListRest

\* A bug: a call that fails ends the handler, as it does in toggle_port.
RemoveUserNoReload(t) ==
    /\ Calls(t, "removeUser")
    /\ LET left == rows["users"] \ {Arg(t)}
       IN  \/ Answered /\ Becomes(t, "users", left) /\ Loading(t)
           \/ CallLost /\ Becomes(t, "users", left) /\ Done(t)
    /\ asks' = [asks EXCEPT ![t]["users"] = Nothing]
    /\ UNCHANGED editing /\ ListRest

\* delete_user: the last admin, the one row that is left, stays.
RemoveUser(t) ==
    /\ Calls(t, "removeUser")
    /\ Edit(t, "users", IF rows["users"] = {Arg(t)} THEN rows["users"]
                        ELSE rows["users"] \ {Arg(t)})
    /\ asks' = [asks EXCEPT ![t]["users"] = Nothing]
    /\ UNCHANGED editing /\ ListRest

AddAuthorized(t) ==
    /\ Calls(t, "addMac")
    /\ Edit(t, "authorized", rows["authorized"] \cup {Arg(t)})
    /\ UNCHANGED <<asks, editing>> /\ ListRest

RemoveAuthorized(t) ==
    /\ Calls(t, "removeMac")
    /\ Edit(t, "authorized", rows["authorized"] \ {Arg(t)})
    /\ asks' = [asks EXCEPT ![t]["authorized"] = Nothing]
    /\ UNCHANGED editing /\ ListRest

RemoveWlan(t) ==
    /\ Calls(t, "removeWlan")
    /\ Edit(t, "wlans", rows["wlans"] \ {Arg(t)})
    /\ asks' = [asks EXCEPT ![t]["wlans"] = Nothing]
    /\ UNCHANGED editing /\ ListRest

\* save_wlan_edit: the SSID in the form, at the time the click is handled; one that is not
\* there any more is refused.
SaveWlanEdit(t) ==
    /\ Calls(t, "saveWlan")
    /\ LET new == IF editing[t] \in rows["wlans"] THEN named \cup {editing[t]} ELSE named
       IN  \/ Answered /\ named' = new
           \/ CallLost /\ named' \in {named, new}
    /\ editing' = [editing EXCEPT ![t] = Nothing]
    /\ Loading(t)
    /\ UNCHANGED <<rows, setting, down, segment, shown, fields, asks, view, outcome,
                   waiting, behind, clicks>>

\* trust_threat: a call that fails ends it; the authorized list is another page's.
TrustThreat(t) ==
    /\ Calls(t, "trust")
    /\ LET more == rows["authorized"] \cup {Arg(t)}
       IN  \/ Answered /\ rows' = [rows EXCEPT !["authorized"] = more]
              /\ work' = [work EXCEPT ![t].at = "clear"]
           \/ CallLost /\ Done(t) /\ \E some \in {rows["authorized"], more} :
                 rows' = [rows EXCEPT !["authorized"] = some]
    /\ behind' = IF rows' = rows THEN behind
                 ELSE [u \in Tab |-> behind[u] \cup {"authorized"}]
    /\ UNCHANGED <<asks, editing>> /\ ListRest

\* Its second part: clear-threats, then a scan, which is lost with it, in the background.
ClearThreats(t) ==
    /\ work[t].at = "clear"
    /\ \/ Answered /\ Becomes(t, "threats", {})
       \/ CallLost /\ \E some \in {rows["threats"], {}} : Becomes(t, "threats", some)
    /\ Loading(t)
    /\ UNCHANGED <<asks, editing>> /\ ListRest

\* run_scan starts the scan and waits three seconds; what it finds comes when it will.
RunScan(t) ==
    /\ Calls(t, "scan")
    /\ Answered \/ CallLost
    /\ Loading(t)
    /\ UNCHANGED <<rows, behind, asks, editing>> /\ ListRest

\* set_enforcement shows the mode that the answer has; after a failure, the one from before.
SetEnforcement(t) ==
    /\ Calls(t, "set") /\ work[t].click.page = "mode"
    /\ LET new == [setting EXCEPT !["mode"] = work[t].click.to]
       IN  \/ /\ Answered
              /\ setting' = new
              /\ fields' = [fields EXCEPT ![t]["mode"] = work[t].click.to]
           \/ CallLost /\ setting' \in {setting, new} /\ UNCHANGED fields
    /\ Done(t)
    /\ UNCHANGED <<rows, named, down, segment, shown, asks, editing, view, outcome, waiting,
                   behind, clicks>>

\* save_policy shows the window of the form, whatever became of the call.
SavePolicy(t) ==
    /\ Calls(t, "set") /\ work[t].click.page = "policy"
    /\ fields' = [fields EXCEPT ![t]["policy"] = work[t].click.to]
    /\ LET new == [setting EXCEPT !["policy"] = work[t].click.to]
       IN  \/ Answered /\ setting' = new
           \/ CallLost /\ setting' \in {setting, new}
    /\ Done(t)
    /\ UNCHANGED <<rows, named, down, segment, shown, asks, editing, view, outcome, waiting,
                   behind, clicks>>

\* toggle_port: the port, and what to do with it, of the row that was clicked, on the device
\* that is selected now.  A call that fails ends it.
TogglePort(t) ==
    /\ Calls(t, "port")
    /\ LET new == IF work[t].click.to THEN down \cup {view[t].device}
                  ELSE down \ {view[t].device}
       IN  \/ Answered /\ down' = new /\ Loading(t)
           \/ CallLost /\ down' \in {down, new} /\ Done(t)
    /\ UNCHANGED <<rows, named, setting, segment, face, waiting, behind, clicks>>

\* run_provision: the segment is there after an answer, and may be after an error or a lost
\* answer; an error is a failure, a lost answer is not confirmed.
RunProvision(t) ==
    /\ Calls(t, "provision")
    /\ \/ Answered /\ segment' = TRUE /\ outcome' = [outcome EXCEPT ![t] = "finished"]
       \/ Answered /\ segment' \in {segment, TRUE} /\ outcome' = [outcome EXCEPT ![t] = "failed"]
       \/ CallLost /\ segment' \in {segment, TRUE} /\ outcome' = [outcome EXCEPT ![t] = "unconfirmed"]
    /\ Done(t)
    /\ UNCHANGED <<rows, named, setting, down, shown, fields, asks, editing, view, waiting,
                   behind, clicks>>

RunDeprovision(t) ==
    /\ Calls(t, "deprovision")
    /\ \/ Answered /\ segment' = FALSE /\ outcome' = [outcome EXCEPT ![t] = "finished"]
       \/ Answered /\ segment' \in {segment, FALSE} /\ outcome' = [outcome EXCEPT ![t] = "failed"]
       \/ CallLost /\ segment' \in {segment, FALSE} /\ outcome' = [outcome EXCEPT ![t] = "unconfirmed"]
    /\ Done(t)
    /\ UNCHANGED <<rows, named, setting, down, shown, fields, asks, editing, view, waiting,
                   behind, clicks>>

-----------------------------------------------------------------------------
(* The loads.                                                               *)

Loads(t, p) ==
    /\ work[t].at = "load" /\ Head(work[t].loads) = p
    /\ work' = [work EXCEPT ![t] = IF Len(work[t].loads) = 1 THEN Still
                                   ELSE [work[t] EXCEPT !.loads = Tail(@)]]

LoadRest == UNCHANGED <<backend, asks, editing, outcome, waiting, clicks>>

\* The list is shown as it is; after a failure, as failed says.
LoadList(t, p, failed) ==
    /\ Loads(t, p)
    /\ \/ /\ Answered
          /\ shown' = [shown EXCEPT ![t][p] = rows[p]]
          /\ behind' = [behind EXCEPT ![t] = @ \ {p}]
       \/ /\ CallLost
          /\ shown' = [shown EXCEPT ![t][p] = failed]
          /\ behind' = [behind EXCEPT ![t] = @ \cup {p}]
    /\ UNCHANGED <<fields, view>> /\ LoadRest

LoadUserList(t) == LoadList(t, "users", shown[t]["users"])
LoadAuthorized(t) == LoadList(t, "authorized", shown[t]["authorized"])
LoadThreats(t) == LoadList(t, "threats", shown[t]["threats"])

\* load_wlans, after a failure and of a controller that cannot be reached: no SSIDs.
LoadWlans(t) == LoadList(t, "wlans", {})

LoadSetting(t, s) ==
    /\ Loads(t, s)
    /\ \/ Answered /\ fields' = [fields EXCEPT ![t][s] = setting[s]]
       \/ CallLost /\ UNCHANGED fields
    /\ UNCHANGED <<shown, view, behind>> /\ LoadRest

LoadEnforcement(t) == LoadSetting(t, "mode")
LoadScheduler(t) == LoadSetting(t, "policy")

\* _fetch_interfaces, of the device that is selected; what fails shows it as offline.
FetchInterfaces(t) ==
    /\ Loads(t, "port")
    /\ \/ Answered /\ view' = [view EXCEPT ![t].port = IF view[t].device \in down THEN "down" ELSE "up"]
       \/ CallLost /\ view' = [view EXCEPT ![t].port = "offline"]
    /\ UNCHANGED <<shown, fields, behind>> /\ LoadRest

HandlerStep(t) ==
    \/ AddUser(t) \/ RemoveUser(t) \/ AddAuthorized(t) \/ RemoveAuthorized(t)
    \/ RemoveWlan(t) \/ SaveWlanEdit(t) \/ TrustThreat(t) \/ ClearThreats(t) \/ RunScan(t)
    \/ SetEnforcement(t) \/ SavePolicy(t) \/ TogglePort(t)
    \/ RunProvision(t) \/ RunDeprovision(t)
    \/ LoadUserList(t) \/ LoadAuthorized(t) \/ LoadThreats(t) \/ LoadWlans(t)
    \/ LoadEnforcement(t) \/ LoadScheduler(t) \/ FetchInterfaces(t)

PagesNext ==
    \E t \in Tab : Clicks(t) \/ BeginHandler(t) \/ Ask(t) \/ BeginEditWlan(t) \/ HandlerStep(t)

PagesSpec == PagesInit /\ [][PagesNext]_pageVars

-----------------------------------------------------------------------------

\* A tab that is at rest shows the list that the backend has, after its own edits, with a
\* lost answer too, unless that very load was lost or somebody else changed the list since.
OwnEditsShown ==
    \A t \in Tab, p \in Page :
        (work[t].at = "idle" /\ p \notin behind[t]) => shown[t][p] = rows[p]

=============================================================================
