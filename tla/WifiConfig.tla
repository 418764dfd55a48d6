----------------------------- MODULE WifiConfig -----------------------------
(***************************************************************************)
(* The wireless side of a segment: the SSID and network-profile operations *)
(* of drivers/unifi_driver.py, in the order in which provision_network,    *)
(* deprovision_network and the WLAN requests of api/endpoints.py call them *)
(* on one controller.                                                      *)
(*                                                                         *)
(* Every request to the controller is a step.  It may raise, and then the  *)
(* controller has or has not carried it out.  A 401 is replayed once after *)
(* a new login, and a write of an SSID is tried WriteAttempts times; the   *)
(* controller accepts two SSIDs, and two profiles, of the same name.       *)
(*                                                                         *)
(* An SSID is its identifier, its name, the profile it is attached to (0   *)
(* for none) and whether this provision made it or it was there before.    *)
(***************************************************************************)
EXTENDS Naturals, FiniteSets

CONSTANTS WifiRequest,    \* requests that may be under way together
          Name,           \* names of SSIDs
          Tag,            \* VLANs
          Untagged,       \* no VLAN: the data path is not stitched
          WriteAttempts,  \* attempts of _write_with_retry
          MaxIds,         \* bound on the objects created
          MaxWifiRequests, MaxWifiFaults

ASSUME WifiAssumption ==
    /\ Name # {} /\ Untagged \notin Tag
    /\ WriteAttempts \in Nat \ {0}
    /\ MaxIds \in Nat \ {0}
    /\ MaxWifiRequests \in Nat /\ MaxWifiFaults \in Nat

VARIABLES wlans,         \* the SSIDs of the controller
          profiles,      \* its VLAN-only networks
          lastId,        \* identifiers given out so far
          task,          \* task[o]: where request o stands
          deleted,       \* history: SSIDs reported deleted
          made,          \* history: the last provision, alone and without a call that raised
          wifiRequests,  \* requests so far
          wifiFaults     \* calls that raised

wifiVars == <<wlans, profiles, lastId, task, deleted, made, wifiRequests, wifiFaults>>

Id == 1..MaxIds
WlanType == [id : Id, name : Name, profile : 0..MaxIds, new : BOOLEAN]
WifiSteps == {"idle", "login", "clear", "lookup", "profile", "existing", "post", "verify",
              "find", "delete", "confirm", "drop", "get", "put"}

NoTask == [step |-> "idle", kind |-> "provision", name |-> CHOOSE n \in Name : TRUE,
           tag |-> Untagged, replace |-> FALSE, todo |-> {}, back |-> "idle",
           profile |-> 0, attempt |-> 1, replayed |-> FALSE, error |-> FALSE,
           alone |-> FALSE, smooth |-> FALSE]

NoMade == [name |-> NoTask.name, tag |-> NoTask.tag, valid |-> FALSE]

WifiTypeOK ==
    /\ wlans \subseteq WlanType
    /\ profiles \subseteq [id : Id, tag : Tag]
    /\ lastId \in 0..MaxIds
    /\ task \in [WifiRequest ->
          [step : WifiSteps, kind : {"provision", "deprovision", "remove", "edit"},
           name : Name, tag : Tag \cup {Untagged}, replace : BOOLEAN, todo : SUBSET Id,
           back : {"idle", "clear", "existing", "find"}, profile : 0..MaxIds,
           attempt : 1..WriteAttempts, replayed : BOOLEAN, error : BOOLEAN,
           alone : BOOLEAN, smooth : BOOLEAN]]
    /\ deleted \subseteq Id
    /\ made \in [name : Name, tag : Tag \cup {Untagged}, valid : BOOLEAN]
    /\ wifiRequests \in 0..MaxWifiRequests
    /\ wifiFaults \in 0..MaxWifiFaults

-----------------------------------------------------------------------------

\* A controller on which the names are free, or that has an SSID from before.
WifiInit ==
    /\ \E there \in BOOLEAN :
          /\ wlans = IF there THEN {[id |-> 1, name |-> n, profile |-> 0, new |-> FALSE] :
                                       n \in {NoTask.name}} ELSE {}
          /\ lastId = IF there THEN 1 ELSE 0
    /\ profiles = {}
    /\ task = [o \in WifiRequest |-> NoTask]
    /\ deleted = {}
    /\ made = NoMade
    /\ wifiRequests = 0
    /\ wifiFaults = 0

Stands(o, step) == task[o].step = step
Called(n) == {w \in wlans : w.name = n}
ProfilesOf(v) == {p.id : p \in {q \in profiles : q.tag = v}}

\* Request o turns to another step.
Turn(o, step) == task' = [task EXCEPT ![o].step = step]

\* A request to the controller that raises; the task is no longer smooth.
WifiRaises ==
    /\ wifiFaults < MaxWifiFaults
    /\ wifiFaults' = wifiFaults + 1

WifiAnswers == UNCHANGED wifiFaults

\* The request ends.
EndTask(o, raised) ==
    /\ task' = [task EXCEPT ![o] = NoTask]
    /\ LET t == task[o]
       IN  made' = IF t.kind = "provision" /\ t.alone /\ t.smooth /\ ~raised
                   THEN [name |-> t.name, tag |-> t.tag, valid |-> TRUE] ELSE NoMade

NoEnd == UNCHANGED made

NewTask(o, kind, n, v, replace, todo) ==
    /\ Stands(o, "idle")
    /\ wifiRequests < MaxWifiRequests
    /\ wifiRequests' = wifiRequests + 1
    /\ LET quiet == \A q \in WifiRequest : Stands(q, "idle")
       IN  task' = [q \in WifiRequest |->
              IF q = o THEN [NoTask EXCEPT !.step = "login", !.kind = kind, !.name = n, !.tag = v,
                                           !.replace = replace, !.todo = todo,
                                           !.alone = quiet, !.smooth = TRUE]
              ELSE [task[q] EXCEPT !.alone = FALSE]]
    /\ made' = NoMade
    /\ UNCHANGED <<wlans, profiles, lastId, deleted, wifiFaults>>

\* An SSID with a VLAN is attached to a profile.
Attach(o) == IF task[o].tag = Untagged THEN "existing" ELSE "lookup"

\* connect: three logins at the legacy endpoint and one at the UniFi OS endpoint.
Login(o) ==
    /\ Stands(o, "login")
    /\ \/ /\ WifiAnswers
          /\ Turn(o, CASE task[o].kind = "deprovision" -> "find"
                       [] task[o].kind = "remove" -> "delete"
                       [] task[o].kind = "edit" -> "get"
                       [] task[o].replace -> "clear"
                       [] OTHER -> Attach(o))
          /\ NoEnd
       \/ WifiRaises /\ EndTask(o, TRUE)
    /\ UNCHANGED <<wlans, profiles, lastId, deleted, wifiRequests>>

-----------------------------------------------------------------------------
(* delete_wlan: the write with its retries, and the read that decides.      *)

\* Delete what is in todo one after the other, then go on.
Deleting(o, todo, back, step) ==
    task' = [task EXCEPT ![o].step = IF todo = {} THEN step ELSE "delete",
                         ![o].todo = todo, ![o].back = IF todo = {} THEN "idle" ELSE back,
                         ![o].attempt = 1, ![o].error = FALSE]

Target(o) == CHOOSE i \in task[o].todo : TRUE

\* The next attempt of a write, or the read once the attempts are used up.
NextAttempt(o, read) ==
    task' = IF task[o].attempt < WriteAttempts
            THEN [task EXCEPT ![o].attempt = @ + 1, ![o].replayed = FALSE, ![o].smooth = FALSE]
            ELSE [task EXCEPT ![o].step = read, ![o].attempt = 1, ![o].replayed = FALSE,
                              ![o].error = TRUE, ![o].smooth = FALSE]

DeleteWlan(o) ==
    /\ Stands(o, "delete")
    /\ LET rest == {w \in wlans : w.id # Target(o)}
       IN  \/ wlans' = rest /\ WifiAnswers /\ Turn(o, "confirm")
           \/ wlans' \in {wlans, rest} /\ WifiRaises /\ NextAttempt(o, "confirm")
    /\ NoEnd
    /\ UNCHANGED <<profiles, lastId, deleted, wifiRequests>>

\* The caller goes on after the delete of one SSID.
Deleted(o) ==
    LET left == task[o].todo \ {Target(o)}
    IN  /\ deleted' = deleted \cup {Target(o)}
        /\ CASE task[o].back = "clear" -> Deleting(o, left, "clear", Attach(o)) /\ NoEnd
             [] task[o].back = "existing" -> Deleting(o, left, "existing", "post") /\ NoEnd
             [] task[o].back = "find" -> Deleting(o, {}, "idle", "drop") /\ NoEnd
             [] OTHER -> EndTask(o, FALSE)

\* clear_wlans goes on with the next one, create_guest_network with the write, and a
\* de-provision ends here, before it has dropped the profile.
NotDeleted(o) ==
    LET left == task[o].todo \ {Target(o)}
    IN  /\ UNCHANGED deleted
        /\ CASE task[o].back = "clear" -> Deleting(o, left, "clear", Attach(o)) /\ NoEnd
             [] task[o].back = "existing" -> Deleting(o, {}, "idle", "post") /\ NoEnd
             [] OTHER -> EndTask(o, TRUE)

\* A bug: a controller that cannot be read is taken for one without the SSID.
ConfirmDeleteUnread(o) ==
    /\ Stands(o, "confirm")
    /\ \/ /\ WifiAnswers
          /\ IF Target(o) \in {w.id : w \in wlans} THEN NotDeleted(o) ELSE Deleted(o)
       \/ WifiRaises /\ Deleted(o)
    /\ UNCHANGED <<wlans, profiles, lastId, wifiRequests>>

ConfirmDelete(o) ==
    /\ Stands(o, "confirm")
    /\ \/ /\ WifiAnswers
          /\ IF Target(o) \in {w.id : w \in wlans} THEN NotDeleted(o) ELSE Deleted(o)
       \/ /\ WifiRaises
          /\ IF task[o].error THEN NotDeleted(o) ELSE Deleted(o)
    /\ UNCHANGED <<wlans, profiles, lastId, wifiRequests>>

-----------------------------------------------------------------------------
(* provision_network, step 3: clear_wlans and create_guest_network.         *)

\* clear_wlans: every SSID but the one that is provisioned.
ClearWlans(o) ==
    /\ Stands(o, "clear")
    /\ \/ /\ WifiAnswers
          /\ Deleting(o, {w.id : w \in wlans \ Called(task[o].name)}, "clear", Attach(o))
          /\ NoEnd
       \/ WifiRaises /\ EndTask(o, TRUE)
    /\ UNCHANGED <<wlans, profiles, lastId, deleted, wifiRequests>>

\* _vlan_networkconf_id: a profile of the VLAN is reused, and a lookup that raises finds none.
LookupProfile(o) ==
    /\ Stands(o, "lookup")
    /\ \/ /\ WifiAnswers
          /\ IF ProfilesOf(task[o].tag) = {} THEN Turn(o, "profile")
             ELSE \E p \in ProfilesOf(task[o].tag) :
                     task' = [task EXCEPT ![o].step = "existing", ![o].profile = p]
       \/ WifiRaises /\ task' = [task EXCEPT ![o].step = "profile", ![o].smooth = FALSE]
    /\ NoEnd
    /\ UNCHANGED <<wlans, profiles, lastId, deleted, wifiRequests>>

\* The profile is created, or the SSID will go without one.
CreateProfile(o) ==
    /\ Stands(o, "profile")
    /\ lastId < MaxIds
    /\ LET more == profiles \cup {[id |-> lastId + 1, tag |-> task[o].tag]}
       IN  \/ /\ WifiAnswers
              /\ profiles' = more /\ lastId' = lastId + 1
              /\ task' = [task EXCEPT ![o].step = "existing", ![o].profile = lastId + 1,
                                      ![o].replayed = FALSE]
           \/ /\ WifiRaises
              /\ \/ profiles' = more /\ lastId' = lastId + 1
                 \/ UNCHANGED <<profiles, lastId>>
              /\ \/ /\ ~task[o].replayed  \* a 401
                    /\ task' = [task EXCEPT ![o].replayed = TRUE, ![o].smooth = FALSE]
                 \/ task' = [task EXCEPT ![o].step = "existing", ![o].replayed = FALSE,
                                         ![o].smooth = FALSE]
    /\ NoEnd
    /\ UNCHANGED <<wlans, deleted, wifiRequests>>

\* A bug: only one SSID of the name is removed.
RemoveOneExisting(o) ==
    /\ Stands(o, "existing")
    /\ \/ /\ Called(task[o].name) = {}
          /\ Turn(o, "post")
       \/ \E w \in Called(task[o].name) : Deleting(o, {w.id}, "existing", "post")
    /\ WifiAnswers
    /\ NoEnd
    /\ UNCHANGED <<wlans, profiles, lastId, deleted, wifiRequests>>

\* Every SSID of the name is removed first; what raises is logged, and the rest stays.
RemoveExisting(o) ==
    /\ Stands(o, "existing")
    /\ \/ /\ WifiAnswers
          /\ Deleting(o, {w.id : w \in Called(task[o].name)}, "existing", "post")
       \/ WifiRaises /\ task' = [task EXCEPT ![o].step = "post", ![o].smooth = FALSE]
    /\ NoEnd
    /\ UNCHANGED <<wlans, profiles, lastId, deleted, wifiRequests>>

PostWlan(o) ==
    /\ Stands(o, "post")
    /\ lastId < MaxIds
    /\ LET more == wlans \cup {[id |-> lastId + 1, name |-> task[o].name,
                                profile |-> task[o].profile, new |-> TRUE]}
       IN  \/ /\ WifiAnswers
              /\ wlans' = more /\ lastId' = lastId + 1
              /\ Turn(o, "verify")
           \/ /\ WifiRaises
              /\ \/ wlans' = more /\ lastId' = lastId + 1
                 \/ UNCHANGED <<wlans, lastId>>
              /\ \/ /\ ~task[o].replayed  \* a 401
                    /\ task' = [task EXCEPT ![o].replayed = TRUE, ![o].smooth = FALSE]
                 \/ NextAttempt(o, "verify")
    /\ NoEnd
    /\ UNCHANGED <<profiles, deleted, wifiRequests>>

\* The controller lists the name, or cannot be read and the write was answered.
VerifyWlan(o) ==
    /\ Stands(o, "verify")
    /\ \/ WifiAnswers /\ EndTask(o, Called(task[o].name) = {})
       \/ WifiRaises /\ EndTask(o, task[o].error)
    /\ UNCHANGED <<wlans, profiles, lastId, deleted, wifiRequests>>

-----------------------------------------------------------------------------
(* deprovision_network, and the WLAN requests.                              *)

\* The first SSID of the name.
FindWlan(o) ==
    /\ Stands(o, "find")
    /\ \/ /\ WifiAnswers
          /\ NoEnd
          /\ \/ \E w \in Called(task[o].name) : Deleting(o, {w.id}, "find", "drop")
             \/ Called(task[o].name) = {} /\ Turn(o, "drop")
       \/ WifiRaises /\ EndTask(o, TRUE)
    /\ UNCHANGED <<wlans, profiles, lastId, deleted, wifiRequests>>

\* delete_vlan_network: the first profile of the VLAN; what raises is reported as done.
DropProfile(o) ==
    /\ Stands(o, "drop")
    /\ \/ /\ WifiAnswers
          /\ \/ /\ ProfilesOf(task[o].tag) = {}
                /\ UNCHANGED profiles
             \/ \E i \in ProfilesOf(task[o].tag) : profiles' = {p \in profiles : p.id # i}
       \/ /\ WifiRaises
          /\ \/ UNCHANGED profiles
             \/ \E i \in ProfilesOf(task[o].tag) : profiles' = {p \in profiles : p.id # i}
    /\ EndTask(o, FALSE)
    /\ UNCHANGED <<wlans, lastId, deleted, wifiRequests>>

\* update_wlan: the SSID is read, and written back whole with its new name.
GetWlan(o) ==
    /\ Stands(o, "get")
    /\ \/ /\ WifiAnswers
          /\ IF \E w \in wlans : w.id \in task[o].todo
             THEN /\ \E w \in wlans :
                        /\ w.id \in task[o].todo
                        /\ task' = [task EXCEPT ![o].step = "put", ![o].profile = w.profile]
                  /\ NoEnd
             ELSE EndTask(o, TRUE)
       \/ WifiRaises /\ EndTask(o, TRUE)
    /\ UNCHANGED <<wlans, profiles, lastId, deleted, wifiRequests>>

PutWlan(o) ==
    /\ Stands(o, "put")
    /\ LET put == {IF w.id \in task[o].todo
                   THEN [w EXCEPT !.name = task[o].name, !.profile = task[o].profile] ELSE w :
                   w \in wlans}
       IN  \/ WifiAnswers /\ wlans' = put
           \/ WifiRaises /\ wlans' \in {wlans, put}
    /\ EndTask(o, FALSE)
    /\ UNCHANGED <<profiles, lastId, deleted, wifiRequests>>

WifiStep(o) ==
    \/ Login(o) \/ ClearWlans(o) \/ LookupProfile(o) \/ CreateProfile(o)
    \/ RemoveExisting(o) \/ PostWlan(o) \/ VerifyWlan(o)
    \/ FindWlan(o) \/ DropProfile(o) \/ GetWlan(o) \/ PutWlan(o)
    \/ DeleteWlan(o) \/ ConfirmDelete(o)

WifiNext ==
    \E o \in WifiRequest :
        \/ \E n \in Name :
              \/ \E v \in Tag \cup {Untagged}, replace \in BOOLEAN :
                    NewTask(o, "provision", n, v, replace, {})
              \/ \E v \in Tag : NewTask(o, "deprovision", n, v, FALSE, {})
              \/ \E w \in wlans, kind \in {"remove", "edit"} :
                    NewTask(o, kind, n, Untagged, FALSE, {w.id})
        \/ WifiStep(o)

WifiSpec == WifiInit /\ [][WifiNext]_wifiVars

-----------------------------------------------------------------------------

\* An SSID that delete_wlan reported deleted is gone for good: the read after the write
\* decides, whatever the writes answered, and no edit that had read it brings it back.
DeletedStaysGone == \A w \in wlans : w.id \notin deleted

\* A provision that was alone and met no failing call leaves one SSID of its name, its own
\* one, attached to a profile of its VLAN: whatever pile of that name earlier runs with
\* lost answers had left.
ProvisionLeavesOne ==
    made.valid => \E w \in wlans :
        /\ Called(made.name) = {w}
        /\ w.new
        /\ w.profile \in IF made.tag = Untagged THEN {0} ELSE ProfilesOf(made.tag)

=============================================================================
