------------------------------ MODULE Provision ------------------------------
(***************************************************************************)
(* The switch's part in POST /provision/network and /provision/deprovision *)
(* of api/endpoints.py: the session held from step 1 to step 4, the search *)
(* for the ports the router and the access point hang off, the trunks, and *)
(* their removal.                                                          *)
(*                                                                         *)
(* One switch, one router, one access point.  Devices are re-cabled while  *)
(* requests are under way; CDP goes on listing the router where it was     *)
(* until the entry expires, the MAC table forgets a device that moves.     *)
(* Steps 2 and 3 are RouterConfig and WifiConfig; here they are one step   *)
(* that fails or does not.  Any call to the switch may raise.              *)
(***************************************************************************)
EXTENDS Naturals, FiniteSets

CONSTANTS ProvisionRequest,   \* requests that may be under way together
          Vlan,               \* operational VLANs
          Port,               \* ports of the switch
          Router, AccessPoint,  \* the two peers
          Nowhere,            \* no port, and no VLAN
          UplinkSettings,     \* values of ROUTER_UPLINK_PORT and AP_UPLINK_PORT
          Cablings,           \* where the peers may be plugged in at first
          Lines,              \* sessions the switch grants
          MaxProvisionRequests, MaxProvisionFaults, MaxMoves

Role == {Router, AccessPoint}

ASSUME ProvisionAssumption ==
    /\ Nowhere \notin Port \cup Vlan
    /\ Router # AccessPoint
    /\ Cablings \subseteq [Role -> Port]
    /\ \A c \in Cablings : c[Router] # c[AccessPoint]
    /\ Lines \in Nat \ {0}
    /\ MaxProvisionRequests \in Nat /\ MaxProvisionFaults \in Nat /\ MaxMoves \in Nat

VARIABLES database,    \* the VLANs that exist on the switch
          allowed,     \* allowed[p]: the allowed list of port p
          trunking,    \* the ports in trunk mode
          down,        \* the ports whose link is down: just made a trunk, or unplugged
          cable,       \* cable[r]: the port that peer r is plugged into
          stale,       \* ports on which CDP still lists the router, which has left them
          setting,     \* setting[r]: the configured uplink, which may name no port
          hinted,      \* whether the settings were made, or are the defaults
          work,        \* work[o]: where request o stands
          held,        \* held[o]: the sessions of the switch that request o has open
          lone,        \* history: the request that runs, or ran last, alone and without a failure
          provisionRequests, provisionFaults, moves

provisionVars == <<database, allowed, trunking, down, cable, stale, setting, hinted, work, held,
                   lone, provisionRequests, provisionFaults, moves>>

ProvisionStages == {"idle", "setup", "clear", "create", "others", "resume", "confirm",
                    "discover", "table", "trunk", "open", "look", "delete", "untrunk"}

\* The uplinks are a function on the peers; Nowhere stands for a peer without an entry.
NoUplinks == [r \in Role |-> Nowhere]
AnyPort == (UNION {{s[r] : r \in Role} : s \in UplinkSettings}) \cup Port \cup {Nowhere}

NoWork == [stage |-> "idle", vlan |-> Nowhere, replace |-> FALSE,
           stitch |-> FALSE, session |-> "none", uplinks |-> NoUplinks, todo |-> {}]

WorkType == [stage : ProvisionStages, vlan : Vlan \cup {Nowhere}, replace : BOOLEAN, stitch : BOOLEAN,
             session : {"none", "live", "dead"}, uplinks : [Role -> AnyPort],
             todo : SUBSET (Role \cup AnyPort)]

\* who: the request while it runs; done and run: what it was, and how it ended; still: nothing
\* was re-cabled; present: its VLAN existed; located: the peers it found; seen: it could read
\* the table that decides; dark: the ports that the table of trunks could not list.
NoLone == [who |-> {}, done |-> "none", run |-> NoWork, still |-> FALSE, present |-> FALSE,
           located |-> {}, seen |-> FALSE, dark |-> {}]

ProvisionTypeOK ==
    /\ database \subseteq Vlan
    /\ allowed \in [Port -> SUBSET Vlan]
    /\ trunking \subseteq Port /\ down \subseteq Port
    /\ cable \in [Role -> Port]
    /\ stale \subseteq Port
    /\ setting \in UplinkSettings
    /\ hinted \in BOOLEAN
    /\ work \in [ProvisionRequest -> WorkType]
    /\ held \in [ProvisionRequest -> 0..2]
    /\ lone \in [who : SUBSET ProvisionRequest, done : {"none", "provision", "deprovision"},
                  run : WorkType, still : BOOLEAN, present : BOOLEAN,
                  located : SUBSET Role, seen : BOOLEAN, dark : SUBSET Port]
    /\ provisionRequests \in 0..MaxProvisionRequests
    /\ provisionFaults \in 0..MaxProvisionFaults
    /\ moves \in 0..MaxMoves

-----------------------------------------------------------------------------

\* The ports were never trunks; the allowed list of such a port is every VLAN by default,
\* or what the operator left in it.
ProvisionInit ==
    /\ database = {}
    /\ \E default \in {{}, Vlan} : allowed = [p \in Port |-> default]
    /\ trunking = {}
    /\ down = {}
    /\ cable \in Cablings
    /\ stale = {}
    /\ setting \in UplinkSettings
    /\ hinted \in BOOLEAN
    /\ work = [o \in ProvisionRequest |-> NoWork]
    /\ held = [o \in ProvisionRequest |-> 0]
    /\ lone = NoLone
    /\ provisionRequests = 0
    /\ provisionFaults = 0
    /\ moves = 0

AtStage(o, stage) == work[o].stage = stage
ToStage(o, stage) == work' = [work EXCEPT ![o].stage = stage]
LineFreeForRun == Cardinality({x \in ProvisionRequest \X (1..2) : x[2] <= held[x[1]]}) < Lines

\* A call answers, or raises, or finds no session to be made on.
CallAnswers == UNCHANGED provisionFaults

CallRaises ==
    /\ provisionFaults < MaxProvisionFaults
    /\ provisionFaults' = provisionFaults + 1

RaisesUnless(possible) == IF possible THEN CallRaises ELSE CallAnswers

\* The session that the request knows of, opened if it is not; and closed.
Opened(o) == held' = IF work[o].session = "live" THEN held ELSE [held EXCEPT ![o] = @ + 1]
Closed(o) == held' = IF work[o].session = "live" THEN [held EXCEPT ![o] = @ - 1] ELSE held

\* A call needs the session; nothing but ensure_connected replaces one that died.
CanWrite(o) == work[o].session = "live"

\* A step on the session ends well, and request o stands at w.
OnSession(o, w) ==
    /\ CallAnswers
    /\ Opened(o)
    /\ work' = [work EXCEPT ![o] = [w EXCEPT !.session = "live"]]

Cabling == <<cable, stale, setting, hinted, moves>>
Trunks == <<allowed, trunking, down>>

IsLone(o) == lone.who = {o}

\* A failure is listed in the answer.
Flawed(o) == lone' = IF IsLone(o) THEN NoLone ELSE lone

\* commit, disconnect, and the answer.
Finish(o, kind, failed) ==
    /\ Closed(o)
    /\ work' = [work EXCEPT ![o] = NoWork]
    /\ lone' = IF ~IsLone(o) THEN lone ELSE IF failed THEN NoLone
               ELSE [lone EXCEPT !.who = {}, !.done = kind,
                                 !.run = [work[o] EXCEPT !.stage = "idle"]]

BeginRun(o, stage, v, replace, stitch) ==
    /\ AtStage(o, "idle")
    /\ provisionRequests < MaxProvisionRequests
    /\ provisionRequests' = provisionRequests + 1
    /\ work' = [work EXCEPT ![o] = [NoWork EXCEPT !.stage = stage, !.vlan = v,
                                                  !.replace = replace, !.stitch = stitch]]
    /\ lone' = IF \A q \in ProvisionRequest : AtStage(q, "idle")
               THEN [NoLone EXCEPT !.who = {o}, !.still = stale = {}, !.present = v \in database]
               ELSE NoLone
    /\ UNCHANGED <<database, held, Trunks, Cabling, provisionFaults>>

-----------------------------------------------------------------------------
(* Step 1: the session that step 4 will use again, and the VLAN.            *)

\* A bug: the session stays open when a step on it failed.
SetupFailedHeld(o) ==
    /\ UNCHANGED held
    /\ Flawed(o)
    /\ work' = [work EXCEPT ![o].stage = "others", ![o].session = "none"]

\* The step failed: what applied is saved and the session is closed.
SetupFailed(o) ==
    /\ Closed(o)
    /\ Flawed(o)
    /\ work' = [work EXCEPT ![o].stage = "others", ![o].session = "none"]

SetupConnect(o) ==
    /\ AtStage(o, "setup")
    /\ \/ /\ LineFreeForRun
          /\ OnSession(o, [work[o] EXCEPT !.stage = IF work[o].replace THEN "clear"
                                                   ELSE "create"])
          /\ UNCHANGED lone
       \/ RaisesUnless(LineFreeForRun) /\ SetupFailed(o)
    /\ UNCHANGED <<database, Trunks, Cabling, provisionRequests>>

\* clear_vlans: every VLAN but this one; a removal that raises is logged, the read of them
\* is not.
ClearVlans(o) ==
    /\ AtStage(o, "clear")
    /\ LET kept == database \cap {work[o].vlan}
       IN  \/ /\ CanWrite(o)
              /\ OnSession(o, [work[o] EXCEPT !.stage = "create"])
              /\ database' = kept
              /\ UNCHANGED lone
           \/ /\ CallRaises
              /\ \E left \in SUBSET (database \ kept) : database' = kept \cup left
              /\ ToStage(o, "create")
              /\ UNCHANGED <<held, lone>>
           \/ RaisesUnless(CanWrite(o)) /\ SetupFailed(o) /\ UNCHANGED database
    /\ UNCHANGED <<Trunks, Cabling, provisionRequests>>

\* create_vlan, and the access ports, whose failures are listed.
CreateVlan(o) ==
    /\ AtStage(o, "create")
    /\ LET more == database \cup {work[o].vlan}
       IN  \/ /\ CanWrite(o)
              /\ OnSession(o, [work[o] EXCEPT !.stage = "others"])
              /\ database' = more
              /\ UNCHANGED lone
           \/ CallRaises /\ SetupFailed(o) /\ database' \in {database, more}
           \/ ~CanWrite(o) /\ CallAnswers /\ SetupFailed(o) /\ UNCHANGED database
    /\ UNCHANGED <<Trunks, Cabling, provisionRequests>>

\* Steps 2 and 3.  Without stitching the request ends here, and closes the session.
OtherSteps(o) ==
    /\ AtStage(o, "others")
    /\ \E failed \in BOOLEAN :
          /\ RaisesUnless(~failed)
          /\ IF work[o].stitch
             THEN /\ ToStage(o, "resume")
                  /\ IF failed THEN Flawed(o) ELSE UNCHANGED lone
                  /\ UNCHANGED held
             ELSE Finish(o, "provision", failed)
    /\ UNCHANGED <<database, Trunks, Cabling, provisionRequests>>

-----------------------------------------------------------------------------
(* Step 4: where the uplinks are.                                           *)

\* The session of step 1, looked after by ensure_connected, whose verdict is not used, or a
\* new one.
Resume(o) ==
    /\ AtStage(o, "resume")
    /\ LET next == [work[o] EXCEPT !.stage = IF hinted THEN "confirm" ELSE "discover",
                                   !.todo = Role]
       IN  \/ /\ CanWrite(o) \/ LineFreeForRun
              /\ OnSession(o, next)
              /\ UNCHANGED lone
           \/ /\ work[o].session = "dead"
              /\ RaisesUnless(LineFreeForRun)
              /\ work' = [work EXCEPT ![o] = next]
              /\ UNCHANGED <<held, lone>>
           \/ /\ work[o].session = "none"
              /\ RaisesUnless(LineFreeForRun)
              /\ Finish(o, "provision", TRUE)
    /\ UNCHANGED <<database, Trunks, Cabling, provisionRequests>>

\* The entries of the router that find_port_via_cdp may come upon; there may be none, and
\* an entry lives on for minutes after the router was moved.
CdpEntries == {cable[Router]} \cup stale

\* Peer r is on port p, as the switch has it; or it is not found.
Locate(o, r, p) ==
    /\ CallAnswers
    /\ work' = [work EXCEPT ![o].stage = "discover", ![o].uplinks[r] = p, ![o].todo = @ \ {r}]
    /\ lone' = IF IsLone(o) THEN [lone EXCEPT !.located = @ \cup {r}] ELSE lone

Miss(o, r) ==
    /\ CallAnswers \/ CallRaises
    /\ work' = [work EXCEPT ![o].todo = @ \ {r}]
    /\ UNCHANGED lone

\* A bug: a switch that lists no such neighbour is taken to agree with the setting.
ConfirmUplinkBySilence(o) ==
    /\ AtStage(o, "confirm")
    /\ \/ \E p \in CdpEntries : work[o].session = "live" /\ Locate(o, Router, p)
       \/ Locate(o, Router, setting[Router])
    /\ UNCHANGED <<database, held, Trunks, Cabling, provisionRequests>>

\* One read of CDP for the router, which agrees with the setting or is believed against it.
\* No such neighbour, and no answer, both leave the router to the discovery.
ConfirmUplink(o) ==
    /\ AtStage(o, "confirm")
    /\ \/ \E p \in CdpEntries : work[o].session = "live" /\ Locate(o, Router, p)
       \/ CallAnswers /\ ToStage(o, "discover") /\ UNCHANGED lone
    /\ UNCHANGED <<database, held, Trunks, Cabling, provisionRequests>>

\* A peer that is outstanding: CDP for the router, then the MAC table, with a ping to have
\* a forgotten address learned again.  A peer that is not found gets its configured port.
Discover(o) ==
    /\ AtStage(o, "discover")
    /\ \/ /\ work[o].todo = {}
          /\ CallAnswers
          /\ work' = [work EXCEPT ![o].stage = "table",
                ![o].uplinks = [r \in Role |-> IF @[r] = Nowhere THEN setting[r] ELSE @[r]]]
          /\ UNCHANGED lone
       \/ \E r \in work[o].todo :
             \/ work[o].session = "live" /\ r = Router /\ \E p \in CdpEntries : Locate(o, r, p)
             \/ work[o].session = "live" /\ Locate(o, r, cable[r])
             \/ Miss(o, r)
    /\ UNCHANGED <<database, held, Trunks, Cabling, provisionRequests>>

\* The interface table: what it does not list is not trunked, and reported.  Unreadable, it
\* is not used.
CheckPorts(o) ==
    /\ AtStage(o, "table")
    /\ \/ /\ CanWrite(o)
          /\ LET there == {r \in Role : work[o].uplinks[r] \in Port}
             IN  /\ OnSession(o, [work[o] EXCEPT !.stage = "trunk", !.todo = there])
                 /\ IF there # Role THEN Flawed(o)
                    ELSE lone' = IF IsLone(o) THEN [lone EXCEPT !.seen = TRUE] ELSE lone
       \/ /\ RaisesUnless(CanWrite(o))
          /\ work' = [work EXCEPT ![o].stage = "trunk", ![o].todo = Role]
          /\ UNCHANGED <<held, lone>>
    /\ UNCHANGED <<database, Trunks, Cabling, provisionRequests>>

\* configure_uplink_trunk, which adds to the allowed list.  The link of a port that becomes
\* a trunk goes down for a while.  The switch does not complain about a name it does not have.
TrunkPort(o, p) ==
    IF p \in Port
    THEN /\ allowed' = [allowed EXCEPT ![p] = @ \cup {work[o].vlan}]
         /\ trunking' = trunking \cup {p}
         /\ down' = down \cup ({p} \ trunking)
    ELSE UNCHANGED Trunks

Trunk(o) ==
    /\ AtStage(o, "trunk")
    /\ \/ work[o].todo = {} /\ CallAnswers /\ Finish(o, "provision", FALSE) /\ UNCHANGED Trunks
       \/ \E r \in work[o].todo :
             \/ /\ CanWrite(o)
                /\ OnSession(o, [work[o] EXCEPT !.todo = @ \ {r}])
                /\ TrunkPort(o, work[o].uplinks[r])
                /\ UNCHANGED lone
             \/ /\ RaisesUnless(CanWrite(o))
                /\ \/ CanWrite(o) /\ TrunkPort(o, work[o].uplinks[r])
                   \/ UNCHANGED Trunks
                /\ work' = [work EXCEPT ![o].todo = @ \ {r}]
                /\ Flawed(o)
                /\ UNCHANGED held
    /\ UNCHANGED <<database, Cabling, provisionRequests>>

-----------------------------------------------------------------------------
(* deprovision_network.                                                     *)

OpenSession(o) ==
    /\ AtStage(o, "open")
    /\ \/ /\ LineFreeForRun
          /\ OnSession(o, [work[o] EXCEPT !.stage = "look"])
          /\ UNCHANGED lone
       \/ RaisesUnless(LineFreeForRun) /\ Finish(o, "deprovision", TRUE)
    /\ UNCHANGED <<database, Trunks, Cabling, provisionRequests>>

\* The trunks set up to carry a VLAN, which has to exist.
Carries(v) == {p \in trunking : v \in allowed[p] \cap database}

\* Those the table of trunks lists: one whose link is down is not operational.
Carrying(v) == Carries(v) \ down

\* find_trunks_carrying_vlan; unreadable, the configured uplinks stand in.
LookForTrunks(o) ==
    /\ AtStage(o, "look")
    /\ \/ /\ work[o].session = "live"
          /\ OnSession(o, [work[o] EXCEPT !.stage = "delete", !.todo = Carrying(work[o].vlan)])
          /\ lone' = IF IsLone(o) THEN [lone EXCEPT !.seen = TRUE, !.dark = down] ELSE lone
       \/ /\ RaisesUnless(work[o].session = "live")
          /\ work' = [work EXCEPT ![o].stage = "delete", ![o].todo = {setting[r] : r \in Role}]
          /\ UNCHANGED <<held, lone>>
    /\ UNCHANGED <<database, Trunks, Cabling, provisionRequests>>

\* A bug: the table is read again once the VLAN is gone.
DeleteVlanFirst(o) ==
    /\ AtStage(o, "delete")
    /\ CanWrite(o)
    /\ database' = database \ {work[o].vlan}
    /\ OnSession(o, [work[o] EXCEPT !.stage = "untrunk", !.todo = {}])
    /\ UNCHANGED <<Trunks, Cabling, lone, provisionRequests>>

DeleteVlanOf(o) ==
    /\ AtStage(o, "delete")
    /\ LET fewer == database \ {work[o].vlan}
       IN  \/ /\ CanWrite(o)
              /\ OnSession(o, [work[o] EXCEPT !.stage = "untrunk"])
              /\ database' = fewer
              /\ UNCHANGED lone
           \/ /\ RaisesUnless(CanWrite(o))
              /\ \/ UNCHANGED database
                 \/ CanWrite(o) /\ database' = fewer
              /\ Finish(o, "deprovision", TRUE)
    /\ UNCHANGED <<Trunks, Cabling, provisionRequests>>

\* remove_vlan_from_trunk, one port after the other.
Untrunk(o) ==
    /\ AtStage(o, "untrunk")
    /\ \/ /\ work[o].todo = {}
          /\ CallAnswers
          /\ Finish(o, "deprovision", FALSE)
          /\ UNCHANGED allowed
       \/ \E p \in work[o].todo :
             LET less == [q \in Port |-> IF q = p THEN allowed[q] \ {work[o].vlan} ELSE allowed[q]]
                 rest == [work[o] EXCEPT !.todo = @ \ {p}]
             IN  \/ CanWrite(o) /\ OnSession(o, rest) /\ allowed' = less /\ UNCHANGED lone
                 \/ /\ RaisesUnless(CanWrite(o))
                    /\ \/ UNCHANGED allowed
                       \/ CanWrite(o) /\ allowed' = less
                    /\ work' = [work EXCEPT ![o] = rest]
                    /\ Flawed(o)
                    /\ UNCHANGED held
    /\ UNCHANGED <<database, trunking, down, Cabling, provisionRequests>>

-----------------------------------------------------------------------------
(* What happens around the requests.                                        *)

\* The session of a request dies.
SessionDies(o) ==
    /\ work[o].session = "live"
    /\ CallRaises
    /\ work' = [work EXCEPT ![o].session = "dead"]
    /\ held' = [held EXCEPT ![o] = @ - 1]
    /\ UNCHANGED <<database, Trunks, Cabling, lone, provisionRequests>>

\* A peer is plugged into another port: the link of the one it leaves is down.
Recable(r, p) ==
    /\ moves < MaxMoves
    /\ \A q \in Role : cable[q] # p
    /\ moves' = moves + 1
    /\ cable' = [cable EXCEPT ![r] = p]
    /\ stale' = (IF r = Router THEN stale \cup {cable[r]} ELSE stale) \ {p}
    /\ down' = (down \cup {cable[r]}) \ {p}
    /\ lone' = [lone EXCEPT !.still = FALSE]
    /\ UNCHANGED <<database, allowed, trunking, setting, hinted, work, held, provisionRequests,
                   provisionFaults>>

\* An entry of CDP expires.
ExpireCdp ==
    /\ \E p \in stale : stale' = stale \ {p}
    /\ UNCHANGED <<database, Trunks, cable, setting, hinted, moves, work, held, lone,
                   provisionRequests, provisionFaults>>

\* Spanning tree has converged on a port, or something was plugged into it.
LinkUp ==
    /\ \E p \in down : down' = down \ {p}
    /\ UNCHANGED <<database, allowed, trunking, Cabling, work, held, lone, provisionRequests,
                   provisionFaults>>

ProvisionStep(o) ==
    \/ SetupConnect(o) \/ ClearVlans(o) \/ CreateVlan(o) \/ OtherSteps(o)
    \/ Resume(o) \/ ConfirmUplink(o) \/ Discover(o) \/ CheckPorts(o) \/ Trunk(o)
    \/ OpenSession(o) \/ LookForTrunks(o) \/ DeleteVlanOf(o) \/ Untrunk(o)
    \/ SessionDies(o)

ProvisionNext ==
    \/ \E o \in ProvisionRequest, v \in Vlan :
          \/ \E replace, stitch \in BOOLEAN : BeginRun(o, "setup", v, replace, stitch)
          \/ BeginRun(o, "open", v, FALSE, FALSE)
    \/ \E o \in ProvisionRequest : ProvisionStep(o)
    \/ \E r \in Role, p \in Port : Recable(r, p)
    \/ ExpireCdp \/ LinkUp

ProvisionSpec == ProvisionInit /\ [][ProvisionNext]_provisionVars

-----------------------------------------------------------------------------

\* A provision that reported no failure, alone, while nothing was re-cabled and CDP listed
\* the router nowhere else, leaves the segment carried on the port of every peer that it
\* located, and on a port of the switch for the others when it could read which there are.
TrunksReachPeers ==
    lone.done = "provision" /\ lone.run.stitch /\ lone.still =>
        /\ \A r \in lone.located : cable[r] \in Carries(lone.run.vlan)
        /\ lone.seen => \A r \in Role : lone.run.uplinks[r] \in Carries(lone.run.vlan)

\* A de-provision that reported no failure, alone, read the table of trunks, and found the
\* VLAN on the switch, leaves it in the allowed list of no trunk whose link was up then,
\* wherever the peers were when it was provisioned.  A trunk whose link was down is exempt:
\* TeardownLeavesNone is about that one.
TeardownUntrunks ==
    lone.done = "deprovision" /\ lone.seen /\ lone.present =>
        \A p \in trunking \ lone.dark : lone.run.vlan \notin allowed[p]

\* It leaves it in the allowed list of no trunk at all ("whatever carries the VLAN loses it,
\* wherever it happens to be, including leftovers from cycles that predate the current
\* cabling").
TeardownLeavesNone ==
    lone.done = "deprovision" /\ lone.seen /\ lone.present =>
        \A p \in trunking : lone.run.vlan \notin allowed[p]

\* A session is open only while its request is under way, also after any call failed: the
\* switch grants few, and the next request would find none.
SessionsGivenBack ==
    \A o \in ProvisionRequest : AtStage(o, "idle") => held[o] = 0

=============================================================================
