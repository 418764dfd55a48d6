---------------------------- MODULE RouterConfig ----------------------------
(***************************************************************************)
(* The router side of a segment: the DHCP and VLAN operations of           *)
(* drivers/mikrotik_driver.py, in the order in which provision_network and *)
(* deprovision_network of api/endpoints.py call them on one router.        *)
(*                                                                         *)
(* Every call of the RouterOS API is a step.  It may raise, and then the   *)
(* router has or has not carried it out: a timeout loses the answer only.  *)
(* Requests may overlap, each with a session of its own.                   *)
(*                                                                         *)
(* A pool is its name with the subnet of its range, a gateway address its  *)
(* VLAN and subnet, and the server "dhcp-<vlan>" its VLAN and the pool it  *)
(* hands out.  The get before an add is one step with it: two requests     *)
(* that both found nothing end with an add the router refuses, which is a  *)
(* call that raises.                                                       *)
(***************************************************************************)
EXTENDS Naturals, FiniteSets

CONSTANTS RouterRequest,  \* requests that may be under way together
          Segment,        \* what they ask for: records [vlan, name, subnet]
          Mgmt,           \* the subnet UAF reaches the router on, its pool and its server
          NoAnswer,       \* no answer to compare with the router
          MaxRouterRequests, MaxRouterFaults

ASSUME RouterAssumption ==
    /\ Segment # {}
    /\ MaxRouterRequests \in Nat /\ MaxRouterFaults \in Nat
    /\ \A s \in Segment : Mgmt \notin {s.vlan, s.name, s.subnet}
    /\ NoAnswer \notin [kind : {"provision", "deprovision"}, segment : Segment,
                        stitch : BOOLEAN, clean : BOOLEAN]

VARIABLES router,          \* the configuration of the router
          host,            \* how the inventory gives its address: as one, or by a name
          chain,           \* chain[o]: where the router chain of request o stands
          answered,        \* history: the last request, alone and without a failed step
          blind,           \* history: a read of what must be protected failed
          routerRequests,  \* requests so far
          routerFaults     \* calls that raised

routerVars == <<router, host, chain, answered, blind, routerRequests, routerFaults>>

RouterVlan == {s.vlan : s \in Segment} \cup {Mgmt}
PoolName == {s.name : s \in Segment} \cup {Mgmt}
Subnet == {s.subnet : s \in Segment} \cup {Mgmt}

ProvisionSteps == {"connect", "guardNetworks", "guardServers", "guardPools",
                   "clearNetworks", "clearPools", "pool", "network", "confirm",
                   "uplink", "vlan", "address", "server"}
DeprovisionSteps == {"delNetwork", "delPool", "delServer", "delAddress", "delVlan",
                     "readBack"}

\* undisturbed: no other request overlapped it, and it lost no removal unnoticed.
NoChain == [step |-> "idle", kind |-> "provision", segment |-> CHOOSE s \in Segment : TRUE,
            replace |-> FALSE, stitch |-> FALSE, keepNetworks |-> {}, keepPools |-> {},
            failed |-> FALSE, undisturbed |-> FALSE, clean |-> FALSE]

RouterTypeOK ==
    /\ router \in [pools : SUBSET [name : PoolName, subnet : Subnet],
                   networks : SUBSET Subnet,
                   vlans : SUBSET RouterVlan,
                   addresses : SUBSET [vlan : RouterVlan, subnet : Subnet],
                   servers : SUBSET [vlan : RouterVlan, pool : PoolName]]
    /\ host \in {"address", "name"}
    /\ chain \in [RouterRequest ->
                    [step : {"idle"} \cup ProvisionSteps \cup DeprovisionSteps,
                     kind : {"provision", "deprovision"}, segment : Segment,
                     replace : BOOLEAN, stitch : BOOLEAN,
                     keepNetworks : SUBSET Subnet, keepPools : SUBSET PoolName,
                     failed : BOOLEAN, undisturbed : BOOLEAN, clean : BOOLEAN]]
    /\ answered \in {NoAnswer} \cup
          [kind : {"provision", "deprovision"}, segment : Segment,
           stitch : BOOLEAN, clean : BOOLEAN]
    /\ blind \in BOOLEAN
    /\ routerRequests \in 0..MaxRouterRequests
    /\ routerFaults \in 0..MaxRouterFaults

-----------------------------------------------------------------------------

RouterInit ==
    /\ router = [pools |-> {[name |-> Mgmt, subnet |-> Mgmt]},
                 networks |-> {Mgmt},
                 vlans |-> {Mgmt},
                 addresses |-> {[vlan |-> Mgmt, subnet |-> Mgmt]},
                 servers |-> {[vlan |-> Mgmt, pool |-> Mgmt]}]
    /\ host \in {"address", "name"}
    /\ chain = [o \in RouterRequest |-> NoChain]
    /\ answered = NoAnswer
    /\ blind = FALSE
    /\ routerRequests = 0
    /\ routerFaults = 0

At(o, step) == chain[o].step = step
Goto(o, step) == chain' = [chain EXCEPT ![o].step = step]
Serves(v) == {s \in router.servers : s.vlan = v}
Named(n) == {p \in router.pools : p.name = n}

\* The chain ends: the driver disconnects, and the answer lists what failed.
EndChain(o, failed) ==
    /\ chain' = [chain EXCEPT ![o] = NoChain]
    /\ answered' = IF chain[o].undisturbed /\ ~chain[o].failed /\ ~failed
                   THEN [kind |-> chain[o].kind, segment |-> chain[o].segment,
                         stitch |-> chain[o].stitch, clean |-> chain[o].clean]
                   ELSE NoAnswer

Continue(o, step) == Goto(o, step) /\ UNCHANGED answered

\* The call raises: the router took its command or not.
Raises(new) ==
    /\ routerFaults < MaxRouterFaults
    /\ routerFaults' = routerFaults + 1
    /\ router' \in {router, new}

\* The call makes the router new.
Answers(new) == router' = new /\ UNCHANGED routerFaults

\* A request begins with a connect, tried three times by a provision.  "clean" says that
\* nothing on the router bears the segment's names yet.
BeginRequest(o, kind, s, replace, stitch) ==
    /\ At(o, "idle")
    /\ routerRequests < MaxRouterRequests
    /\ routerRequests' = routerRequests + 1
    /\ LET quiet == \A q \in RouterRequest : At(q, "idle")
       IN  chain' = [q \in RouterRequest |->
              IF q # o THEN [chain[q] EXCEPT !.undisturbed = FALSE]
              ELSE [NoChain EXCEPT !.step = "connect", !.kind = kind, !.segment = s,
                                   !.replace = replace, !.stitch = stitch, !.undisturbed = quiet,
                                   !.clean = Serves(s.vlan) = {} /\ Named(s.name) = {}]]
    /\ answered' = NoAnswer
    /\ UNCHANGED <<router, blind, routerFaults>>

Connect(o) ==
    /\ At(o, "connect")
    /\ UNCHANGED <<blind, routerRequests>>
    /\ \/ /\ Answers(router)
          /\ Continue(o, IF chain[o].kind = "deprovision" THEN "delNetwork"
                         ELSE IF chain[o].replace THEN "guardNetworks" ELSE "pool")
       \/ Raises(router) /\ EndChain(o, TRUE)

-----------------------------------------------------------------------------
(* clear_dhcp_pools.  _protected_dhcp reads three tables, and a read that   *)
(* raises is logged and leaves its part of the protection empty.  For a     *)
(* router that is known by a name it reads nothing and protects nothing.    *)

\* A step that reads what to protect: what it found is added to what is kept.
Guards(o, networks, pools, step) ==
    /\ UNCHANGED <<answered, routerRequests>>
    /\ \/ /\ Answers(router)
          /\ chain' = [chain EXCEPT ![o].step = step, ![o].keepNetworks = @ \cup networks,
                                    ![o].keepPools = @ \cup pools]
          /\ UNCHANGED blind
       \/ Raises(router) /\ Goto(o, step) /\ blind' = TRUE

\* A name is not parsed as an address: what the caller keeps is all that is kept.
GuardsNothing(o) ==
    /\ host = "name"
    /\ Answers(router)
    /\ Goto(o, "clearNetworks")
    /\ UNCHANGED <<answered, blind, routerRequests>>

\* A bug: only what the caller keeps is kept.
GuardNetworksOfCaller(o) ==
    /\ At(o, "guardNetworks")
    /\ \/ GuardsNothing(o)
       \/ host = "address" /\ Guards(o, {chain[o].segment.subnet}, {}, "guardServers")

\* The networks that hold the management address, and what the caller keeps.
GuardNetworks(o) ==
    /\ At(o, "guardNetworks")
    /\ \/ GuardsNothing(o)
       \/ /\ host = "address"
          /\ Guards(o, {chain[o].segment.subnet} \cup (router.networks \cap {Mgmt}), {},
                    "guardServers")

\* The pools of all servers, and what the caller keeps.
GuardServers(o) ==
    /\ At(o, "guardServers")
    /\ Guards(o, {}, {chain[o].segment.name} \cup {s.pool : s \in router.servers},
              "guardPools")

\* The pools in the networks found to hold the management address.
GuardPools(o) ==
    /\ At(o, "guardPools")
    /\ Guards(o, {}, {p.name : p \in {q \in router.pools :
                                 q.subnet \in chain[o].keepNetworks \cap {Mgmt}}},
              "clearNetworks")

\* Each item that is not kept is removed; a removal that raises is logged.
ClearNetworks(o) ==
    /\ At(o, "clearNetworks")
    /\ UNCHANGED <<blind, routerRequests>>
    /\ LET kept == router.networks \cap (chain[o].keepNetworks \cup {chain[o].segment.subnet})
       IN  \/ Answers([router EXCEPT !.networks = kept]) /\ Continue(o, "clearPools")
           \/ \E left \in SUBSET (router.networks \ kept) :
                 /\ Raises([router EXCEPT !.networks = kept \cup left])
                 /\ Continue(o, "clearPools")
           \/ Raises(router) /\ EndChain(o, TRUE)

ClearPools(o) ==
    /\ At(o, "clearPools")
    /\ UNCHANGED <<blind, routerRequests>>
    /\ LET kept == {p \in router.pools :
                       p.name \in chain[o].keepPools \cup {chain[o].segment.name}}
       IN  \/ Answers([router EXCEPT !.pools = kept]) /\ Continue(o, "pool")
           \/ \E left \in SUBSET (router.pools \ kept) :
                 /\ Raises([router EXCEPT !.pools = kept \cup left])
                 /\ Continue(o, "pool")
           \/ Raises(router) /\ EndChain(o, TRUE)

-----------------------------------------------------------------------------
(* create_dhcp_pool and create_vlan_segment: what exists is reused.         *)

\* The DHCP part is done.
AfterDhcp(o) ==
    IF chain[o].stitch THEN Continue(o, "uplink") ELSE EndChain(o, FALSE)

CreatePool(o) ==
    /\ At(o, "pool")
    /\ UNCHANGED <<blind, routerRequests>>
    /\ LET s == chain[o].segment
           new == IF Named(s.name) # {} THEN router
                  ELSE [router EXCEPT !.pools = @ \cup {[name |-> s.name, subnet |-> s.subnet]}]
       IN  \/ Answers(new) /\ Continue(o, "network")
           \/ Raises(new) /\ Continue(o, "confirm")

CreateNetwork(o) ==
    /\ At(o, "network")
    /\ UNCHANGED <<blind, routerRequests>>
    /\ LET new == [router EXCEPT !.networks = @ \cup {chain[o].segment.subnet}]
       IN  \/ Answers(new) /\ AfterDhcp(o)
           \/ Raises(new) /\ Continue(o, "confirm")

\* A bug: a pool that is there is enough.
ConfirmDhcpByPool(o) ==
    /\ At(o, "confirm")
    /\ UNCHANGED <<blind, routerRequests>>
    /\ \/ /\ Answers(router)
          /\ IF Named(chain[o].segment.name) # {} THEN AfterDhcp(o) ELSE EndChain(o, TRUE)
       \/ Raises(router) /\ EndChain(o, TRUE)

\* After a write that raised, both are looked for.
ConfirmDhcp(o) ==
    /\ At(o, "confirm")
    /\ UNCHANGED <<blind, routerRequests>>
    /\ \/ /\ Answers(router)
          /\ IF /\ Named(chain[o].segment.name) # {}
                /\ chain[o].segment.subnet \in router.networks
             THEN AfterDhcp(o) ELSE EndChain(o, TRUE)
       \/ Raises(router) /\ EndChain(o, TRUE)

\* A call of create_vlan_segment: the router refuses it unless allowed.
SegmentCall(o, new, allowed, step) ==
    /\ UNCHANGED <<blind, routerRequests>>
    /\ \/ /\ allowed
          /\ Answers(new)
          /\ IF step = "idle" THEN EndChain(o, FALSE) ELSE Continue(o, step)
       \/ Raises(new) /\ EndChain(o, TRUE)
       \/ ~allowed /\ Answers(router) /\ EndChain(o, TRUE)

\* The uplink is the interface that has the management address, which a name never equals.
FindUplink(o) ==
    /\ At(o, "uplink")
    /\ SegmentCall(o, router, /\ host = "address"
                              /\ [vlan |-> Mgmt, subnet |-> Mgmt] \in router.addresses, "vlan")

CreateInterface(o) ==
    /\ At(o, "vlan")
    /\ SegmentCall(o, [router EXCEPT !.vlans = @ \cup {chain[o].segment.vlan}], TRUE, "address")

CreateAddress(o) ==
    /\ At(o, "address")
    /\ LET s == chain[o].segment
       IN  SegmentCall(o, [router EXCEPT !.addresses = @ \cup {[vlan |-> s.vlan, subnet |-> s.subnet]}],
                       s.vlan \in router.vlans, "server")

CreateServer(o) ==
    /\ At(o, "server")
    /\ LET s == chain[o].segment
           new == IF Serves(s.vlan) # {} THEN router
                  ELSE [router EXCEPT !.servers = @ \cup {[vlan |-> s.vlan, pool |-> s.name]}]
       IN  SegmentCall(o, new, \/ Serves(s.vlan) # {}
                               \/ s.vlan \in router.vlans /\ Named(s.name) # {}, "idle")

-----------------------------------------------------------------------------
(* delete_dhcp_network, then delete_vlan_segment whether or not the first   *)
(* one raised.                                                              *)

\* The router answers and has done nothing, as was seen of removals.
Ignores ==
    /\ routerFaults < MaxRouterFaults
    /\ routerFaults' = routerFaults + 1
    /\ UNCHANGED router

\* The first of the two reads nothing back, so an ignored removal goes unnoticed.
IgnoresUnnoticed(o, step) ==
    /\ Ignores
    /\ chain' = [chain EXCEPT ![o].step = step, ![o].undisturbed = FALSE]

\* A bug: what raised is not listed as failed.
DeleteNetworkUnlisted(o) ==
    /\ At(o, "delNetwork")
    /\ UNCHANGED <<answered, blind, routerRequests>>
    /\ LET new == [router EXCEPT !.networks = @ \ {chain[o].segment.subnet}]
       IN  \/ Answers(new) /\ Goto(o, "delPool")
           \/ IgnoresUnnoticed(o, "delPool")
           \/ Raises(new) /\ Goto(o, "delServer")

DeleteNetwork(o) ==
    /\ At(o, "delNetwork")
    /\ UNCHANGED <<answered, blind, routerRequests>>
    /\ LET new == [router EXCEPT !.networks = @ \ {chain[o].segment.subnet}]
       IN  \/ Answers(new) /\ Goto(o, "delPool")
           \/ IgnoresUnnoticed(o, "delPool")
           \/ Raises(new) /\ chain' = [chain EXCEPT ![o].step = "delServer", ![o].failed = TRUE]

DeletePool(o) ==
    /\ At(o, "delPool")
    /\ UNCHANGED <<answered, blind, routerRequests>>
    /\ LET new == [router EXCEPT !.pools = @ \ Named(chain[o].segment.name)]
       IN  \/ Answers(new) /\ Goto(o, "delServer")
           \/ IgnoresUnnoticed(o, "delServer")
           \/ Raises(new) /\ chain' = [chain EXCEPT ![o].step = "delServer", ![o].failed = TRUE]

\* A call of delete_vlan_segment.
DeleteCall(o, new, step) ==
    /\ UNCHANGED <<blind, routerRequests>>
    /\ \/ Answers(new) /\ Continue(o, step)
       \/ Ignores /\ Continue(o, step)
       \/ Raises(new) /\ EndChain(o, TRUE)

DeleteServer(o) ==
    /\ At(o, "delServer")
    /\ DeleteCall(o, [router EXCEPT !.servers = @ \ Serves(chain[o].segment.vlan)], "delAddress")

DeleteAddress(o) ==
    /\ At(o, "delAddress")
    /\ DeleteCall(o, [router EXCEPT !.addresses =
          {a \in @ : a.vlan # chain[o].segment.vlan}], "delVlan")

DeleteInterface(o) ==
    /\ At(o, "delVlan")
    /\ DeleteCall(o, [router EXCEPT !.vlans = @ \ {chain[o].segment.vlan}], "readBack")

\* What delete_vlan_segment reads back: anything that bears the name of the VLAN.
Leftover(v) ==
    \/ Serves(v) # {}
    \/ \E a \in router.addresses : a.vlan = v
    \/ v \in router.vlans

ReadBack(o) ==
    /\ At(o, "readBack")
    /\ UNCHANGED <<blind, routerRequests>>
    /\ \/ Answers(router) /\ EndChain(o, Leftover(chain[o].segment.vlan))
       \/ Raises(router) /\ EndChain(o, TRUE)

RouterStep(o) ==
    \/ Connect(o)
    \/ GuardNetworks(o) \/ GuardServers(o) \/ GuardPools(o)
    \/ ClearNetworks(o) \/ ClearPools(o)
    \/ CreatePool(o) \/ CreateNetwork(o) \/ ConfirmDhcp(o)
    \/ FindUplink(o) \/ CreateInterface(o) \/ CreateAddress(o) \/ CreateServer(o)
    \/ DeleteNetwork(o) \/ DeletePool(o)
    \/ DeleteServer(o) \/ DeleteAddress(o) \/ DeleteInterface(o) \/ ReadBack(o)

\* The inventory does not change.
RouterNext ==
    /\ UNCHANGED host
    /\ \E o \in RouterRequest :
          \/ \E s \in Segment, replace \in BOOLEAN, stitch \in BOOLEAN :
                BeginRequest(o, "provision", s, replace, stitch)
          \/ \E s \in Segment : BeginRequest(o, "deprovision", s, FALSE, FALSE)
          \/ RouterStep(o)

RouterSpec == RouterInit /\ [][RouterNext]_routerVars

-----------------------------------------------------------------------------

Managed ==
    /\ Mgmt \in router.networks
    /\ [name |-> Mgmt, subnet |-> Mgmt] \in router.pools
    /\ [vlan |-> Mgmt, pool |-> Mgmt] \in router.servers

\* The management network, its pool and its server survive every clear, whatever calls
\* raise and requests overlap, of a router that UAF knows by its address.  It may lose them
\* when a read of what must be protected failed, for the code goes on without that part,
\* and when the inventory gives a name for an address (ManagementNeverCleared).
ManagementKept == blind \/ host = "name" \/ Managed

\* "while NEVER removing the management-critical config" (mikrotik_driver.py:675-676): no
\* clear takes the management network, its pool or its server away, as long as every read
\* of what must be protected was answered.
ManagementNeverCleared == blind \/ Managed

Served(s) ==
    /\ s.vlan \in router.vlans
    /\ [vlan |-> s.vlan, subnet |-> s.subnet] \in router.addresses
    /\ Serves(s.vlan) = {[vlan |-> s.vlan, pool |-> s.name]}
    /\ Named(s.name) = {[name |-> s.name, subnet |-> s.subnet]}
    /\ s.subnet \in router.networks

\* A provision of the router that reported no failure, alone, on a router that had nothing
\* of these names, leaves a segment that hands out its own addresses: also when answers
\* were lost and the writes were confirmed by a read.
ProvisionedServes ==
    answered # NoAnswer /\ answered.kind = "provision" /\ answered.stitch /\ answered.clean
        => Served(answered.segment)

\* A de-provision of the router that reported no failure, alone, leaves nothing behind:
\* neither a server that would answer nor the pool and network it used, unless the router
\* ignored the removal of one of these two, which nothing reads back.
TeardownComplete ==
    answered # NoAnswer /\ answered.kind = "deprovision"
        => LET s == answered.segment
           IN  /\ ~Leftover(s.vlan)
               /\ Named(s.name) = {}
               /\ s.subnet \notin router.networks

=============================================================================
