------------------------- MODULE RestDriversProofs -------------------------
(***************************************************************************)
(* Theorems about the two devices that the backend configures over HTTP:   *)
(* the MikroTik router and the UniFi controller, for any requests and      *)
(* segments, any SSIDs and any number of failures. The two models share no *)
(* state.                                                                  *)
(***************************************************************************)
EXTENDS RouterConfig, WifiConfig, TLAPS

-----------------------------------------------------------------------------
(***************************************************************************)
(* The router: no clear takes the management network away.                 *)
(*                                                                         *)
(* ManagementKept speaks of the router alone and is not inductive: what a  *)
(* clear removes depends on what its chain has read three calls earlier.   *)
(* The invariant adds that a chain which has read a part of what must be   *)
(* protected holds the management's share of it, whatever the chains of    *)
(* other requests have done to the router since.                           *)
(***************************************************************************)

\* What a router has, where a request stands, and what it answers.
Configuration == [pools : SUBSET [name : PoolName, subnet : Subnet],
                  networks : SUBSET Subnet,
                  vlans : SUBSET RouterVlan,
                  addresses : SUBSET [vlan : RouterVlan, subnet : Subnet],
                  servers : SUBSET [vlan : RouterVlan, pool : PoolName]]

Step == {"idle"} \cup ProvisionSteps \cup DeprovisionSteps

Chain == [step : Step,
          kind : {"provision", "deprovision"}, segment : Segment,
          replace : BOOLEAN, stitch : BOOLEAN,
          keepNetworks : SUBSET Subnet, keepPools : SUBSET PoolName,
          failed : BOOLEAN, undisturbed : BOOLEAN, clean : BOOLEAN]

Answer == {NoAnswer} \cup [kind : {"provision", "deprovision"}, segment : Segment,
                           stitch : BOOLEAN, clean : BOOLEAN]

\* What the router must keep to stay reachable, and to serve its management network.
Kept(c) ==
    /\ Mgmt \in c.networks
    /\ [name |-> Mgmt, subnet |-> Mgmt] \in c.pools
    /\ [vlan |-> Mgmt, pool |-> Mgmt] \in c.servers

\* The steps that come after the networks, and after the servers, were read.
NetworksRead == {"guardServers", "guardPools", "clearNetworks", "clearPools"}
ServersRead == {"guardPools", "clearNetworks", "clearPools"}
Plain == Step \ NetworksRead

\* What a chain has read of what must be protected.
Guarded(c) ==
    /\ c.step \in NetworksRead => Mgmt \in c.keepNetworks
    /\ c.step \in ServersRead => Mgmt \in c.keepPools

\* Every read so far was answered, of a router known by its address.
Sighted == ~blind /\ host = "address"

\* The invariant.
RouterIInv ==
    /\ RouterTypeOK
    /\ Sighted => Kept(router) /\ \A o \in RouterRequest : Guarded(chain[o])

-----------------------------------------------------------------------------

\* The steps, told apart.
LEMMA PlainSteps ==
  /\ {"idle", "connect", "guardNetworks", "pool", "network", "confirm", "uplink", "vlan",
      "address", "server"} \subseteq Plain
  /\ DeprovisionSteps \subseteq Plain
  /\ ServersRead \subseteq NetworksRead
  /\ NetworksRead \subseteq Step
BY DEF Plain, Step, NetworksRead, ServersRead, ProvisionSteps, DeprovisionSteps

\* The type invariant in the words of this module.
LEMMA TypeInWords ==
  RouterTypeOK <=> /\ router \in Configuration
                   /\ host \in {"address", "name"}
                   /\ chain \in [RouterRequest -> Chain]
                   /\ answered \in Answer
                   /\ blind \in BOOLEAN
                   /\ routerRequests \in 0..MaxRouterRequests
                   /\ routerFaults \in 0..MaxRouterFaults
BY DEF RouterTypeOK, Configuration, Chain, Answer, Step

\* The names of a segment are among those of the router, and none is the management's.
LEMMA SegmentNames ==
  ASSUME NEW s \in Segment
  PROVE  /\ s.vlan \in RouterVlan /\ s.name \in PoolName /\ s.subnet \in Subnet
         /\ s.vlan # Mgmt /\ s.name # Mgmt /\ s.subnet # Mgmt
BY RouterAssumption DEF RouterVlan, PoolName, Subnet

\* The names of the management network are names.
LEMMA ManagementNames == Mgmt \in RouterVlan /\ Mgmt \in PoolName /\ Mgmt \in Subnet
BY DEF RouterVlan, PoolName, Subnet

\* A request that is not under way.
LEMMA NoChainFits == NoChain \in Chain /\ NoChain.step = "idle"
<1>1. (CHOOSE s \in Segment : TRUE) \in Segment
  BY RouterAssumption
<1> QED
  BY <1>1 DEF NoChain, Chain, Step

\* The first configuration has the management network, and no request is under way.
LEMMA RouterStarts == RouterInit => RouterIInv
<1> SUFFICES ASSUME RouterInit PROVE RouterIInv
  OBVIOUS
<1>1. router \in Configuration
  BY ManagementNames DEF RouterInit, Configuration
<1>2a. chain \in [RouterRequest -> Chain]
  BY NoChainFits DEF RouterInit
<1>2b. routerRequests \in 0..MaxRouterRequests /\ routerFaults \in 0..MaxRouterFaults
  BY RouterAssumption DEF RouterInit
<1>2c. answered \in Answer /\ blind \in BOOLEAN
  BY DEF RouterInit, Answer
<1>2d. host \in {"address", "name"}
  BY DEF RouterInit
<1>2. RouterTypeOK
  BY <1>1, <1>2a, <1>2b, <1>2c, <1>2d, TypeInWords
<1>3. Kept(router)
  BY DEF RouterInit, Kept
<1>4. \A o \in RouterRequest : Guarded(chain[o])
  BY NoChainFits DEF RouterInit, Guarded, NetworksRead, ServersRead
<1> QED
  BY <1>2, <1>3, <1>4 DEF RouterIInv

-----------------------------------------------------------------------------

\* A call that leaves the router as it was or makes it new, after which the chain stands
\* where nothing must have been read or with what it must have read.
LEMMA CallKeeps ==
  ASSUME RouterIInv, host' = host, NEW o \in RouterRequest, NEW c \in Chain, NEW new \in Configuration,
         Sighted => Guarded(c) /\ Kept(new),
         router' \in {router, new}, routerFaults' \in 0..MaxRouterFaults,
         chain' = [chain EXCEPT ![o] = c], answered' \in Answer,
         UNCHANGED <<blind, routerRequests>>
  PROVE  RouterIInv'
<1>1. RouterTypeOK'
  BY TypeInWords DEF RouterIInv, RouterTypeOK, Configuration, Chain, Answer, Step
<1>2. \A q \in RouterRequest : chain'[q] = IF q = o THEN c ELSE chain[q]
  BY TypeInWords DEF RouterIInv
<1>3. Sighted => Kept(router') /\ \A q \in RouterRequest : Guarded(chain'[q])
  BY <1>2 DEF RouterIInv
<1> QED
  BY <1>1, <1>3 DEF RouterIInv, Sighted, Kept, Guarded

\* What a call does to the router, in either outcome.
LEMMA Outcome ==
  ASSUME RouterIInv, NEW new, Answers(new) \/ Raises(new)
  PROVE  router' \in {router, new} /\ routerFaults' \in 0..MaxRouterFaults
<1>1. routerFaults \in 0..MaxRouterFaults
  BY TypeInWords DEF RouterIInv
<1>2. CASE Answers(new)
  BY <1>1, <1>2 DEF Answers
<1>3. CASE Raises(new)
  BY <1>1, <1>3, RouterAssumption DEF Raises
<1> QED
  BY <1>2, <1>3

\* Going on to a step keeps what the chain is; ending it leaves none and an answer.
LEMMA GoingOn ==
  ASSUME RouterIInv, host' = host, NEW o \in RouterRequest, NEW step \in Step, Continue(o, step)
  PROVE  \E c \in Chain :
            /\ chain' = [chain EXCEPT ![o] = c] /\ c.step = step
            /\ c.keepNetworks = chain[o].keepNetworks /\ c.keepPools = chain[o].keepPools
            /\ answered' \in Answer
<1> DEFINE c == [chain[o] EXCEPT !.step = step]
<1>1. chain[o] \in Chain /\ answered \in Answer /\ chain \in [RouterRequest -> Chain]
  BY TypeInWords DEF RouterIInv
<1>2. c \in Chain /\ c.step = step
      /\ c.keepNetworks = chain[o].keepNetworks /\ c.keepPools = chain[o].keepPools
  BY <1>1 DEF Chain
<1>3. chain' = [chain EXCEPT ![o] = c] /\ answered' \in Answer
  BY <1>1 DEF Continue, Goto
<1> QED
  BY <1>2, <1>3

\* A request ends.
LEMMA Ending ==
  ASSUME RouterIInv, host' = host, NEW o \in RouterRequest, NEW failed \in BOOLEAN, EndChain(o, failed)
  PROVE  chain' = [chain EXCEPT ![o] = NoChain] /\ answered' \in Answer
<1>1. chain[o] \in Chain
  BY TypeInWords DEF RouterIInv
<1> QED
  BY <1>1 DEF EndChain, Answer, Chain

\* A call after which the chain ends, or goes on to a step before which nothing is read.
LEMMA PlainCallKeeps ==
  ASSUME RouterIInv, host' = host, NEW o \in RouterRequest, NEW new \in Configuration,
         Sighted => Kept(new),
         router' \in {router, new}, routerFaults' \in 0..MaxRouterFaults,
         \/ \E step \in Plain : Continue(o, step)
         \/ \E failed \in BOOLEAN : EndChain(o, failed),
         UNCHANGED <<blind, routerRequests>>
  PROVE  RouterIInv'
<1>1. ASSUME NEW step \in Plain, Continue(o, step)
      PROVE  RouterIInv'
  <2>1. step \in Step
    BY DEF Plain
  <2>2. PICK c \in Chain : /\ chain' = [chain EXCEPT ![o] = c] /\ c.step = step
                           /\ answered' \in Answer
    BY <1>1, <2>1, GoingOn
  <2>3. Guarded(c)
    BY <2>2, PlainSteps DEF Guarded, Plain
  <2> QED
    BY <2>2, <2>3, CallKeeps
<1>2. ASSUME NEW failed \in BOOLEAN, EndChain(o, failed)
      PROVE  RouterIInv'
  <2>1. chain' = [chain EXCEPT ![o] = NoChain] /\ answered' \in Answer
    BY <1>2, Ending
  <2>2. NoChain \in Chain /\ Guarded(NoChain)
    BY NoChainFits DEF Guarded, NetworksRead, ServersRead
  <2> QED
    BY <2>1, <2>2, CallKeeps
<1> QED
  BY <1>1, <1>2

-----------------------------------------------------------------------------

\* A request begins: every other one keeps what it has read.
LEMMA BeginKeeps ==
  ASSUME RouterIInv, host' = host, NEW o \in RouterRequest, NEW kind \in {"provision", "deprovision"},
         NEW s \in Segment, NEW replace \in BOOLEAN, NEW stitch \in BOOLEAN,
         BeginRequest(o, kind, s, replace, stitch)
  PROVE  RouterIInv'
<1> DEFINE clean == Serves(s.vlan) = {} /\ Named(s.name) = {}
           quiet == \A q \in RouterRequest : At(q, "idle")
           c == [NoChain EXCEPT !.step = "connect", !.kind = kind, !.segment = s,
                                !.replace = replace, !.stitch = stitch, !.undisturbed = quiet,
                                !.clean = clean]
<1>1. c \in Chain /\ c.step = "connect"
  <2>1. clean \in BOOLEAN /\ quiet \in BOOLEAN
    OBVIOUS
  <2>2. "connect" \in Step
    BY DEF Step, ProvisionSteps
  <2>3. NoChain \in Chain
    BY NoChainFits
  <2> HIDE DEF clean, quiet
  <2> QED
    BY <2>1, <2>2, <2>3 DEF Chain
<1>2. \A q \in RouterRequest :
          chain'[q] = IF q = o THEN c ELSE [chain[q] EXCEPT !.undisturbed = FALSE]
  BY DEF BeginRequest
<1>3. \A q \in RouterRequest : q # o =>
          /\ chain'[q] \in Chain
          /\ Guarded(chain[q]) => Guarded(chain'[q])
  <2> SUFFICES ASSUME NEW q \in RouterRequest, q # o
               PROVE  chain'[q] \in Chain /\ (Guarded(chain[q]) => Guarded(chain'[q]))
    OBVIOUS
  <2>1. chain[q] \in Chain
    BY TypeInWords DEF RouterIInv
  <2>2. chain'[q] = [chain[q] EXCEPT !.undisturbed = FALSE]
    BY <1>2
  <2> QED
    BY <2>1, <2>2 DEF Chain, Guarded
<1>4. chain' \in [RouterRequest -> Chain]
  <2>1. chain' = [q \in RouterRequest |-> chain'[q]]
    BY DEF BeginRequest
  <2> QED
    BY <1>1, <1>2, <1>3, <2>1
<1>5. routerRequests' \in 0..MaxRouterRequests
  <2>1. routerRequests \in 0..MaxRouterRequests
    BY TypeInWords DEF RouterIInv
  <2>2. routerRequests < MaxRouterRequests /\ routerRequests' = routerRequests + 1
    BY DEF BeginRequest
  <2> QED
    BY <2>1, <2>2, RouterAssumption
<1>6. answered' \in Answer /\ UNCHANGED <<router, blind, routerFaults>>
  BY DEF BeginRequest, Answer
<1>7. RouterTypeOK'
  BY <1>4, <1>5, <1>6, TypeInWords
  DEF RouterIInv, RouterTypeOK, Configuration, Chain, Answer, Step
<1>8. Guarded(c)
  BY <1>1 DEF Guarded, NetworksRead, ServersRead
<1>9. Sighted => Kept(router) /\ \A q \in RouterRequest : Guarded(chain'[q])
  BY <1>2, <1>3, <1>8 DEF RouterIInv
<1> QED
  BY <1>6, <1>7, <1>9 DEF RouterIInv, Sighted, Kept, Guarded

\* Connecting changes nothing on the router.
LEMMA ConnectKeeps ==
  ASSUME RouterIInv, host' = host, NEW o \in RouterRequest, Connect(o)
  PROVE  RouterIInv'
<1>1. router \in Configuration /\ (Sighted => Kept(router))
  BY TypeInWords DEF RouterIInv
<1>2. router' \in {router, router} /\ routerFaults' \in 0..MaxRouterFaults
  BY Outcome DEF Connect
<1>3. \/ \E step \in Plain : Continue(o, step)
      \/ \E failed \in BOOLEAN : EndChain(o, failed)
  <2>1. {"delNetwork", "guardNetworks", "pool"} \subseteq Plain
    BY PlainSteps DEF DeprovisionSteps
  <2> QED
    BY <2>1 DEF Connect
<1> QED
  BY <1>1, <1>2, <1>3, PlainCallKeeps DEF Connect

\* A read adds what it found, and the management's share is in it.
LEMMA GuardsKeep ==
  ASSUME RouterIInv, host' = host, NEW o \in RouterRequest,
         NEW networks \in SUBSET Subnet, NEW pools \in SUBSET PoolName,
         NEW step \in NetworksRead, Guards(o, networks, pools, step),
         Sighted => /\ Mgmt \in chain[o].keepNetworks \cup networks
                    /\ step \in ServersRead => Mgmt \in chain[o].keepPools \cup pools
  PROVE  RouterIInv'
<1>1. /\ chain[o] \in Chain /\ chain \in [RouterRequest -> Chain]
      /\ router \in Configuration /\ answered \in Answer
      /\ step \in Step
  BY TypeInWords, PlainSteps DEF RouterIInv
<1>2. ASSUME Answers(router), UNCHANGED blind,
             chain' = [chain EXCEPT ![o].step = step, ![o].keepNetworks = @ \cup networks,
                                    ![o].keepPools = @ \cup pools]
      PROVE  RouterIInv'
  <2> DEFINE c == [chain[o] EXCEPT !.step = step,
                                   !.keepNetworks = chain[o].keepNetworks \cup networks,
                                   !.keepPools = chain[o].keepPools \cup pools]
  <2>1. /\ c \in Chain /\ c.step = step
        /\ c.keepNetworks = chain[o].keepNetworks \cup networks
        /\ c.keepPools = chain[o].keepPools \cup pools
    BY <1>1 DEF Chain
  <2>2. chain' = [chain EXCEPT ![o] = c]
    BY <1>1, <1>2
  <2>3. Sighted => Guarded(c) /\ Kept(router)
    <3> SUFFICES ASSUME Sighted PROVE Guarded(c) /\ Kept(router)
      OBVIOUS
    <3>1. Kept(router) /\ step \in NetworksRead
      BY DEF RouterIInv
    <3> HIDE DEF c
    <3> QED
      BY <2>1, <3>1 DEF Guarded
  <2>4. router' \in {router, router} /\ routerFaults' \in 0..MaxRouterFaults
    BY <1>2, Outcome
  <2>5. answered' \in Answer /\ UNCHANGED routerRequests
    BY <1>1 DEF Guards
  <2> HIDE DEF c
  <2> QED
    BY <1>1, <1>2, <2>1, <2>2, <2>3, <2>4, <2>5, CallKeeps
<1>3. ASSUME Raises(router), Goto(o, step), blind' = TRUE
      PROVE  RouterIInv'
  <2> DEFINE c == [chain[o] EXCEPT !.step = step]
  <2>1. c \in Chain
    BY <1>1 DEF Chain
  <2>2. chain' = [chain EXCEPT ![o] = c]
    BY <1>1, <1>3 DEF Goto
  <2>3. chain' \in [RouterRequest -> Chain]
    BY <1>1, <2>1, <2>2
  <2>4. router' \in {router, router} /\ routerFaults' \in 0..MaxRouterFaults
    BY <1>3, Outcome
  <2>5. answered' \in Answer /\ UNCHANGED routerRequests
    BY <1>1 DEF Guards
  <2>6. RouterTypeOK'
    BY <1>1, <1>3, <2>3, <2>4, <2>5, TypeInWords
    DEF RouterIInv, RouterTypeOK, Configuration, Chain, Answer, Step
  <2> QED
    BY <1>3, <2>6 DEF RouterIInv, Sighted
<1> QED
  BY <1>2, <1>3 DEF Guards

\* The three reads of _protected_dhcp.
LEMMA GuardStepsKeep ==
  ASSUME RouterIInv, host' = host, NEW o \in RouterRequest,
         GuardNetworks(o) \/ GuardServers(o) \/ GuardPools(o)
  PROVE  RouterIInv'
<1>1. /\ chain[o] \in Chain /\ router \in Configuration
      /\ Sighted => Kept(router) /\ Guarded(chain[o])
  BY TypeInWords DEF RouterIInv
<1>2. /\ chain[o].segment \in Segment
      /\ chain[o].segment.subnet \in Subnet /\ chain[o].segment.name \in PoolName
  BY <1>1, SegmentNames DEF Chain
<1>3. CASE GuardNetworks(o)
  <2> DEFINE networks == {chain[o].segment.subnet} \cup (router.networks \cap {Mgmt})
  <2>1. networks \in SUBSET Subnet /\ (Sighted => Mgmt \in networks)
    BY <1>1, <1>2 DEF Configuration, Kept
  <2>2. "guardServers" \in NetworksRead /\ "guardServers" \notin ServersRead
    BY DEF NetworksRead, ServersRead
  <2>3. CASE GuardsNothing(o)
    <3>1. /\ ~Sighted /\ router' \in {router, router} /\ routerFaults' \in 0..MaxRouterFaults
          /\ UNCHANGED <<blind, routerRequests>>
      BY <2>3, Outcome DEF GuardsNothing, Sighted
    <3>2. Continue(o, "clearNetworks") /\ "clearNetworks" \in Step
      BY <2>3 DEF GuardsNothing, Continue, Step, ProvisionSteps
    <3>3. PICK c \in Chain : chain' = [chain EXCEPT ![o] = c] /\ answered' \in Answer
      BY <3>2, GoingOn
    <3> QED
      BY <1>1, <3>1, <3>3, CallKeeps
  <2> QED
    BY <1>3, <2>1, <2>2, <2>3, GuardsKeep DEF GuardNetworks
<1>4. CASE GuardServers(o)
  <2> DEFINE pools == {chain[o].segment.name} \cup {s.pool : s \in router.servers}
  <2>1. pools \in SUBSET PoolName
    BY <1>1, <1>2 DEF Configuration
  <2>2. Sighted => Mgmt \in pools /\ Mgmt \in chain[o].keepNetworks
    BY <1>1, <1>4 DEF Kept, Guarded, GuardServers, At, NetworksRead
  <2>3. "guardPools" \in NetworksRead
    BY DEF NetworksRead
  <2> QED
    BY <1>4, <2>1, <2>2, <2>3, GuardsKeep DEF GuardServers
<1>5. CASE GuardPools(o)
  <2> DEFINE pools == {p.name : p \in {q \in router.pools :
                                   q.subnet \in chain[o].keepNetworks \cap {Mgmt}}}
  <2>1. pools \in SUBSET PoolName
    BY <1>1 DEF Configuration
  <2>2. Sighted => Mgmt \in chain[o].keepPools /\ Mgmt \in chain[o].keepNetworks
    BY <1>1, <1>5 DEF Guarded, GuardPools, At, NetworksRead, ServersRead
  <2>3. "clearNetworks" \in NetworksRead
    BY DEF NetworksRead
  <2> QED
    BY <1>5, <2>1, <2>2, <2>3, GuardsKeep DEF GuardPools
<1> QED
  BY <1>3, <1>4, <1>5

\* A clear of the networks that keeps the management's, however far it came.
LEMMA ClearNetworksKeeps ==
  ASSUME RouterIInv, host' = host, NEW o \in RouterRequest, ClearNetworks(o)
  PROVE  RouterIInv'
<1> DEFINE kept == router.networks \cap (chain[o].keepNetworks \cup {chain[o].segment.subnet})
<1>1. /\ chain[o] \in Chain /\ router \in Configuration
      /\ Sighted => Kept(router) /\ Guarded(chain[o])
      /\ At(o, "clearNetworks")
  BY TypeInWords DEF RouterIInv, ClearNetworks
<1>2. PICK left \in SUBSET (router.networks \ kept) :
          \/ Answers([router EXCEPT !.networks = kept \cup left]) /\ Continue(o, "clearPools")
          \/ Raises([router EXCEPT !.networks = kept \cup left]) /\ Continue(o, "clearPools")
          \/ Raises(router) /\ EndChain(o, TRUE)
  <2>1. kept \cup {} = kept /\ {} \in SUBSET (router.networks \ kept)
    OBVIOUS
  <2> QED
    BY <2>1 DEF ClearNetworks
<1> DEFINE new == [router EXCEPT !.networks = kept \cup left]
<1>3. new \in Configuration
  BY <1>1, <1>2 DEF Configuration
<1>4. Sighted => Kept(new) /\ Mgmt \in chain[o].keepNetworks /\ Mgmt \in chain[o].keepPools
  BY <1>1 DEF Kept, Guarded, At, NetworksRead, ServersRead, Configuration
<1> HIDE DEF new, kept
<1>5. ASSUME Answers(new) \/ Raises(new), Continue(o, "clearPools")
      PROVE  RouterIInv'
  <2>1. "clearPools" \in Step
    BY DEF Step, ProvisionSteps
  <2>2. PICK c \in Chain :
            /\ chain' = [chain EXCEPT ![o] = c] /\ c.step = "clearPools"
            /\ c.keepNetworks = chain[o].keepNetworks /\ c.keepPools = chain[o].keepPools
            /\ answered' \in Answer
    BY <1>5, <2>1, GoingOn
  <2>3. Sighted => Guarded(c)
    BY <1>4, <2>2 DEF Guarded
  <2>4. router' \in {router, new} /\ routerFaults' \in 0..MaxRouterFaults
    BY <1>5, Outcome
  <2> QED
    BY <1>3, <1>4, <2>2, <2>3, <2>4, CallKeeps DEF ClearNetworks
<1>6. ASSUME Raises(router), EndChain(o, TRUE)
      PROVE  RouterIInv'
  BY <1>1, <1>6, Outcome, PlainCallKeeps DEF ClearNetworks
<1> QED
  BY <1>2, <1>5, <1>6 DEF new

\* A clear of the pools, as well.
LEMMA ClearPoolsKeeps ==
  ASSUME RouterIInv, host' = host, NEW o \in RouterRequest, ClearPools(o)
  PROVE  RouterIInv'
<1> DEFINE kept == {p \in router.pools :
                       p.name \in chain[o].keepPools \cup {chain[o].segment.name}}
<1>1. /\ chain[o] \in Chain /\ router \in Configuration
      /\ Sighted => Kept(router) /\ Guarded(chain[o])
      /\ At(o, "clearPools")
  BY TypeInWords DEF RouterIInv, ClearPools
<1>2. PICK left \in SUBSET (router.pools \ kept) :
          \/ Answers([router EXCEPT !.pools = kept \cup left]) /\ Continue(o, "pool")
          \/ Raises([router EXCEPT !.pools = kept \cup left]) /\ Continue(o, "pool")
          \/ Raises(router) /\ EndChain(o, TRUE)
  <2>1. kept \cup {} = kept /\ {} \in SUBSET (router.pools \ kept)
    OBVIOUS
  <2> QED
    BY <2>1 DEF ClearPools
<1> DEFINE new == [router EXCEPT !.pools = kept \cup left]
<1>3. new \in Configuration
  BY <1>1, <1>2 DEF Configuration
<1>4. Sighted => Kept(new)
  BY <1>1 DEF Kept, Guarded, At, NetworksRead, ServersRead, Configuration
<1> HIDE DEF new, kept
<1>5. "pool" \in Plain
  BY PlainSteps
<1>6. ASSUME Answers(new) \/ Raises(new), Continue(o, "pool")
      PROVE  RouterIInv'
  BY <1>3, <1>4, <1>5, <1>6, Outcome, PlainCallKeeps DEF ClearPools
<1>7. ASSUME Raises(router), EndChain(o, TRUE)
      PROVE  RouterIInv'
  BY <1>1, <1>7, Outcome, PlainCallKeeps DEF ClearPools
<1> QED
  BY <1>2, <1>6, <1>7 DEF new

\* What provisioning adds takes nothing away.
LEMMA CreatesKeep ==
  ASSUME RouterIInv, host' = host, NEW o \in RouterRequest,
         \/ CreatePool(o) \/ CreateNetwork(o) \/ ConfirmDhcp(o)
         \/ FindUplink(o) \/ CreateInterface(o) \/ CreateAddress(o) \/ CreateServer(o)
  PROVE  RouterIInv'
<1> DEFINE s == chain[o].segment
<1>1. router \in Configuration /\ (Sighted => Kept(router))
  BY TypeInWords DEF RouterIInv
<1>2. s \in Segment /\ s.vlan \in RouterVlan /\ s.name \in PoolName /\ s.subnet \in Subnet
  <2>1. chain[o] \in Chain
    BY TypeInWords DEF RouterIInv
  <2>2. s \in Segment
    BY <2>1 DEF Chain
  <2> QED
    BY <2>2, SegmentNames
<1>3. {"network", "confirm", "uplink", "vlan", "address", "server"} \subseteq Plain
  BY PlainSteps
<1>4. ASSUME AfterDhcp(o)
      PROVE  \/ \E step \in Plain : Continue(o, step)
             \/ \E failed \in BOOLEAN : EndChain(o, failed)
  BY <1>3, <1>4 DEF AfterDhcp
<1>5. ASSUME NEW new \in Configuration, NEW allowed \in BOOLEAN,
             NEW step \in Plain, SegmentCall(o, new, allowed, step),
             Sighted => Kept(new)
      PROVE  RouterIInv'
  <2>1. UNCHANGED <<blind, routerRequests>>
    BY <1>5 DEF SegmentCall
  <2>2. \/ Answers(new) /\ (EndChain(o, FALSE) \/ Continue(o, step))
        \/ Raises(new) /\ EndChain(o, TRUE)
        \/ Answers(router) /\ EndChain(o, TRUE)
    BY <1>5 DEF SegmentCall
  <2>3. CASE Answers(router) /\ EndChain(o, TRUE)
    BY <1>1, <2>1, <2>3, Outcome, PlainCallKeeps
  <2>4. CASE Raises(new) /\ EndChain(o, TRUE)
    BY <1>5, <2>1, <2>4, Outcome, PlainCallKeeps
  <2>5. CASE Answers(new) /\ (EndChain(o, FALSE) \/ Continue(o, step))
    BY <1>5, <2>1, <2>5, Outcome, PlainCallKeeps
  <2> QED
    BY <2>2, <2>3, <2>4, <2>5
<1>6. CASE CreatePool(o)
  <2> DEFINE new == IF Named(s.name) # {} THEN router
                    ELSE [router EXCEPT !.pools =
                             router.pools \cup {[name |-> s.name, subnet |-> s.subnet]}]
  <2>1. new \in Configuration /\ (Sighted => Kept(new))
    BY <1>1, <1>2 DEF Configuration, Kept
  <2>2. \/ Answers(new) /\ Continue(o, "network")
        \/ Raises(new) /\ Continue(o, "confirm")
    BY <1>6 DEF CreatePool
  <2> HIDE DEF new
  <2> QED
    BY <1>3, <1>6, <2>1, <2>2, Outcome, PlainCallKeeps DEF CreatePool
<1>7. CASE CreateNetwork(o)
  <2> DEFINE new == [router EXCEPT !.networks = router.networks \cup {s.subnet}]
  <2>1. new \in Configuration /\ (Sighted => Kept(new))
    BY <1>1, <1>2 DEF Configuration, Kept
  <2>2. \/ Answers(new) /\ AfterDhcp(o)
        \/ Raises(new) /\ Continue(o, "confirm")
    BY <1>7 DEF CreateNetwork
  <2> HIDE DEF new
  <2> QED
    BY <1>3, <1>4, <1>7, <2>1, <2>2, Outcome, PlainCallKeeps DEF CreateNetwork
<1>8. CASE ConfirmDhcp(o)
  BY <1>1, <1>4, <1>8, Outcome, PlainCallKeeps DEF ConfirmDhcp
<1>9. CASE FindUplink(o)
  <2> DEFINE allowed == /\ host = "address"
                        /\ [vlan |-> Mgmt, subnet |-> Mgmt] \in router.addresses
  <2>1. allowed \in BOOLEAN /\ SegmentCall(o, router, allowed, "vlan")
    BY <1>9 DEF FindUplink
  <2> HIDE DEF allowed
  <2> QED
    BY <1>1, <1>3, <1>5, <2>1
<1>10. CASE CreateInterface(o)
  <2> DEFINE new == [router EXCEPT !.vlans = router.vlans \cup {s.vlan}]
  <2>1. new \in Configuration /\ (Sighted => Kept(new))
    BY <1>1, <1>2 DEF Configuration, Kept
  <2>2. SegmentCall(o, new, TRUE, "address")
    BY <1>10 DEF CreateInterface
  <2> HIDE DEF new
  <2> QED
    BY <1>3, <1>5, <2>1, <2>2
<1>11. CASE CreateAddress(o)
  <2> DEFINE new == [router EXCEPT !.addresses =
                        router.addresses \cup {[vlan |-> s.vlan, subnet |-> s.subnet]}]
             allowed == s.vlan \in router.vlans
  <2>1. new \in Configuration /\ (Sighted => Kept(new)) /\ allowed \in BOOLEAN
    BY <1>1, <1>2 DEF Configuration, Kept
  <2>2. SegmentCall(o, new, allowed, "server")
    BY <1>11 DEF CreateAddress
  <2> HIDE DEF new, allowed
  <2> QED
    BY <1>3, <1>5, <2>1, <2>2
<1>12. CASE CreateServer(o)
  <2> DEFINE new == IF Serves(s.vlan) # {} THEN router
                    ELSE [router EXCEPT !.servers =
                             router.servers \cup {[vlan |-> s.vlan, pool |-> s.name]}]
             allowed == \/ Serves(s.vlan) # {}
                        \/ s.vlan \in router.vlans /\ Named(s.name) # {}
  <2>1. new \in Configuration /\ (Sighted => Kept(new)) /\ allowed \in BOOLEAN
    BY <1>1, <1>2 DEF Configuration, Kept
  <2>2. SegmentCall(o, new, allowed, "idle")
    BY <1>12 DEF CreateServer
  <2>3. "idle" \in Plain
    BY PlainSteps
  <2> HIDE DEF new, allowed
  <2> QED
    BY <1>5, <2>1, <2>2, <2>3
<1> QED
  BY <1>6, <1>7, <1>8, <1>9, <1>10, <1>11, <1>12

\* What de-provisioning takes away bears the names of its segment.
LEMMA DeletesKeep ==
  ASSUME RouterIInv, host' = host, NEW o \in RouterRequest,
         \/ DeleteNetwork(o) \/ DeletePool(o)
         \/ DeleteServer(o) \/ DeleteAddress(o) \/ DeleteInterface(o) \/ ReadBack(o)
  PROVE  RouterIInv'
<1> DEFINE s == chain[o].segment
<1>1. /\ router \in Configuration /\ (Sighted => Kept(router))
      /\ chain[o] \in Chain /\ chain \in [RouterRequest -> Chain] /\ answered \in Answer
      /\ routerFaults \in 0..MaxRouterFaults
  BY TypeInWords DEF RouterIInv
<1>2. s.vlan # Mgmt /\ s.name # Mgmt /\ s.subnet # Mgmt
  <2>1. s \in Segment
    BY <1>1 DEF Chain
  <2> QED
    BY <2>1, SegmentNames
<1>3. {"delPool", "delServer", "delAddress", "delVlan", "readBack"} \subseteq Plain
  BY PlainSteps DEF DeprovisionSteps
\* The two deletions that go on to the server after one that raised.
<1>4. ASSUME NEW new \in Configuration, Sighted => Kept(new), NEW step \in Plain,
             UNCHANGED <<answered, blind, routerRequests>>,
             \/ Answers(new) /\ Goto(o, step)
             \/ IgnoresUnnoticed(o, step)
             \/ /\ Raises(new)
                /\ chain' = [chain EXCEPT ![o].step = "delServer", ![o].failed = TRUE]
      PROVE  RouterIInv'
  <2>1. router' \in {router, new} /\ routerFaults' \in 0..MaxRouterFaults
    <3>1. CASE IgnoresUnnoticed(o, step)
      BY <1>1, <3>1, RouterAssumption DEF IgnoresUnnoticed, Ignores
    <3> QED
      BY <1>4, <3>1, Outcome
  <2>2. CASE Goto(o, step)
    BY <1>4, <2>1, <2>2, PlainCallKeeps DEF Continue
  <2>3. CASE chain' = [chain EXCEPT ![o].step = "delServer", ![o].failed = TRUE]
    <3> DEFINE c == [chain[o] EXCEPT !.step = "delServer", !.failed = TRUE]
    <3>1. c \in Chain /\ c.step = "delServer"
      BY <1>1 DEF Chain, Step, DeprovisionSteps
    <3>2. Guarded(c)
      BY <3>1 DEF Guarded, NetworksRead, ServersRead
    <3>3. chain' = [chain EXCEPT ![o] = c] /\ answered' \in Answer
      BY <1>1, <1>4, <2>3
    <3> HIDE DEF c
    <3> QED
      BY <1>4, <2>1, <3>1, <3>2, <3>3, CallKeeps
  <2>4. CASE IgnoresUnnoticed(o, step)
    <3> DEFINE c == [chain[o] EXCEPT !.step = step, !.undisturbed = FALSE]
    <3>1. step \in Step
      BY DEF Plain
    <3>2. c \in Chain /\ c.step = step
      BY <1>1, <3>1 DEF Chain
    <3>3. Guarded(c)
      BY <3>2, PlainSteps DEF Guarded, Plain
    <3>4. chain' = [chain EXCEPT ![o] = c] /\ answered' \in Answer
      BY <1>1, <1>4, <2>4 DEF IgnoresUnnoticed
    <3> HIDE DEF c
    <3> QED
      BY <1>4, <2>1, <3>2, <3>3, <3>4, CallKeeps
  <2> QED
    BY <1>4, <2>2, <2>3, <2>4
<1>5. ASSUME NEW new \in Configuration, Sighted => Kept(new), NEW step \in Plain,
             DeleteCall(o, new, step)
      PROVE  RouterIInv'
  <2>1. UNCHANGED <<blind, routerRequests>>
    BY <1>5 DEF DeleteCall
  <2>2. \/ Answers(new) /\ Continue(o, step)
        \/ Ignores /\ Continue(o, step)
        \/ Raises(new) /\ EndChain(o, TRUE)
    BY <1>5 DEF DeleteCall
  <2>3. router' \in {router, new} /\ routerFaults' \in 0..MaxRouterFaults
    <3>1. CASE Ignores
      BY <1>1, <3>1, RouterAssumption DEF Ignores
    <3> QED
      BY <2>2, <3>1, Outcome
  <2> QED
    BY <1>5, <2>1, <2>2, <2>3, PlainCallKeeps
<1>6. CASE DeleteNetwork(o)
  <2> DEFINE new == [router EXCEPT !.networks = router.networks \ {s.subnet}]
  <2>1. new \in Configuration /\ (Sighted => Kept(new))
    BY <1>1, <1>2 DEF Configuration, Kept
  <2>2. \/ Answers(new) /\ Goto(o, "delPool")
        \/ IgnoresUnnoticed(o, "delPool")
        \/ /\ Raises(new)
           /\ chain' = [chain EXCEPT ![o].step = "delServer", ![o].failed = TRUE]
    BY <1>6 DEF DeleteNetwork
  <2> HIDE DEF new
  <2> QED
    BY <1>3, <1>4, <1>6, <2>1, <2>2 DEF DeleteNetwork
<1>7. CASE DeletePool(o)
  <2> DEFINE new == [router EXCEPT !.pools = router.pools \ Named(s.name)]
  <2>1. new \in Configuration /\ (Sighted => Kept(new))
    BY <1>1, <1>2 DEF Configuration, Kept, Named
  <2>2. \/ Answers(new) /\ Goto(o, "delServer")
        \/ IgnoresUnnoticed(o, "delServer")
        \/ /\ Raises(new)
           /\ chain' = [chain EXCEPT ![o].step = "delServer", ![o].failed = TRUE]
    BY <1>7 DEF DeletePool
  <2> HIDE DEF new
  <2> QED
    BY <1>3, <1>4, <1>7, <2>1, <2>2 DEF DeletePool
<1>8. CASE DeleteServer(o)
  <2> DEFINE new == [router EXCEPT !.servers = router.servers \ Serves(s.vlan)]
  <2>1. new \in Configuration /\ (Sighted => Kept(new))
    BY <1>1, <1>2 DEF Configuration, Kept, Serves
  <2>2. DeleteCall(o, new, "delAddress")
    BY <1>8 DEF DeleteServer
  <2> HIDE DEF new
  <2> QED
    BY <1>3, <1>5, <2>1, <2>2
<1>9. CASE DeleteAddress(o)
  <2> DEFINE new == [router EXCEPT !.addresses = {a \in router.addresses : a.vlan # s.vlan}]
  <2>1. new \in Configuration /\ (Sighted => Kept(new))
    BY <1>1 DEF Configuration, Kept
  <2>2. DeleteCall(o, new, "delVlan")
    BY <1>9 DEF DeleteAddress
  <2> HIDE DEF new
  <2> QED
    BY <1>3, <1>5, <2>1, <2>2
<1>10. CASE DeleteInterface(o)
  <2> DEFINE new == [router EXCEPT !.vlans = router.vlans \ {s.vlan}]
  <2>1. new \in Configuration /\ (Sighted => Kept(new))
    BY <1>1 DEF Configuration, Kept
  <2>2. DeleteCall(o, new, "readBack")
    BY <1>10 DEF DeleteInterface
  <2> HIDE DEF new
  <2> QED
    BY <1>3, <1>5, <2>1, <2>2
<1>11. CASE ReadBack(o)
  <2>1. Leftover(s.vlan) \in BOOLEAN
    BY DEF Leftover
  <2> QED
    BY <1>1, <1>11, <2>1, Outcome, PlainCallKeeps DEF ReadBack
<1> QED
  BY <1>6, <1>7, <1>8, <1>9, <1>10, <1>11

\* Every step keeps the invariant.
LEMMA RouterStepKeeps == RouterIInv /\ [RouterNext]_routerVars => RouterIInv'
<1> SUFFICES ASSUME RouterIInv, [RouterNext]_routerVars
             PROVE  RouterIInv'
  OBVIOUS
<1>1. CASE UNCHANGED routerVars
  BY <1>1 DEF routerVars, RouterIInv, RouterTypeOK, Sighted, Kept, Guarded
<1>2. ASSUME host' = host, NEW o \in RouterRequest, RouterStep(o)
      PROVE  RouterIInv'
  BY <1>2, ConnectKeeps, GuardStepsKeep, ClearNetworksKeeps, ClearPoolsKeeps, CreatesKeep,
     DeletesKeep DEF RouterStep
<1> QED
  BY <1>1, <1>2, BeginKeeps DEF RouterNext

-----------------------------------------------------------------------------

\* The variables of the router's chains keep their types.
THEOREM RouterTypes == RouterSpec => []RouterTypeOK
<1>1. RouterIInv => RouterTypeOK
  BY DEF RouterIInv
<1> QED
  BY <1>1, RouterStarts, RouterStepKeeps, PTL DEF RouterSpec

\* The management network, its pool and its server survive any number of overlapping
\* requests and of calls that raise, as long as no read of what to protect failed.
THEOREM RouterManagementKept == RouterSpec => []ManagementKept
<1>1. RouterIInv => ManagementKept
  BY TypeInWords DEF RouterIInv, ManagementKept, Managed, Sighted, Kept
<1> QED
  BY <1>1, RouterStarts, RouterStepKeeps, PTL DEF RouterSpec

-----------------------------------------------------------------------------
(***************************************************************************)
(* The router: what an answer without a failure promises.                  *)
(*                                                                         *)
(* ProvisionedServes and TeardownComplete speak of the answer. AnswerIInv  *)
(* says what a request that is alone has made, or taken away, at each of   *)
(* its steps, also when the answer of a call was lost after it was carried *)
(* out.                                                                    *)
(***************************************************************************)

\* What a router has of the names of a segment.
NoServer(s, R) == \A x \in R.servers : x.vlan # s.vlan
NoPool(s, R) == \A p \in R.pools : p.name # s.name
OwnPoolOnly(s, R) == \A p \in R.pools : p.name = s.name => p = [name |-> s.name, subnet |-> s.subnet]

\* The steps of a provision before its pool is looked for, and after it, its network and
\* its interface are there.
BeforePool == {"connect", "guardNetworks", "guardServers", "guardPools", "clearNetworks",
               "clearPools", "pool"}
PoolMade == {"network", "uplink", "vlan", "address", "server"}
NetworkMade == {"uplink", "vlan", "address", "server"}
InterfaceMade == {"address", "server"}

\* What a provision of a segment whose names were free has made of the router when it
\* stands at a step, and what a de-provision has.
Reached(step, s, R) ==
    /\ step \in ProvisionSteps => NoServer(s, R) /\ OwnPoolOnly(s, R)
    /\ step \in BeforePool => NoPool(s, R)
    /\ step \in PoolMade => [name |-> s.name, subnet |-> s.subnet] \in R.pools
    /\ step \in NetworkMade => s.subnet \in R.networks
    /\ step \in InterfaceMade => s.vlan \in R.vlans
    /\ step = "server" => [vlan |-> s.vlan, subnet |-> s.subnet] \in R.addresses

Undone(step, s, R) ==
    /\ step \in DeprovisionSteps \ {"delNetwork"} => s.subnet \notin R.networks
    /\ step \in DeprovisionSteps \ {"delNetwork", "delPool"} => NoPool(s, R)

\* A request stands only at the steps of its kind.
OfKind(step, kind) ==
    /\ step \in ProvisionSteps \ {"connect"} => kind = "provision"
    /\ step \in DeprovisionSteps => kind = "deprovision"

\* What a request that is alone has made of the router.
ChainFits(c, R) ==
    /\ OfKind(c.step, c.kind)
    /\ c.kind = "provision" /\ c.clean => Reached(c.step, c.segment, R)
    /\ ~c.failed => Undone(c.step, c.segment, R)

\* What a request that ends without a failed step leaves, by what it asked for.
ServedBy(s, R) ==
    /\ s.vlan \in R.vlans
    /\ [vlan |-> s.vlan, subnet |-> s.subnet] \in R.addresses
    /\ {x \in R.servers : x.vlan = s.vlan} = {[vlan |-> s.vlan, pool |-> s.name]}
    /\ {p \in R.pools : p.name = s.name} = {[name |-> s.name, subnet |-> s.subnet]}
    /\ s.subnet \in R.networks

\* The router has nothing left of a segment.
GoneFrom(s, R) ==
    /\ NoServer(s, R) /\ NoPool(s, R)
    /\ \A a \in R.addresses : a.vlan # s.vlan
    /\ s.vlan \notin R.vlans /\ s.subnet \notin R.networks

\* What an answer without a failure promises.
EndsWell(a, R) ==
    /\ a.kind = "provision" /\ a.stitch /\ a.clean => ServedBy(a.segment, R)
    /\ a.kind = "deprovision" => GoneFrom(a.segment, R)

\* No request is under way.
NoRequest == \A q \in RouterRequest : chain[q].step = "idle"

\* The invariant: a request that is alone has done what its step tells, and an answer
\* without a failure is followed by nothing.
AnswerIInv ==
    /\ \A o \in RouterRequest : chain[o].undisturbed =>
          /\ \A q \in RouterRequest \ {o} : chain[q].step = "idle"
          /\ ChainFits(chain[o], router)
    /\ answered # NoAnswer => NoRequest /\ EndsWell(answered, router)

\* The invariant implies both properties.
LEMMA AnswersFit == AnswerIInv => ProvisionedServes /\ TeardownComplete
<1> SUFFICES ASSUME AnswerIInv, answered # NoAnswer, EndsWell(answered, router)
             PROVE  ProvisionedServes /\ TeardownComplete
  BY DEF AnswerIInv, ProvisionedServes, TeardownComplete
<1>1. ProvisionedServes
  BY DEF ProvisionedServes, EndsWell, Served, ServedBy, Serves, Named
<1>2. TeardownComplete
  BY DEF TeardownComplete, EndsWell, GoneFrom, NoServer, NoPool, Leftover, Serves, Named
<1> QED
  BY <1>1, <1>2

\* A step of the only chain under way, with what is left of it.
LEMMA AnswerKept ==
  ASSUME RouterTypeOK, AnswerIInv, NEW o \in RouterRequest, NEW c \in Chain,
         chain[o].step # "idle", chain' = [chain EXCEPT ![o] = c],
         c.undisturbed => chain[o].undisturbed /\ ChainFits(c, router'),
         \/ answered' = answered
         \/ answered' # NoAnswer =>
               chain[o].undisturbed /\ c.step = "idle" /\ EndsWell(answered', router')
  PROVE  AnswerIInv'
<1>1. \A q \in RouterRequest : chain'[q] = IF q = o THEN c ELSE chain[q]
  BY TypeInWords
<1>2. answered = NoAnswer
  BY DEF AnswerIInv, NoRequest
<1>3. \A q \in RouterRequest : chain'[q].undisturbed =>
          /\ \A r \in RouterRequest \ {q} : chain'[r].step = "idle"
          /\ ChainFits(chain'[q], router')
  BY <1>1 DEF AnswerIInv
<1>4. answered' # NoAnswer => NoRequest' /\ EndsWell(answered', router')
  <2> SUFFICES ASSUME answered' # NoAnswer PROVE NoRequest' /\ EndsWell(answered', router')
    OBVIOUS
  <2>1. chain[o].undisturbed /\ c.step = "idle" /\ EndsWell(answered', router')
    BY <1>2
  <2>2. \A q \in RouterRequest : chain'[q].step = "idle"
    BY <1>1, <2>1 DEF AnswerIInv
  <2> QED
    BY <2>1, <2>2 DEF NoRequest
<1> QED
  BY <1>3, <1>4 DEF AnswerIInv

\* A request goes on to its next step.
LEMMA AnswerGoesOn ==
  ASSUME RouterTypeOK, AnswerIInv, NEW o \in RouterRequest, NEW step \in Step,
         chain[o].step # "idle", Continue(o, step),
         chain[o].undisturbed => OfKind(step, chain[o].kind),
         chain[o].undisturbed /\ chain[o].kind = "provision" /\ chain[o].clean
             => Reached(step, chain[o].segment, router'),
         chain[o].undisturbed /\ ~chain[o].failed => Undone(step, chain[o].segment, router')
  PROVE  AnswerIInv'
<1> DEFINE c == [chain[o] EXCEPT !.step = step]
<1>1. chain[o] \in Chain /\ chain \in [RouterRequest -> Chain]
  BY TypeInWords
<1>2. /\ c \in Chain /\ c.step = step /\ c.kind = chain[o].kind /\ c.segment = chain[o].segment
      /\ c.clean = chain[o].clean /\ c.failed = chain[o].failed /\ c.undisturbed = chain[o].undisturbed
  BY <1>1 DEF Chain
<1>3. chain' = [chain EXCEPT ![o] = c] /\ answered' = answered
  BY <1>1 DEF Continue, Goto
<1> HIDE DEF c
<1>4. c.undisturbed => chain[o].undisturbed /\ ChainFits(c, router')
  BY <1>2 DEF ChainFits
<1> QED
  BY <1>2, <1>3, <1>4, AnswerKept

\* A request ends; one that is alone answers.
LEMMA AnswerEnds ==
  ASSUME RouterTypeOK, AnswerIInv, NEW o \in RouterRequest, NEW failed \in BOOLEAN,
         chain[o].step # "idle", EndChain(o, failed),
         chain[o].undisturbed /\ ~chain[o].failed /\ ~failed => EndsWell(chain[o], router')
  PROVE  AnswerIInv'
<1>1. chain[o] \in Chain /\ NoChain \in Chain /\ NoChain.step = "idle" /\ ~NoChain.undisturbed
  BY TypeInWords, NoChainFits DEF NoChain
<1> DEFINE a == [kind |-> chain[o].kind, segment |-> chain[o].segment,
                 stitch |-> chain[o].stitch, clean |-> chain[o].clean]
<1>2. chain' = [chain EXCEPT ![o] = NoChain]
  BY DEF EndChain
<1>3. \/ answered' = NoAnswer
      \/ chain[o].undisturbed /\ ~chain[o].failed /\ ~failed /\ answered' = a
  BY DEF EndChain
<1>4. EndsWell(chain[o], router') => EndsWell(a, router')
  BY DEF EndsWell
<1> HIDE DEF a
<1>5. answered' # NoAnswer => chain[o].undisturbed /\ NoChain.step = "idle" /\ EndsWell(answered', router')
  BY <1>1, <1>3, <1>4
<1> QED
  BY <1>1, <1>2, <1>5, AnswerKept

\* A request begins, alone or not.
LEMMA AnswerBegins ==
  ASSUME RouterTypeOK, AnswerIInv, NEW o \in RouterRequest,
         NEW kind \in {"provision", "deprovision"},
         NEW s \in Segment, NEW replace \in BOOLEAN, NEW stitch \in BOOLEAN,
         BeginRequest(o, kind, s, replace, stitch)
  PROVE  AnswerIInv'
<1> DEFINE clean == Serves(s.vlan) = {} /\ Named(s.name) = {}
           quiet == \A q \in RouterRequest : At(q, "idle")
           c == [NoChain EXCEPT !.step = "connect", !.kind = kind, !.segment = s,
                                !.replace = replace, !.stitch = stitch, !.undisturbed = quiet,
                                !.clean = clean]
<1>1. answered' = NoAnswer /\ router' = router
  BY DEF BeginRequest
<1>2. \A q \in RouterRequest :
          chain'[q] = IF q = o THEN c ELSE [chain[q] EXCEPT !.undisturbed = FALSE]
  BY DEF BeginRequest
<1>3. /\ c.step = "connect" /\ c.segment = s /\ c.kind = kind /\ ~c.failed
      /\ c.undisturbed = quiet /\ c.clean = clean
  <2>1. clean \in BOOLEAN /\ quiet \in BOOLEAN
    OBVIOUS
  <2> HIDE DEF clean, quiet
  <2> QED
    BY <2>1, NoChainFits DEF Chain, NoChain
<1> HIDE DEF c
<1>4. \A q \in RouterRequest \ {o} :
          /\ ~chain'[q].undisturbed
          /\ chain[q].step = "idle" => chain'[q].step = "idle"
  <2> SUFFICES ASSUME NEW q \in RouterRequest \ {o}
               PROVE  /\ ~chain'[q].undisturbed
                      /\ chain[q].step = "idle" => chain'[q].step = "idle"
    OBVIOUS
  <2>1. chain[q] \in Chain
    BY TypeInWords
  <2> QED
    BY <1>2, <2>1 DEF Chain
<1>5. ChainFits(c, router)
  <2>1. c.clean => NoServer(s, router) /\ NoPool(s, router)
    BY <1>3 DEF NoServer, NoPool, Serves, Named
  <2>2. c.clean => Reached("connect", s, router)
    BY <2>1 DEF Reached, BeforePool, PoolMade, NetworkMade, InterfaceMade, NoPool, OwnPoolOnly
  <2> QED
    BY <1>3, <2>2 DEF ChainFits, OfKind, Undone, DeprovisionSteps
<1>6. c.undisturbed => \A q \in RouterRequest \ {o} : chain'[q].step = "idle"
  BY <1>3, <1>4 DEF At
<1>7. chain'[o] = c
  BY <1>2
<1> QED
  BY <1>1, <1>4, <1>5, <1>6, <1>7 DEF AnswerIInv

\* A request that fails promises nothing.
LEMMA AnswerFails ==
  ASSUME RouterTypeOK, AnswerIInv, NEW o \in RouterRequest, chain[o].step # "idle",
         EndChain(o, TRUE)
  PROVE  AnswerIInv'
BY AnswerEnds

\* A provision that goes on, and a de-provision.
Making == ProvisionSteps \ {"connect"}

\* A provision goes on.
LEMMA MakingGoesOn ==
  ASSUME RouterTypeOK, AnswerIInv, NEW o \in RouterRequest, chain[o].step \in Making,
         NEW step \in Making, Continue(o, step),
         chain[o].undisturbed /\ chain[o].clean /\ Reached(chain[o].step, chain[o].segment, router)
             => Reached(step, chain[o].segment, router')
  PROVE  AnswerIInv'
<1>1. chain[o].step # "idle" /\ step \in Step /\ step \notin DeprovisionSteps
  BY DEF Making, Step, ProvisionSteps, DeprovisionSteps
<1>2. chain[o].undisturbed => chain[o].kind = "provision" /\ OfKind(step, "provision")
  BY <1>1 DEF AnswerIInv, ChainFits, OfKind, Making
<1>3. Undone(step, chain[o].segment, router')
  BY <1>1 DEF Undone
<1>4. chain[o].undisturbed /\ chain[o].kind = "provision" /\ chain[o].clean
          => Reached(chain[o].step, chain[o].segment, router)
  BY DEF AnswerIInv, ChainFits
<1> QED
  BY <1>1, <1>2, <1>3, <1>4, AnswerGoesOn

\* A de-provision goes on, whether or not its call was carried out.
LEMMA UndoingGoesOn ==
  ASSUME RouterTypeOK, AnswerIInv, NEW o \in RouterRequest,
         chain[o].step \in DeprovisionSteps,
         NEW step \in DeprovisionSteps, Continue(o, step),
         chain[o].undisturbed /\ Undone(chain[o].step, chain[o].segment, router)
             => Undone(step, chain[o].segment, router')
  PROVE  AnswerIInv'
<1>1. chain[o].step # "idle" /\ step \in Step /\ step \notin ProvisionSteps
  BY DEF Step, ProvisionSteps, DeprovisionSteps
<1>2. chain[o].undisturbed => chain[o].kind = "deprovision" /\ OfKind(step, "deprovision")
  BY <1>1 DEF AnswerIInv, ChainFits, OfKind
<1>3. chain[o].undisturbed /\ ~chain[o].failed => Undone(chain[o].step, chain[o].segment, router)
  BY DEF AnswerIInv, ChainFits
<1> QED
  BY <1>1, <1>2, <1>3, AnswerGoesOn

\* The first answer of the router, which decides what a request does.
LEMMA AnswerConnect ==
  ASSUME RouterTypeOK, AnswerIInv, NEW o \in RouterRequest, Connect(o)
  PROVE  AnswerIInv'
<1>1. chain[o].step = "connect" /\ chain[o] \in Chain
  BY TypeInWords DEF Connect, At
<1>2. CASE EndChain(o, TRUE)
  BY <1>1, <1>2, AnswerFails
<1>3. ASSUME Answers(router),
             \/ chain[o].kind = "deprovision" /\ Continue(o, "delNetwork")
             \/ chain[o].kind = "provision" /\ Continue(o, "guardNetworks")
             \/ chain[o].kind = "provision" /\ Continue(o, "pool")
      PROVE  AnswerIInv'
  <2>1. router' = router
    BY <1>3 DEF Answers
  <2>2. CASE chain[o].kind = "deprovision" /\ Continue(o, "delNetwork")
    <3>1. "delNetwork" \in Step /\ OfKind("delNetwork", "deprovision")
          /\ Undone("delNetwork", chain[o].segment, router)
      BY DEF Step, DeprovisionSteps, ProvisionSteps, OfKind, Undone
    <3> QED
      BY <1>1, <2>1, <2>2, <3>1, AnswerGoesOn
  <2>3. ASSUME NEW step \in {"guardNetworks", "pool"}, chain[o].kind = "provision",
               Continue(o, step)
        PROVE  AnswerIInv'
    <3>1. step \in Step /\ OfKind(step, "provision") /\ Undone(step, chain[o].segment, router)
      BY DEF Step, DeprovisionSteps, ProvisionSteps, OfKind, Undone
    <3>2. Reached("connect", chain[o].segment, router) => Reached(step, chain[o].segment, router)
      BY DEF Reached, ProvisionSteps, BeforePool, PoolMade, NetworkMade, InterfaceMade
    <3>3. chain[o].undisturbed /\ chain[o].kind = "provision" /\ chain[o].clean
             => Reached("connect", chain[o].segment, router)
      BY <1>1 DEF AnswerIInv, ChainFits
    <3> QED
      BY <1>1, <2>1, <2>3, <3>1, <3>2, <3>3, AnswerGoesOn
  <2> QED
    BY <1>3, <2>2, <2>3
<1>4. CASE Answers(router) /\ ~EndChain(o, TRUE)
  <2>1. chain[o].kind \in {"provision", "deprovision"} /\ chain[o].replace \in BOOLEAN
    BY <1>1 DEF Chain
  <2>2. chain[o].kind # "deprovision" => chain[o].kind = "provision"
    BY <2>1
  <2> DEFINE step == IF chain[o].kind = "deprovision" THEN "delNetwork"
                     ELSE IF chain[o].replace THEN "guardNetworks" ELSE "pool"
  <2>3. \/ chain[o].kind = "deprovision" /\ step = "delNetwork"
        \/ chain[o].kind = "provision" /\ step = "guardNetworks"
        \/ chain[o].kind = "provision" /\ step = "pool"
    BY <2>1, <2>2
  <2>4. Continue(o, step)
    BY <1>4 DEF Connect
  <2> HIDE DEF step
  <2> QED
    BY <1>3, <1>4, <2>3, <2>4
<1> QED
  BY <1>2, <1>4 DEF Connect

\* The reads of what to protect change nothing on the router.
LEMMA AnswerGuards ==
  ASSUME RouterTypeOK, AnswerIInv, NEW o \in RouterRequest,
         GuardNetworks(o) \/ GuardServers(o) \/ GuardPools(o)
  PROVE  AnswerIInv'
<1>1. chain[o] \in Chain /\ chain \in [RouterRequest -> Chain]
  BY TypeInWords
<1>2. chain[o].segment.subnet \in Subnet /\ chain[o].segment.name \in PoolName
  BY <1>1, SegmentNames DEF Chain
<1>3. PICK networks \in SUBSET Subnet, pools \in SUBSET PoolName,
           step \in {"guardServers", "guardPools", "clearNetworks"} :
               \/ Guards(o, networks, pools, step)
               \/ GuardsNothing(o) /\ step = "clearNetworks"
  <2>1. {chain[o].segment.subnet} \cup (router.networks \cap {Mgmt}) \in SUBSET Subnet
        /\ {} \in SUBSET Subnet /\ {} \in SUBSET PoolName
    BY <1>2, TypeInWords DEF Configuration
  <2>2. {chain[o].segment.name} \cup {s.pool : s \in router.servers} \in SUBSET PoolName
    BY <1>2, TypeInWords DEF Configuration
  <2>3. {p.name : p \in {q \in router.pools :
             q.subnet \in chain[o].keepNetworks \cap {Mgmt}}} \in SUBSET PoolName
    BY TypeInWords DEF Configuration
  <2>4. CASE GuardNetworks(o)
    BY <2>1, <2>4 DEF GuardNetworks
  <2>5. CASE GuardServers(o)
    BY <2>1, <2>2, <2>5 DEF GuardServers
  <2>6. CASE GuardPools(o)
    BY <2>1, <2>3, <2>6 DEF GuardPools
  <2> QED
    BY <2>4, <2>5, <2>6
<1>4. chain[o].step \in {"guardNetworks", "guardServers", "guardPools"}
  BY DEF GuardNetworks, GuardServers, GuardPools, At
<1> DEFINE c == [chain[o] EXCEPT !.step = step, !.keepNetworks = chain[o].keepNetworks \cup networks,
                                 !.keepPools = chain[o].keepPools \cup pools]
           d == [chain[o] EXCEPT !.step = step]
<1>5. answered' = answered /\ router' = router
  BY <1>3 DEF Guards, GuardsNothing, Answers, Raises
<1>6. chain' = [chain EXCEPT ![o] = c] \/ chain' = [chain EXCEPT ![o] = d]
  BY <1>1, <1>3 DEF Guards, GuardsNothing, Goto
<1>7. PICK e \in Chain : chain' = [chain EXCEPT ![o] = e] /\ e.step = step
              /\ e.kind = chain[o].kind /\ e.segment = chain[o].segment
              /\ e.clean = chain[o].clean /\ e.failed = chain[o].failed /\ e.undisturbed = chain[o].undisturbed
  <2>1. step \in Step
    BY DEF Step, ProvisionSteps
  <2>2. /\ c \in Chain /\ c.step = step
        /\ c.kind = chain[o].kind /\ c.segment = chain[o].segment
        /\ c.clean = chain[o].clean /\ c.failed = chain[o].failed /\ c.undisturbed = chain[o].undisturbed
    BY <1>1, <2>1 DEF Chain
  <2>3. /\ d \in Chain /\ d.step = step
        /\ d.kind = chain[o].kind /\ d.segment = chain[o].segment
        /\ d.clean = chain[o].clean /\ d.failed = chain[o].failed /\ d.undisturbed = chain[o].undisturbed
    BY <1>1, <2>1 DEF Chain
  <2> HIDE DEF c, d
  <2> QED
    BY <1>6, <2>2, <2>3
<1>8. ChainFits(chain[o], router) => ChainFits(e, router)
  BY <1>4, <1>7 DEF ChainFits, OfKind, Reached, Undone, ProvisionSteps, DeprovisionSteps,
     BeforePool, PoolMade, NetworkMade, InterfaceMade
<1>9. e.undisturbed => chain[o].undisturbed /\ ChainFits(e, router')
  BY <1>5, <1>7, <1>8 DEF AnswerIInv
<1> QED
  BY <1>4, <1>5, <1>7, <1>9, AnswerKept

\* A clear only takes away, and nothing of the segment was there.
LEMMA AnswerClears ==
  ASSUME RouterTypeOK, AnswerIInv, NEW o \in RouterRequest, ClearNetworks(o) \/ ClearPools(o)
  PROVE  AnswerIInv'
<1>1. router \in Configuration
  BY TypeInWords
<1>2. CASE ClearNetworks(o)
  <2> DEFINE kept == router.networks \cap (chain[o].keepNetworks \cup {chain[o].segment.subnet})
  <2>1. \/ EndChain(o, TRUE)
        \/ /\ Continue(o, "clearPools")
           /\ \E n \in SUBSET router.networks : router' \in {router, [router EXCEPT !.networks = n]}
    <3> DEFINE Cleared(n) == [router EXCEPT !.networks = n]
    <3>1. \A n : Answers(Cleared(n)) \/ Raises(Cleared(n)) => router' \in {router, Cleared(n)}
      BY DEF Answers, Raises
    <3>2. \A left \in SUBSET (router.networks \ kept) : kept \cup left \in SUBSET router.networks
      OBVIOUS
    <3>3. kept \in SUBSET router.networks
      OBVIOUS
    <3>4. \/ Answers(Cleared(kept)) /\ Continue(o, "clearPools")
          \/ \E left \in SUBSET (router.networks \ kept) :
                 /\ Raises(Cleared(kept \cup left))
                 /\ Continue(o, "clearPools")
          \/ EndChain(o, TRUE)
      BY <1>2 DEF ClearNetworks
    <3> HIDE DEF kept
    <3>5. \A n \in SUBSET router.networks : router' \in {router, Cleared(n)} =>
             \E m \in SUBSET router.networks : router' \in {router, [router EXCEPT !.networks = m]}
      OBVIOUS
    <3> HIDE DEF Cleared
    <3> QED
      BY <3>1, <3>2, <3>3, <3>4, <3>5
  <2>2. CASE EndChain(o, TRUE)
    BY <1>2, <2>2, AnswerFails DEF ClearNetworks, At
  <2>3. ASSUME NEW n \in SUBSET router.networks, Continue(o, "clearPools"),
               router' \in {router, [router EXCEPT !.networks = n]}
        PROVE  AnswerIInv'
    <3>1. chain[o].step = "clearNetworks"
      BY <1>2 DEF ClearNetworks, At
    <3>2. router'.pools = router.pools /\ router'.servers = router.servers
      BY <1>1, <2>3 DEF Configuration
    <3>3. Reached("clearNetworks", chain[o].segment, router)
             => Reached("clearPools", chain[o].segment, router')
      BY <3>2 DEF Reached, ProvisionSteps, BeforePool, PoolMade, NetworkMade, InterfaceMade,
         NoServer, NoPool, OwnPoolOnly
    <3> QED
      BY <2>3, <3>1, <3>3, MakingGoesOn DEF Making, ProvisionSteps
  <2> QED
    BY <2>1, <2>2, <2>3
<1>3. CASE ClearPools(o)
  <2> DEFINE kept == {p \in router.pools :
                         p.name \in chain[o].keepPools \cup {chain[o].segment.name}}
  <2>1. \/ EndChain(o, TRUE)
        \/ /\ Continue(o, "pool")
           /\ \E n \in SUBSET router.pools : router' \in {router, [router EXCEPT !.pools = n]}
    <3> DEFINE Cleared(n) == [router EXCEPT !.pools = n]
    <3>1. \A n : Answers(Cleared(n)) \/ Raises(Cleared(n)) => router' \in {router, Cleared(n)}
      BY DEF Answers, Raises
    <3>2. \A left \in SUBSET (router.pools \ kept) : kept \cup left \in SUBSET router.pools
      OBVIOUS
    <3>3. kept \in SUBSET router.pools
      OBVIOUS
    <3>4. \/ Answers(Cleared(kept)) /\ Continue(o, "pool")
          \/ \E left \in SUBSET (router.pools \ kept) :
                 /\ Raises(Cleared(kept \cup left))
                 /\ Continue(o, "pool")
          \/ EndChain(o, TRUE)
      BY <1>3 DEF ClearPools
    <3> HIDE DEF kept
    <3>5. \A n \in SUBSET router.pools : router' \in {router, Cleared(n)} =>
             \E m \in SUBSET router.pools : router' \in {router, [router EXCEPT !.pools = m]}
      OBVIOUS
    <3> HIDE DEF Cleared
    <3> QED
      BY <3>1, <3>2, <3>3, <3>4, <3>5
  <2>2. CASE EndChain(o, TRUE)
    BY <1>3, <2>2, AnswerFails DEF ClearPools, At
  <2>3. ASSUME NEW n \in SUBSET router.pools, Continue(o, "pool"),
               router' \in {router, [router EXCEPT !.pools = n]}
        PROVE  AnswerIInv'
    <3>1. chain[o].step = "clearPools"
      BY <1>3 DEF ClearPools, At
    <3>2. router'.pools \subseteq router.pools /\ router'.servers = router.servers
      BY <1>1, <2>3 DEF Configuration
    <3>3. Reached("clearPools", chain[o].segment, router)
             => Reached("pool", chain[o].segment, router')
      BY <3>2 DEF Reached, ProvisionSteps, BeforePool, PoolMade, NetworkMade, InterfaceMade,
         NoServer, NoPool, OwnPoolOnly
    <3> QED
      BY <2>3, <3>1, <3>3, MakingGoesOn DEF Making, ProvisionSteps
  <2> QED
    BY <2>1, <2>2, <2>3
<1> QED
  BY <1>2, <1>3

\* The DHCP part is done: without a segment to stitch the answer promises nothing.
LEMMA AnswerAfterDhcp ==
  ASSUME RouterTypeOK, AnswerIInv, NEW o \in RouterRequest, chain[o].step \in Making,
         AfterDhcp(o),
         chain[o].undisturbed /\ chain[o].clean /\ Reached(chain[o].step, chain[o].segment, router)
             => Reached("uplink", chain[o].segment, router')
  PROVE  AnswerIInv'
<1>1. "uplink" \in Making
  BY DEF Making, ProvisionSteps
<1>2. chain[o].step # "idle" /\ (chain[o].undisturbed => chain[o].kind = "provision")
  BY DEF Making, ProvisionSteps, AnswerIInv, ChainFits, OfKind
<1>3. CASE chain[o].stitch
  BY <1>1, <1>3, MakingGoesOn DEF AfterDhcp
<1>4. CASE ~chain[o].stitch
  <2>1. EndChain(o, FALSE)
    BY <1>4 DEF AfterDhcp
  <2>2. chain[o].undisturbed => EndsWell(chain[o], router')
    BY <1>2, <1>4 DEF EndsWell
  <2> QED
    BY <1>2, <2>1, <2>2, AnswerEnds
<1> QED
  BY <1>3, <1>4

\* The writes of a provision, each after what it rests on.
LEMMA AnswerCreates ==
  ASSUME RouterTypeOK, AnswerIInv, NEW o \in RouterRequest,
         CreatePool(o) \/ CreateNetwork(o) \/ ConfirmDhcp(o)
  PROVE  AnswerIInv'
<1> DEFINE s == chain[o].segment
<1>1. router \in Configuration /\ s \in Segment
  BY TypeInWords DEF Chain
<1>2. {"pool", "network", "confirm"} \subseteq Making
  BY DEF Making, ProvisionSteps
<1>3. CASE CreatePool(o)
  <2> DEFINE new == IF Named(s.name) # {} THEN router
                    ELSE [router EXCEPT !.pools =
                             router.pools \cup {[name |-> s.name, subnet |-> s.subnet]}]
  <2>1. /\ chain[o].step = "pool"
        /\ \/ Answers(new) /\ Continue(o, "network")
           \/ Raises(new) /\ Continue(o, "confirm")
    BY <1>3 DEF CreatePool, At
  <2>2. Reached("pool", s, router) =>
           /\ NoServer(s, new) /\ OwnPoolOnly(s, new)
           /\ [name |-> s.name, subnet |-> s.subnet] \in new.pools
    <3> SUFFICES ASSUME Reached("pool", s, router)
                 PROVE  /\ NoServer(s, new) /\ OwnPoolOnly(s, new)
                        /\ [name |-> s.name, subnet |-> s.subnet] \in new.pools
      OBVIOUS
    <3>1. NoServer(s, router) /\ NoPool(s, router)
      BY DEF Reached, ProvisionSteps, BeforePool
    <3>2. Named(s.name) = {}
      BY <3>1 DEF Named, NoPool
    <3>3. /\ new.pools = router.pools \cup {[name |-> s.name, subnet |-> s.subnet]}
          /\ new.servers = router.servers
      BY <1>1, <3>2 DEF Configuration
    <3> HIDE DEF new
    <3> QED
      BY <3>1, <3>3 DEF NoServer, NoPool, OwnPoolOnly
  <2>3. Reached("pool", s, router) => Reached("network", s, new) /\ Reached("confirm", s, new)
                                      /\ Reached("confirm", s, router)
    BY <2>2 DEF Reached, ProvisionSteps, BeforePool, PoolMade, NetworkMade, InterfaceMade
  <2> HIDE DEF new
  <2>4. CASE Answers(new) /\ Continue(o, "network")
    <3>1. router' = new
      BY <2>4 DEF Answers
    <3> QED
      BY <1>2, <2>1, <2>3, <2>4, <3>1, MakingGoesOn
  <2>5. CASE Raises(new) /\ Continue(o, "confirm")
    <3>1. router' \in {router, new}
      BY <2>5 DEF Raises
    <3> QED
      BY <1>2, <2>1, <2>3, <2>5, <3>1, MakingGoesOn
  <2> QED
    BY <2>1, <2>4, <2>5
<1>4. CASE CreateNetwork(o)
  <2> DEFINE new == [router EXCEPT !.networks = router.networks \cup {s.subnet}]
  <2>1. /\ chain[o].step = "network"
        /\ \/ Answers(new) /\ AfterDhcp(o)
           \/ Raises(new) /\ Continue(o, "confirm")
    BY <1>4 DEF CreateNetwork, At
  <2>2. new.networks = router.networks \cup {s.subnet} /\ new.pools = router.pools
        /\ new.servers = router.servers
    BY <1>1 DEF Configuration
  <2> HIDE DEF new
  <2>3. Reached("network", s, router) =>
           Reached("uplink", s, new) /\ Reached("confirm", s, new) /\ Reached("confirm", s, router)
    BY <2>2 DEF Reached, ProvisionSteps, BeforePool, PoolMade, NetworkMade, InterfaceMade,
       NoServer, OwnPoolOnly
  <2>4. CASE Answers(new) /\ AfterDhcp(o)
    <3>1. router' = new
      BY <2>4 DEF Answers
    <3> QED
      BY <1>2, <2>1, <2>3, <2>4, <3>1, AnswerAfterDhcp
  <2>5. CASE Raises(new) /\ Continue(o, "confirm")
    <3>1. router' \in {router, new}
      BY <2>5 DEF Raises
    <3> QED
      BY <1>2, <2>1, <2>3, <2>5, <3>1, MakingGoesOn
  <2> QED
    BY <2>1, <2>4, <2>5
<1>5. CASE ConfirmDhcp(o)
  <2>1. chain[o].step = "confirm"
    BY <1>5 DEF ConfirmDhcp, At
  <2>2. CASE EndChain(o, TRUE)
    BY <2>1, <2>2, AnswerFails
  <2>3. CASE /\ Answers(router)
             /\ Named(s.name) # {} /\ s.subnet \in router.networks
             /\ AfterDhcp(o)
    <3>1. router' = router
      BY <2>3 DEF Answers
    <3>2. OwnPoolOnly(s, router) => [name |-> s.name, subnet |-> s.subnet] \in router.pools
      BY <2>3 DEF OwnPoolOnly, Named
    <3>3. Reached("confirm", s, router) => Reached("uplink", s, router)
      BY <2>3, <3>2 DEF Reached, ProvisionSteps, BeforePool, PoolMade, NetworkMade, InterfaceMade
    <3> QED
      BY <1>2, <2>1, <2>3, <3>1, <3>3, AnswerAfterDhcp
  <2> QED
    BY <1>5, <2>2, <2>3 DEF ConfirmDhcp
<1> QED
  BY <1>3, <1>4, <1>5

\* A call that makes a part of the segment, or finds it there.
LEMMA AnswerSegmentCall ==
  ASSUME RouterTypeOK, AnswerIInv, NEW o \in RouterRequest, chain[o].step \in Making,
         NEW new \in Configuration, NEW allowed \in BOOLEAN,
         NEW step \in Making, SegmentCall(o, new, allowed, step),
         Reached(chain[o].step, chain[o].segment, router) /\ allowed
             => Reached(step, chain[o].segment, new)
  PROVE  AnswerIInv'
<1>1. chain[o].step # "idle" /\ step # "idle"
  BY DEF Making, ProvisionSteps
<1>2. CASE EndChain(o, TRUE)
  BY <1>1, <1>2, AnswerFails
<1>3. CASE allowed /\ Answers(new) /\ Continue(o, step)
  <2>1. router' = new
    BY <1>3 DEF Answers
  <2> QED
    BY <1>3, <2>1, MakingGoesOn
<1> QED
  BY <1>1, <1>2, <1>3 DEF SegmentCall

\* create_vlan_segment: its last call leaves a segment that is served.
LEMMA AnswerStitches ==
  ASSUME RouterTypeOK, AnswerIInv, NEW o \in RouterRequest,
         FindUplink(o) \/ CreateInterface(o) \/ CreateAddress(o) \/ CreateServer(o)
  PROVE  AnswerIInv'
<1> DEFINE s == chain[o].segment
<1>1. router \in Configuration /\ s \in Segment
  BY TypeInWords DEF Chain
<1>2. s.vlan \in RouterVlan /\ s.name \in PoolName /\ s.subnet \in Subnet
  BY <1>1, SegmentNames
<1>3. {"uplink", "vlan", "address", "server"} \subseteq Making
  BY DEF Making, ProvisionSteps
<1>4. CASE FindUplink(o)
  <2> DEFINE allowed == /\ host = "address"
                        /\ [vlan |-> Mgmt, subnet |-> Mgmt] \in router.addresses
  <2>1. allowed \in BOOLEAN /\ SegmentCall(o, router, allowed, "vlan") /\ chain[o].step = "uplink"
    BY <1>4 DEF FindUplink, At
  <2>2. Reached("uplink", s, router) => Reached("vlan", s, router)
    BY DEF Reached, ProvisionSteps, BeforePool, PoolMade, NetworkMade, InterfaceMade
  <2> HIDE DEF allowed
  <2> QED
    BY <1>1, <1>3, <2>1, <2>2, AnswerSegmentCall
<1>5. CASE CreateInterface(o)
  <2> DEFINE new == [router EXCEPT !.vlans = router.vlans \cup {s.vlan}]
  <2>1. SegmentCall(o, new, TRUE, "address") /\ chain[o].step = "vlan"
    BY <1>5 DEF CreateInterface, At
  <2>2. new \in Configuration /\ new.vlans = router.vlans \cup {s.vlan}
        /\ new.pools = router.pools /\ new.servers = router.servers
        /\ new.networks = router.networks
    BY <1>1, <1>2 DEF Configuration
  <2> HIDE DEF new
  <2>3. Reached("vlan", s, router) => Reached("address", s, new)
    BY <2>2 DEF Reached, ProvisionSteps, BeforePool, PoolMade, NetworkMade, InterfaceMade,
       NoServer, OwnPoolOnly
  <2> QED
    BY <1>3, <2>1, <2>2, <2>3, AnswerSegmentCall
<1>6. CASE CreateAddress(o)
  <2> DEFINE own == [vlan |-> s.vlan, subnet |-> s.subnet]
             new == [router EXCEPT !.addresses = router.addresses \cup {own}]
             allowed == s.vlan \in router.vlans
  <2>1. SegmentCall(o, new, allowed, "server") /\ chain[o].step = "address" /\ allowed \in BOOLEAN
    BY <1>6 DEF CreateAddress, At
  <2>2. new \in Configuration /\ new.addresses = router.addresses \cup {own}
        /\ new.pools = router.pools /\ new.servers = router.servers
        /\ new.networks = router.networks /\ new.vlans = router.vlans
    BY <1>1, <1>2 DEF Configuration
  <2> HIDE DEF new, allowed
  <2>3. Reached("address", s, router) => Reached("server", s, new)
    BY <2>2 DEF Reached, ProvisionSteps, BeforePool, PoolMade, NetworkMade, InterfaceMade,
       NoServer, OwnPoolOnly
  <2> QED
    BY <1>3, <2>1, <2>2, <2>3, AnswerSegmentCall
<1>7. CASE CreateServer(o)
  <2> DEFINE own == [vlan |-> s.vlan, pool |-> s.name]
             new == IF Serves(s.vlan) # {} THEN router
                    ELSE [router EXCEPT !.servers = router.servers \cup {own}]
  <2>1. /\ chain[o].step = "server"
        /\ \/ Answers(new) /\ EndChain(o, FALSE)
           \/ EndChain(o, TRUE)
    BY <1>7 DEF CreateServer, SegmentCall, At
  <2>2. CASE EndChain(o, TRUE)
    BY <2>1, <2>2, AnswerFails
  <2>3. CASE Answers(new) /\ EndChain(o, FALSE)
    <3>1. chain[o].undisturbed => chain[o].kind = "provision"
             /\ (chain[o].clean => Reached("server", s, router))
      BY <2>1 DEF AnswerIInv, ChainFits, OfKind, ProvisionSteps
    <3>2. ASSUME Reached("server", s, router)
          PROVE  ServedBy(s, new)
      <4>1. NoServer(s, router) /\ OwnPoolOnly(s, router)
            /\ [name |-> s.name, subnet |-> s.subnet] \in router.pools
            /\ s.subnet \in router.networks /\ s.vlan \in router.vlans
            /\ [vlan |-> s.vlan, subnet |-> s.subnet] \in router.addresses
        BY <3>2 DEF Reached, ProvisionSteps, PoolMade, NetworkMade, InterfaceMade
      <4>2. Serves(s.vlan) = {}
        BY <4>1 DEF Serves, NoServer
      <4>3. new.servers = router.servers \cup {own}
            /\ new.pools = router.pools /\ new.addresses = router.addresses
            /\ new.networks = router.networks /\ new.vlans = router.vlans
        BY <1>1, <4>2 DEF Configuration
      <4>4. own.vlan = s.vlan
        OBVIOUS
      <4> HIDE DEF new, own
      <4>5. {x \in new.servers : x.vlan = s.vlan} = {own}
        BY <4>1, <4>3, <4>4 DEF NoServer
      <4>6. {p \in new.pools : p.name = s.name} = {[name |-> s.name, subnet |-> s.subnet]}
        BY <4>1, <4>3 DEF OwnPoolOnly
      <4> QED
        BY <4>1, <4>3, <4>5, <4>6 DEF ServedBy, own
    <3>3. router' = new
      BY <2>3 DEF Answers
    <3> HIDE DEF new
    <3>4. chain[o].undisturbed => EndsWell(chain[o], router')
      BY <3>1, <3>2, <3>3 DEF EndsWell
    <3> QED
      BY <2>1, <2>3, <3>4, AnswerEnds
  <2> QED
    BY <2>1, <2>2, <2>3
<1> QED
  BY <1>4, <1>5, <1>6, <1>7

\* The two deletions that go on to the server after one that raised, and remember it.
LEMMA AnswerDrops ==
  ASSUME RouterTypeOK, AnswerIInv, NEW o \in RouterRequest, DeleteNetwork(o) \/ DeletePool(o)
  PROVE  AnswerIInv'
<1> DEFINE s == chain[o].segment
           failing == [chain[o] EXCEPT !.step = "delServer", !.failed = TRUE]
<1>1. /\ router \in Configuration /\ chain[o] \in Chain
      /\ chain \in [RouterRequest -> Chain]
  BY TypeInWords
<1>2. {"delNetwork", "delPool", "delServer"} \subseteq DeprovisionSteps
  BY DEF DeprovisionSteps
<1>3. ASSUME chain[o].step \in DeprovisionSteps, chain' = [chain EXCEPT ![o] = failing],
             UNCHANGED answered
      PROVE  AnswerIInv'
  <2>1. /\ failing \in Chain /\ failing.step = "delServer" /\ failing.kind = chain[o].kind
        /\ failing.undisturbed = chain[o].undisturbed /\ failing.failed
    BY <1>1, <1>2 DEF Chain, Step
  <2>2. "delServer" \notin ProvisionSteps /\ chain[o].step # "idle"
    BY <1>3 DEF ProvisionSteps, DeprovisionSteps
  <2>3. chain[o].undisturbed => chain[o].kind = "deprovision"
    BY <1>3 DEF AnswerIInv, ChainFits, OfKind
  <2> HIDE DEF failing
  <2>4. failing.undisturbed => chain[o].undisturbed /\ ChainFits(failing, router')
    BY <2>1, <2>2, <2>3 DEF ChainFits, OfKind
  <2> QED
    BY <1>3, <2>1, <2>2, <2>4, AnswerKept
\* After a removal that was lost nothing is claimed of the request.
<1>4. ASSUME NEW step \in DeprovisionSteps, IgnoresUnnoticed(o, step),
             chain[o].step \in DeprovisionSteps, UNCHANGED answered
      PROVE  AnswerIInv'
  <2> DEFINE lost == [chain[o] EXCEPT !.step = step, !.undisturbed = FALSE]
  <2>1. lost \in Chain /\ ~lost.undisturbed
    BY <1>1, <1>4 DEF Chain, Step
  <2>2. chain' = [chain EXCEPT ![o] = lost] /\ chain[o].step # "idle"
    BY <1>1, <1>4 DEF IgnoresUnnoticed, DeprovisionSteps
  <2> HIDE DEF lost
  <2> QED
    BY <1>4, <2>1, <2>2, AnswerKept
<1>5. CASE DeleteNetwork(o)
  <2> DEFINE new == [router EXCEPT !.networks = router.networks \ {s.subnet}]
  <2>1. chain[o].step = "delNetwork" /\ answered' = answered
    BY <1>5 DEF DeleteNetwork, At
  <2>2. \/ Answers(new) /\ Goto(o, "delPool")
        \/ IgnoresUnnoticed(o, "delPool")
        \/ chain' = [chain EXCEPT ![o] = failing]
    BY <1>1, <1>5 DEF DeleteNetwork
  <2>3. CASE Answers(new) /\ Goto(o, "delPool")
    <3>1. router' = new /\ new.networks = router.networks \ {s.subnet} /\ Continue(o, "delPool")
      BY <1>1, <2>1, <2>3 DEF Configuration, Answers, Continue
    <3> HIDE DEF new
    <3>2. Undone("delPool", s, router')
      BY <3>1 DEF Undone
    <3> QED
      BY <1>2, <2>1, <3>1, <3>2, UndoingGoesOn
  <2> QED
    BY <1>2, <1>3, <1>4, <2>1, <2>2, <2>3
<1>6. CASE DeletePool(o)
  <2> DEFINE new == [router EXCEPT !.pools = router.pools \ Named(s.name)]
  <2>1. chain[o].step = "delPool" /\ answered' = answered
    BY <1>6 DEF DeletePool, At
  <2>2. \/ Answers(new) /\ Goto(o, "delServer")
        \/ IgnoresUnnoticed(o, "delServer")
        \/ chain' = [chain EXCEPT ![o] = failing]
    BY <1>1, <1>6 DEF DeletePool
  <2>3. CASE Answers(new) /\ Goto(o, "delServer")
    <3>1. /\ router' = new /\ new.pools = router.pools \ Named(s.name)
          /\ new.networks = router.networks /\ Continue(o, "delServer")
      BY <1>1, <2>1, <2>3 DEF Configuration, Answers, Continue
    <3> HIDE DEF new
    <3>2. Undone("delPool", s, router) => Undone("delServer", s, router')
      BY <3>1 DEF Undone, DeprovisionSteps, NoPool, Named
    <3> QED
      BY <1>2, <2>1, <3>1, <3>2, UndoingGoesOn
  <2> QED
    BY <1>2, <1>3, <1>4, <2>1, <2>2, <2>3
<1> QED
  BY <1>5, <1>6

\* A call that removes what stands on the pool and the network.
LEMMA AnswerDeleteCall ==
  ASSUME RouterTypeOK, AnswerIInv, NEW o \in RouterRequest,
         NEW new \in Configuration, new.pools = router.pools, new.networks = router.networks,
         chain[o].step \in DeprovisionSteps \ {"delNetwork", "delPool"},
         NEW step \in DeprovisionSteps, DeleteCall(o, new, step)
  PROVE  AnswerIInv'
<1>1. chain[o].step # "idle"
  BY DEF DeprovisionSteps
<1>2. CASE EndChain(o, TRUE)
  BY <1>1, <1>2, AnswerFails
<1>3. ASSUME router' \in {router, new}, Continue(o, step)
      PROVE  AnswerIInv'
  <2>1. Undone(chain[o].step, chain[o].segment, router) => Undone(step, chain[o].segment, router')
    BY <1>3 DEF Undone, NoPool
  <2> QED
    BY <1>3, <2>1, UndoingGoesOn
<1>4. EndChain(o, TRUE) \/ (router' \in {router, new} /\ Continue(o, step))
  BY DEF DeleteCall, Answers, Ignores
<1> QED
  BY <1>2, <1>3, <1>4

\* delete_vlan_segment: it is the read at its end that says that nothing is left.
LEMMA AnswerDeletes ==
  ASSUME RouterTypeOK, AnswerIInv, NEW o \in RouterRequest,
         DeleteServer(o) \/ DeleteAddress(o) \/ DeleteInterface(o) \/ ReadBack(o)
  PROVE  AnswerIInv'
<1> DEFINE s == chain[o].segment
<1>1. router \in Configuration
  BY TypeInWords
<1>2. /\ {"delServer", "delAddress", "delVlan", "readBack"}
            \subseteq DeprovisionSteps \ {"delNetwork", "delPool"}
  BY DEF DeprovisionSteps
<1>3. CASE DeleteServer(o)
  <2> DEFINE new == [router EXCEPT !.servers = router.servers \ Serves(s.vlan)]
  <2>1. new \in Configuration /\ new.pools = router.pools /\ new.networks = router.networks
    BY <1>1 DEF Configuration
  <2>2. DeleteCall(o, new, "delAddress") /\ chain[o].step = "delServer"
    BY <1>3 DEF DeleteServer, At
  <2> HIDE DEF new
  <2> QED
    BY <1>2, <2>1, <2>2, AnswerDeleteCall
<1>4. CASE DeleteAddress(o)
  <2> DEFINE new == [router EXCEPT !.addresses = {a \in router.addresses : a.vlan # s.vlan}]
  <2>1. new \in Configuration /\ new.pools = router.pools /\ new.networks = router.networks
    BY <1>1 DEF Configuration
  <2>2. DeleteCall(o, new, "delVlan") /\ chain[o].step = "delAddress"
    BY <1>4 DEF DeleteAddress, At
  <2> HIDE DEF new
  <2> QED
    BY <1>2, <2>1, <2>2, AnswerDeleteCall
<1>5. CASE DeleteInterface(o)
  <2> DEFINE new == [router EXCEPT !.vlans = router.vlans \ {s.vlan}]
  <2>1. new \in Configuration /\ new.pools = router.pools /\ new.networks = router.networks
    BY <1>1 DEF Configuration
  <2>2. DeleteCall(o, new, "readBack") /\ chain[o].step = "delVlan"
    BY <1>5 DEF DeleteInterface, At
  <2> HIDE DEF new
  <2> QED
    BY <1>2, <2>1, <2>2, AnswerDeleteCall
<1>6. CASE ReadBack(o)
  <2>1. chain[o].step = "readBack" /\ chain[o].step # "idle" /\ Leftover(s.vlan) \in BOOLEAN
    BY <1>6 DEF ReadBack, At, Leftover
  <2>2. CASE EndChain(o, TRUE)
    BY <2>1, <2>2, AnswerFails
  <2>3. CASE Answers(router) /\ EndChain(o, Leftover(s.vlan))
    <3>1. router' = router
      BY <2>3 DEF Answers
    <3>2. ASSUME chain[o].undisturbed, ~chain[o].failed, ~Leftover(s.vlan)
          PROVE  EndsWell(chain[o], router)
      <4>1. chain[o].kind = "deprovision" /\ Undone("readBack", s, router)
        BY <1>2, <2>1, <3>2 DEF AnswerIInv, ChainFits, OfKind
      <4>2. GoneFrom(s, router)
        BY <1>2, <3>2, <4>1 DEF GoneFrom, Undone, Leftover, Serves, NoServer
      <4> QED
        BY <4>1, <4>2 DEF EndsWell
    <3> QED
      BY <2>1, <2>3, <3>1, <3>2, AnswerEnds
  <2> QED
    BY <1>6, <2>2, <2>3 DEF ReadBack
<1> QED
  BY <1>3, <1>4, <1>5, <1>6

\* Every step of the requests keeps the invariant.
LEMMA AnswerStepKeeps ==
  RouterTypeOK /\ AnswerIInv /\ [RouterNext]_routerVars => AnswerIInv'
<1> SUFFICES ASSUME RouterTypeOK, AnswerIInv, [RouterNext]_routerVars
             PROVE  AnswerIInv'
  OBVIOUS
<1>1. CASE UNCHANGED routerVars
  BY <1>1 DEF routerVars, AnswerIInv, NoRequest
<1>2. ASSUME NEW o \in RouterRequest, RouterStep(o)
      PROVE  AnswerIInv'
  BY <1>2, AnswerConnect, AnswerGuards, AnswerClears, AnswerCreates, AnswerStitches,
     AnswerDrops, AnswerDeletes DEF RouterStep
<1> QED
  BY <1>1, <1>2, AnswerBegins DEF RouterNext

\* At first no request is under way.
LEMMA AnswerStarts == RouterInit => AnswerIInv
BY DEF RouterInit, AnswerIInv, NoChain

\* The invariant holds in every state.
LEMMA AnswerInvariant == RouterSpec => []AnswerIInv
  BY AnswerStarts, AnswerStepKeeps, RouterTypes, PTL DEF RouterSpec

\* A provision of the router that reported no failure, alone and on free names, leaves a
\* segment that hands out its own addresses.
THEOREM RouterProvisionServes == RouterSpec => []ProvisionedServes
<1>1. AnswerIInv => ProvisionedServes
  BY AnswersFit
<1> QED
  BY <1>1, AnswerInvariant, PTL

\* A de-provision of the router that reported no failure, alone, leaves nothing behind.
THEOREM RouterTeardownComplete == RouterSpec => []TeardownComplete
<1>1. AnswerIInv => TeardownComplete
  BY AnswersFit
<1> QED
  BY <1>1, AnswerInvariant, PTL

-----------------------------------------------------------------------------
(***************************************************************************)
(* The controller: a deleted SSID stays gone, and a provision leaves its   *)
(* own.                                                                    *)
(*                                                                         *)
(* DeletedStaysGone needs that ids are given out once, and that an edit    *)
(* can only put an id back that it finds. ProvisionLeavesOne needs what    *)
(* each step of an undisturbed provision has made of the SSIDs of its      *)
(* name.                                                                   *)
(***************************************************************************)

\* A request to the controller.
TaskType ==
    [step : WifiSteps, kind : {"provision", "deprovision", "remove", "edit"},
     name : Name, tag : Tag \cup {Untagged}, replace : BOOLEAN, todo : SUBSET Id,
     back : {"idle", "clear", "existing", "find"}, profile : 0..MaxIds,
     attempt : 1..WriteAttempts, replayed : BOOLEAN, error : BOOLEAN,
     alone : BOOLEAN, smooth : BOOLEAN]

\* The ids of some SSIDs, and the one a delete begins with.
IdsOf(W) == {w.id : w \in W}
FirstOf(todo) == CHOOSE i \in todo : TRUE

\* A delete has something to delete, of what was given out so far; and before the read that
\* decides, the SSID is gone unless the write raised.
TaskFits(t, W, last) ==
    /\ t.todo \subseteq 1..last
    /\ t.step \in {"delete", "confirm"} => t.todo # {}
    /\ t.step = "login" /\ t.kind = "remove" => t.todo # {}
    /\ t.step \in {"lookup", "profile"} => t.tag # Untagged
    /\ t.step = "confirm" /\ ~t.error => FirstOf(t.todo) \notin IdsOf(W)

\* Where a provision stands that nothing has disturbed: the profile is one of its VLAN, no
\* SSID of its name is left but those it has still to delete, and in the end its own.
Undisturbed(t) == t.kind = "provision" /\ t.alone /\ t.smooth

\* The profile of a provision is one of its VLAN.
ProfileFits(t, P) ==
    t.profile \in IF t.tag = Untagged THEN {0} ELSE {p.id : p \in {q \in P : q.tag = t.tag}}

\* Up to its step, what an undisturbed provision has made of the SSIDs of its name.
ProvisionFits(t, W, P) ==
    LET named == {w \in W : w.name = t.name}
    IN  Undisturbed(t) =>
        /\ ~t.error
        /\ t.step \in {"login", "clear", "lookup", "profile", "existing", "delete", "confirm",
                       "post", "verify"}
        /\ t.step \in {"delete", "confirm"} => t.back \in {"clear", "existing"}
        /\ \/ t.step \in {"login", "clear", "lookup", "profile"}
           \/ t.step \in {"delete", "confirm"} /\ t.back = "clear"
           => t.profile = 0
        /\ \/ t.step \in {"existing", "post", "verify"}
           \/ t.step \in {"delete", "confirm"} /\ t.back = "existing"
           => ProfileFits(t, P)
        /\ t.step \in {"delete", "confirm"} /\ t.back = "existing" => IdsOf(named) \subseteq t.todo
        /\ t.step = "post" => named = {}
        /\ t.step = "verify" => \E w \in W : named = {w} /\ w.new /\ w.profile = t.profile

\* A request that is alone is the only one.
OnlyOne(o) == task[o].alone => /\ task[o].step # "idle"
                               /\ \A q \in WifiRequest \ {o} : task[q].step = "idle"

\* The invariant: what is deleted stays gone, every request knows only ids that were given
\* out, and an undisturbed provision has got as far as its step tells.
WifiIInv ==
    /\ WifiTypeOK
    /\ IdsOf(wlans) \subseteq 1..lastId
    /\ deleted \subseteq 1..lastId
    /\ DeletedStaysGone
    /\ \A o \in WifiRequest : /\ TaskFits(task[o], wlans, lastId)
                              /\ ProvisionFits(task[o], wlans, profiles)
                              /\ OnlyOne(o)
    /\ made.valid => ProvisionLeavesOne /\ \A o \in WifiRequest : task[o].step = "idle"

\* No request is one that fits.
LEMMA NoTaskFits ==
    /\ NoTask \in TaskType /\ NoTask.step = "idle" /\ NoTask.todo = {} /\ ~NoTask.alone
    /\ \A W, last : TaskFits(NoTask, W, last)
    /\ \A W, P : ProvisionFits(NoTask, W, P)
<1>1. (CHOOSE n \in Name : TRUE) \in Name
  BY WifiAssumption
<1>2. /\ NoTask.step = "idle" /\ NoTask.todo = {} /\ ~NoTask.alone
  BY DEF NoTask
<1>3. 0 \in 0..MaxIds /\ 1 \in 1..WriteAttempts
  BY WifiAssumption
<1>4. NoTask \in TaskType
  BY <1>1, <1>3 DEF NoTask, TaskType, WifiSteps
<1> HIDE DEF NoTask
<1>5. \A W, last : TaskFits(NoTask, W, last)
  BY <1>2 DEF TaskFits
<1>6. \A W, P : ProvisionFits(NoTask, W, P)
  BY <1>2 DEF ProvisionFits, Undisturbed
<1> QED
  BY <1>2, <1>4, <1>5, <1>6

\* A step of request o, which may give out one more identifier.
LEMMA TaskStep ==
    ASSUME WifiIInv, NEW o \in WifiRequest, task[o].step # "idle",
           NEW t \in TaskType, task' = [task EXCEPT ![o] = t],
           t.alone => task[o].alone /\ t.step # "idle",
           wlans' \subseteq WlanType, profiles' \subseteq [id : Id, tag : Tag],
           lastId' \in lastId..MaxIds, deleted' \subseteq 1..lastId',
           IdsOf(wlans') \subseteq IdsOf(wlans) \cup ((lastId + 1)..lastId'),
           \A w \in wlans' : w.id \notin deleted',
           UNCHANGED wifiRequests, wifiFaults' \in 0..MaxWifiFaults,
           TaskFits(t, wlans', lastId'), ProvisionFits(t, wlans', profiles'),
           made' \in [name : Name, tag : Tag \cup {Untagged}, valid : BOOLEAN],
           made' = made \/ (made'.valid => /\ ProvisionLeavesOne'
                                           /\ task[o].alone /\ t.step = "idle")
    PROVE  WifiIInv'
<1>1. /\ task \in [WifiRequest -> TaskType] /\ lastId \in 0..MaxIds /\ MaxIds \in Nat
      /\ ~made.valid
  BY WifiAssumption DEF WifiIInv, WifiTypeOK, TaskType
<1>2. /\ task' \in [WifiRequest -> TaskType] /\ task'[o] = t
      /\ \A q \in WifiRequest \ {o} : task'[q] = task[q] /\ ~task[q].alone
  BY <1>1 DEF WifiIInv, OnlyOne
<1>3. WifiTypeOK'
  <2>1. deleted' \subseteq Id /\ lastId' \in 0..MaxIds
    BY <1>1 DEF Id
  <2> QED
    BY <1>2, <2>1 DEF WifiIInv, WifiTypeOK, TaskType
<1>4. IdsOf(wlans') \subseteq 1..lastId'
  BY <1>1 DEF WifiIInv
<1>5. ASSUME NEW q \in WifiRequest \ {o}
      PROVE  /\ TaskFits(task'[q], wlans', lastId')
             /\ ProvisionFits(task'[q], wlans', profiles')
  <2>1. TaskFits(task[q], wlans, lastId)
    BY DEF WifiIInv
  <2>2. task[q].step \in {"delete", "confirm"} => FirstOf(task[q].todo) \in task[q].todo
    BY <2>1 DEF TaskFits, FirstOf
  <2>3. TaskFits(task[q], wlans', lastId')
    BY <1>1, <2>1, <2>2 DEF TaskFits
  <2> QED
    BY <1>2, <2>3 DEF ProvisionFits, Undisturbed
<1>6. \A q \in WifiRequest : OnlyOne(q)'
  <2>1. \A q \in WifiRequest \ {o} : OnlyOne(q)'
    BY <1>2 DEF OnlyOne
  <2>2. OnlyOne(o)'
    BY <1>2 DEF OnlyOne, WifiIInv
  <2> QED
    BY <2>1, <2>2
<1>7. made'.valid => ProvisionLeavesOne' /\ \A q \in WifiRequest : task'[q].step = "idle"
  BY <1>1, <1>2 DEF WifiIInv, OnlyOne
<1>8. DeletedStaysGone'
  BY DEF DeletedStaysGone
<1>9. \A q \in WifiRequest : /\ TaskFits(task[q], wlans, lastId)'
                             /\ ProvisionFits(task[q], wlans, profiles)'
  <2>1. \A q \in WifiRequest : /\ TaskFits(task'[q], wlans', lastId')
                               /\ ProvisionFits(task'[q], wlans', profiles')
    BY <1>2, <1>5
  <2> QED
    BY <2>1 DEF TaskFits, ProvisionFits, Undisturbed, ProfileFits, IdsOf, FirstOf
<1>10. (IdsOf(wlans) \subseteq 1..lastId)'
  BY <1>4 DEF IdsOf
<1> QED
  BY <1>3, <1>6, <1>7, <1>8, <1>9, <1>10 DEF WifiIInv

-----------------------------------------------------------------------------
(* What each turn of a task leaves of its record.                           *)

\* A request turns to another step.
LEMMA TurnTask ==
    ASSUME task \in [WifiRequest -> TaskType], NEW o \in WifiRequest,
           NEW step \in WifiSteps, Turn(o, step)
    PROVE  \E t \in TaskType :
              /\ task' = [task EXCEPT ![o] = t]
              /\ t.step = step /\ t.kind = task[o].kind /\ t.name = task[o].name
              /\ t.tag = task[o].tag /\ t.todo = task[o].todo /\ t.back = task[o].back
              /\ t.profile = task[o].profile /\ t.error = task[o].error
              /\ t.alone = task[o].alone /\ t.smooth = task[o].smooth
<1> DEFINE t == [task[o] EXCEPT !.step = step]
<1>1. /\ t \in TaskType
      /\ t.step = step /\ t.kind = task[o].kind /\ t.name = task[o].name
      /\ t.tag = task[o].tag /\ t.todo = task[o].todo /\ t.back = task[o].back
      /\ t.profile = task[o].profile
      /\ t.error = task[o].error /\ t.alone = task[o].alone /\ t.smooth = task[o].smooth
  BY DEF TaskType
<1>2. task' = [task EXCEPT ![o] = t]
  BY DEF Turn
<1> HIDE DEF t
<1> QED
  BY <1>1, <1>2

\* What Deleting makes of the record old.
DeletingOf(old, todo, back, step) ==
    [old EXCEPT !.step = IF todo = {} THEN step ELSE "delete", !.todo = todo,
                !.back = IF todo = {} THEN "idle" ELSE back, !.attempt = 1, !.error = FALSE]

\* What a request is as it begins to delete.
DeletingFrom(old, t, todo, back, step) ==
    /\ todo = {} => t.step = step /\ t.back = "idle"
    /\ todo # {} => t.step = "delete" /\ t.back = back
    /\ t.kind = old.kind /\ t.name = old.name
    /\ t.tag = old.tag /\ t.todo = todo /\ ~t.error
    /\ t.profile = old.profile
    /\ t.alone = old.alone /\ t.smooth = old.smooth

\* It is a request, and the rest of it stays.
LEMMA DeletingTask ==
    ASSUME NEW old \in TaskType, NEW todo \in SUBSET Id,
           NEW back \in {"idle", "clear", "existing", "find"}, NEW step \in WifiSteps
    PROVE  LET t == DeletingOf(old, todo, back, step)
           IN  t \in TaskType /\ DeletingFrom(old, t, todo, back, step)
<1> DEFINE go == IF todo = {} THEN step ELSE "delete"
           to == IF todo = {} THEN "idle" ELSE back
           t == DeletingOf(old, todo, back, step)
<1>1. go \in WifiSteps /\ to \in {"idle", "clear", "existing", "find"}
  BY DEF WifiSteps
<1>2. 1 \in 1..WriteAttempts
  BY WifiAssumption
<1>3. t = [old EXCEPT !.step = go, !.todo = todo, !.back = to, !.attempt = 1, !.error = FALSE]
  BY DEF DeletingOf
<1> HIDE DEF t, go, to
<1>4. t \in TaskType
  BY <1>1, <1>2, <1>3 DEF TaskType
<1>5. /\ t.step = go /\ t.kind = old.kind /\ t.name = old.name
      /\ t.tag = old.tag /\ t.todo = todo /\ t.back = to /\ t.profile = old.profile
  BY <1>3 DEF TaskType
<1>6. ~t.error
  BY <1>3 DEF TaskType
<1>7. t.alone = old.alone /\ t.smooth = old.smooth
  BY <1>3 DEF TaskType
<1>8. DeletingFrom(old, t, todo, back, step)
  BY <1>5, <1>6, <1>7 DEF DeletingFrom, go, to
<1> QED
  BY <1>4, <1>8 DEF t

\* After an answer that was lost a write is tried again, or what it did is read.
LEMMA NextAttemptTask ==
    ASSUME task \in [WifiRequest -> TaskType], NEW o \in WifiRequest,
           NEW read \in WifiSteps, NextAttempt(o, read)
    PROVE  \E t \in TaskType :
              /\ task' = [task EXCEPT ![o] = t]
              /\ \/ t.step = task[o].step /\ t.error = task[o].error
                 \/ t.step = read /\ t.error
              /\ t.todo = task[o].todo
              /\ t.alone = task[o].alone /\ ~t.smooth
<1> DEFINE again == [task[o] EXCEPT !.attempt = @ + 1, !.replayed = FALSE, !.smooth = FALSE]
           last == [task[o] EXCEPT !.step = read, !.attempt = 1, !.replayed = FALSE,
                                   !.error = TRUE, !.smooth = FALSE]
<1>1. CASE task[o].attempt < WriteAttempts
  <2>1. task[o].attempt + 1 \in 1..WriteAttempts
    BY <1>1, WifiAssumption DEF TaskType
  <2>2. /\ again \in TaskType
        /\ again.step = task[o].step /\ again.error = task[o].error
        /\ again.todo = task[o].todo
        /\ again.alone = task[o].alone /\ ~again.smooth
    <3>1. task[o] \in TaskType
      OBVIOUS
    <3>2. again \in TaskType
      BY <2>1, <3>1 DEF TaskType
    <3>3. again.step = task[o].step /\ again.todo = task[o].todo
      BY <3>1 DEF TaskType
    <3>4. again.error = task[o].error
      BY <3>1 DEF TaskType
    <3>5. again.alone = task[o].alone
      BY <3>1 DEF TaskType
    <3>6. ~again.smooth
      BY <3>1 DEF TaskType
    <3> QED
      BY <3>2, <3>3, <3>4, <3>5, <3>6
  <2>3. task' = [task EXCEPT ![o] = again]
    BY <1>1 DEF NextAttempt
  <2> HIDE DEF again
  <2> QED
    BY <2>2, <2>3
<1>2. CASE ~(task[o].attempt < WriteAttempts)
  <2>1. 1 \in 1..WriteAttempts
    BY WifiAssumption
  <2>2. /\ last \in TaskType
        /\ last.step = read /\ last.error
        /\ last.todo = task[o].todo
        /\ last.alone = task[o].alone /\ ~last.smooth
    <3>1. task[o] \in TaskType
      OBVIOUS
    <3>2. last \in TaskType
      BY <2>1, <3>1 DEF TaskType
    <3>3. last.step = read /\ last.todo = task[o].todo
      BY <3>1 DEF TaskType
    <3>4. last.error
      BY <3>1 DEF TaskType
    <3>5. last.alone = task[o].alone
      BY <3>1 DEF TaskType
    <3>6. ~last.smooth
      BY <3>1 DEF TaskType
    <3> QED
      BY <3>2, <3>3, <3>4, <3>5, <3>6
  <2>3. task' = [task EXCEPT ![o] = last]
    BY <1>2 DEF NextAttempt
  <2> HIDE DEF last
  <2> QED
    BY <2>2, <2>3
<1> QED
  BY <1>1, <1>2

-----------------------------------------------------------------------------
(* The steps of a request.                                                  *)

\* The faults keep their bound.
LEMMA FaultsFit ==
    ASSUME WifiIInv, WifiAnswers \/ WifiRaises
    PROVE  wifiFaults' \in 0..MaxWifiFaults
  BY WifiAssumption DEF WifiIInv, WifiTypeOK, WifiAnswers, WifiRaises

\* A step that changes nothing but the record of the request.
LEMMA RecordStep ==
    ASSUME WifiIInv, NEW o \in WifiRequest, task[o].step # "idle",
           NEW t \in TaskType, task' = [task EXCEPT ![o] = t],
           t.alone => task[o].alone /\ t.step # "idle",
           UNCHANGED <<wlans, profiles, lastId, deleted, wifiRequests, made>>,
           WifiAnswers \/ WifiRaises,
           TaskFits(t, wlans, lastId), ProvisionFits(t, wlans, profiles)
    PROVE  WifiIInv'
<1>1. /\ wlans' \subseteq WlanType /\ profiles' \subseteq [id : Id, tag : Tag]
      /\ lastId' \in lastId..MaxIds /\ deleted' \subseteq 1..lastId'
      /\ IdsOf(wlans') \subseteq IdsOf(wlans) \cup ((lastId + 1)..lastId')
      /\ \A w \in wlans' : w.id \notin deleted'
      /\ made' \in [name : Name, tag : Tag \cup {Untagged}, valid : BOOLEAN]
  BY WifiAssumption DEF WifiIInv, WifiTypeOK, DeletedStaysGone
<1>2. TaskFits(t, wlans', lastId') /\ ProvisionFits(t, wlans', profiles')
  <2>1. wlans' = wlans /\ profiles' = profiles /\ lastId' = lastId
    OBVIOUS
  <2> QED
    BY <2>1
<1> QED
  BY <1>1, <1>2, FaultsFit, TaskStep

\* The request ends; a provision that nothing disturbed has left its SSID.
LEMMA EndTaskStep ==
    ASSUME WifiIInv, NEW o \in WifiRequest, task[o].step # "idle",
           NEW raised \in BOOLEAN, EndTask(o, raised),
           wlans' \subseteq WlanType, profiles' \subseteq [id : Id, tag : Tag],
           UNCHANGED <<lastId, wifiRequests>>, deleted' \subseteq 1..lastId,
           IdsOf(wlans') \subseteq IdsOf(wlans), \A w \in wlans' : w.id \notin deleted',
           WifiAnswers \/ WifiRaises,
           Undisturbed(task[o]) /\ ~raised =>
               \E w \in wlans' : /\ {x \in wlans' : x.name = task[o].name} = {w}
                                 /\ w.new
                                 /\ ProfileFits([tag |-> task[o].tag, profile |-> w.profile],
                                                profiles')
    PROVE  WifiIInv'
<1>1. task' = [task EXCEPT ![o] = NoTask]
  BY DEF EndTask
<1>2. /\ lastId' \in lastId..MaxIds /\ deleted' \subseteq 1..lastId'
      /\ IdsOf(wlans') \subseteq IdsOf(wlans) \cup ((lastId + 1)..lastId')
      /\ task[o] \in TaskType
  BY WifiAssumption DEF WifiIInv, WifiTypeOK, TaskType
<1> DEFINE good == task[o].kind = "provision" /\ task[o].alone /\ task[o].smooth /\ ~raised
<1>3. made' = IF good THEN [name |-> task[o].name, tag |-> task[o].tag, valid |-> TRUE] ELSE NoMade
  BY DEF EndTask
<1>4. NoMade \in [name : Name, tag : Tag \cup {Untagged}, valid : BOOLEAN] /\ ~NoMade.valid
  BY NoTaskFits DEF NoMade, TaskType
<1>5. made' \in [name : Name, tag : Tag \cup {Untagged}, valid : BOOLEAN]
  <2>1. /\ task[o].name \in Name /\ task[o].tag \in Tag \cup {Untagged}
    BY <1>2 DEF TaskType
  <2> HIDE DEF good
  <2> QED
    BY <1>3, <1>4, <2>1
<1>6. ASSUME made'.valid
      PROVE  ProvisionLeavesOne' /\ task[o].alone /\ NoTask.step = "idle"
  <2>1. good
    BY <1>3, <1>4, <1>6
  <2>2. made'.name = task[o].name /\ made'.tag = task[o].tag
    BY <1>3, <2>1
  <2>3. PICK w \in wlans' : /\ {x \in wlans' : x.name = task[o].name} = {w}
                            /\ w.new
                            /\ ProfileFits([tag |-> task[o].tag, profile |-> w.profile], profiles')
    BY <2>1 DEF Undisturbed
  <2>4. w.profile \in IF task[o].tag = Untagged THEN {0}
                      ELSE {p.id : p \in {q \in profiles' : q.tag = task[o].tag}}
    BY <2>3 DEF ProfileFits
  <2>5. ProvisionLeavesOne'
    BY <2>2, <2>3, <2>4 DEF ProvisionLeavesOne, Called, ProfilesOf
  <2> QED
    BY <2>1, <2>5, NoTaskFits
<1> HIDE DEF good
<1> QED
  BY <1>1, <1>2, <1>5, <1>6, NoTaskFits, FaultsFit, TaskStep

\* A request that ends with a failure promises nothing.
LEMMA EndRaised ==
    ASSUME WifiIInv, NEW o \in WifiRequest, task[o].step # "idle",
           NEW raised \in BOOLEAN, EndTask(o, raised), raised \/ ~Undisturbed(task[o]),
           UNCHANGED <<wlans, profiles, lastId, deleted, wifiRequests>>,
           WifiAnswers \/ WifiRaises
    PROVE  WifiIInv'
<1>1. /\ wlans' \subseteq WlanType /\ profiles' \subseteq [id : Id, tag : Tag]
      /\ deleted' \subseteq 1..lastId /\ IdsOf(wlans') \subseteq IdsOf(wlans)
      /\ \A w \in wlans' : w.id \notin deleted'
  BY DEF WifiIInv, WifiTypeOK, DeletedStaysGone
<1> QED
  BY <1>1, EndTaskStep

\* What the invariant says of one request.
LEMMA WifiFits ==
    ASSUME WifiIInv, NEW o \in WifiRequest
    PROVE  /\ task \in [WifiRequest -> TaskType] /\ task[o] \in TaskType
           /\ TaskFits(task[o], wlans, lastId) /\ ProvisionFits(task[o], wlans, profiles)
           /\ OnlyOne(o)
           /\ wlans \subseteq WlanType /\ profiles \subseteq [id : Id, tag : Tag]
           /\ lastId \in 0..MaxIds /\ IdsOf(wlans) \subseteq 1..lastId
           /\ deleted \subseteq 1..lastId /\ 1..lastId \subseteq Id
           /\ \A w \in wlans : w.id \notin deleted
  BY WifiAssumption DEF WifiIInv, WifiTypeOK, TaskType, DeletedStaysGone, Id

\* Some steps of a request.
LEMMA WifiStepNames ==
    /\ "profile" \in WifiSteps /\ "existing" \in WifiSteps /\ "post" \in WifiSteps
    /\ "login" \in WifiSteps /\ "verify" \in WifiSteps /\ "put" \in WifiSteps
    /\ "drop" \in WifiSteps
  BY DEF WifiSteps

\* The login, for a request as it begins and again after a rejected token.
LEMMA LoginStep ==
    ASSUME WifiIInv, NEW o \in WifiRequest, Login(o)
    PROVE  WifiIInv'
<1> DEFINE to == CASE task[o].kind = "deprovision" -> "find"
                   [] task[o].kind = "remove" -> "delete"
                   [] task[o].kind = "edit" -> "get"
                   [] task[o].replace -> "clear"
                   [] OTHER -> Attach(o)
<1>1. /\ task[o].step = "login"
      /\ UNCHANGED <<wlans, profiles, lastId, deleted, wifiRequests>>
  BY DEF Login, Stands
<1>2. CASE WifiAnswers /\ Turn(o, to) /\ NoEnd
  <2>1. /\ to \in {"find", "delete", "get", "clear", "existing", "lookup"}
        /\ to = "delete" => task[o].kind = "remove"
        /\ task[o].kind = "provision" => to \in {"clear", "existing", "lookup"}
        /\ to = "lookup" => task[o].tag # Untagged
        /\ to = "existing" => task[o].tag = Untagged
    BY WifiFits DEF Attach, TaskType
  <2> HIDE DEF to
  <2>2. to \in WifiSteps
    BY <2>1 DEF WifiSteps
  <2>3. PICK t \in TaskType :
              /\ task' = [task EXCEPT ![o] = t]
              /\ t.step = to /\ t.kind = task[o].kind /\ t.name = task[o].name
              /\ t.tag = task[o].tag /\ t.todo = task[o].todo /\ t.back = task[o].back
              /\ t.profile = task[o].profile /\ t.error = task[o].error
              /\ t.alone = task[o].alone /\ t.smooth = task[o].smooth
    BY <1>2, <2>2, WifiFits, TurnTask
  <2>4. TaskFits(t, wlans, lastId)
    BY <1>1, <2>1, <2>3, WifiFits DEF TaskFits
  <2>5. ProvisionFits(t, wlans, profiles)
    BY <1>1, <2>1, <2>3, WifiFits DEF ProvisionFits, ProfileFits, Undisturbed
  <2> QED
    BY <1>1, <1>2, <2>1, <2>3, <2>4, <2>5, RecordStep DEF NoEnd
<1>3. CASE WifiRaises /\ EndTask(o, TRUE)
  BY <1>1, <1>3, EndRaised
<1> QED
  BY <1>2, <1>3 DEF Login

\* Deletes begin, or there was nothing to delete.
LEMMA DeletingStep ==
    ASSUME WifiIInv, NEW o \in WifiRequest, task[o].step # "idle",
           NEW todo \in SUBSET (1..lastId), NEW back \in {"idle", "clear", "existing", "find"},
           NEW step \in WifiSteps \ {"idle", "confirm", "delete", "login"},
           Deleting(o, todo, back, step),
           UNCHANGED <<wlans, profiles, lastId, wifiRequests, made>>,
           WifiAnswers \/ WifiRaises,
           deleted' \subseteq 1..lastId, \A w \in wlans : w.id \notin deleted',
           step = "lookup" => task[o].tag # Untagged, step # "profile",
           Undisturbed(task[o]) =>
              /\ back \in {"clear", "existing"}
              /\ step \in {"existing", "lookup", "post"}
              /\ back = "clear" \/ step \in {"lookup"} => task[o].profile = 0
              /\ back = "existing" \/ step \in {"existing", "post"} => ProfileFits(task[o], profiles)
              /\ back = "existing" => IdsOf(Called(task[o].name)) \subseteq todo
              /\ step = "post" => IdsOf(Called(task[o].name)) \subseteq todo
    PROVE  WifiIInv'
<1>0. todo \in SUBSET Id /\ step \in WifiSteps /\ task \in [WifiRequest -> TaskType]
  BY WifiFits
<1> DEFINE t == DeletingOf(task[o], todo, back, step)
<1>1. t \in TaskType /\ DeletingFrom(task[o], t, todo, back, step)
  BY <1>0, WifiFits, DeletingTask
<1>1a. task' = [task EXCEPT ![o] = t]
  BY <1>0 DEF Deleting, DeletingOf
<1> HIDE DEF t
<1>2. TaskFits(t, wlans, lastId)
  BY <1>1, WifiFits DEF TaskFits, DeletingFrom
<1>3. ProvisionFits(t, wlans, profiles)
  <2> SUFFICES ASSUME Undisturbed(t) PROVE ProvisionFits(t, wlans, profiles)
    BY DEF ProvisionFits
  <2>1. /\ Undisturbed(task[o])
        /\ ProfileFits(task[o], profiles) => ProfileFits(t, profiles)
        /\ {w \in wlans : w.name = t.name} = Called(task[o].name)
    BY <1>1 DEF Undisturbed, ProfileFits, Called, DeletingFrom
  <2>2. t.step = "post" => Called(task[o].name) = {}
    BY <1>1, <2>1 DEF IdsOf, DeletingFrom
  <2> QED
    BY <1>1, <2>1, <2>2 DEF ProvisionFits, DeletingFrom
<1>4. /\ wlans' \subseteq WlanType /\ profiles' \subseteq [id : Id, tag : Tag]
      /\ lastId' \in lastId..MaxIds /\ deleted' \subseteq 1..lastId'
      /\ IdsOf(wlans') \subseteq IdsOf(wlans) \cup ((lastId + 1)..lastId')
      /\ \A w \in wlans' : w.id \notin deleted'
      /\ made' \in [name : Name, tag : Tag \cup {Untagged}, valid : BOOLEAN]
  BY WifiFits, WifiAssumption DEF WifiIInv, WifiTypeOK
<1>5. TaskFits(t, wlans', lastId') /\ ProvisionFits(t, wlans', profiles')
  <2>1. wlans' = wlans /\ profiles' = profiles /\ lastId' = lastId
    OBVIOUS
  <2> QED
    BY <1>2, <1>3, <2>1
<1>6. t.step # "idle" /\ (t.alone => task[o].alone)
  BY <1>1 DEF DeletingFrom
<1> QED
  BY <1>1, <1>1a, <1>4, <1>5, <1>6, FaultsFit, TaskStep

\* A task that is not undisturbed has nothing to show.
LEMMA DisturbedProvision ==
    ASSUME NEW t, ~t.smooth
    PROVE  \A W, P : ProvisionFits(t, W, P)
  BY DEF ProvisionFits, Undisturbed

\* A delete, once or twice, or not carried out.
LEMMA DeleteStep ==
    ASSUME WifiIInv, NEW o \in WifiRequest, DeleteWlan(o)
    PROVE  WifiIInv'
<1> DEFINE rest == {w \in wlans : w.id # Target(o)}
<1>1. /\ task[o].step = "delete"
      /\ UNCHANGED <<profiles, lastId, deleted, wifiRequests, made>>
  BY DEF DeleteWlan, Stands, NoEnd
<1>2. /\ rest \subseteq wlans /\ Target(o) \notin IdsOf(rest)
      /\ Target(o) = FirstOf(task[o].todo)
  BY DEF IdsOf, Target, FirstOf
<1>3. wlans' \in {wlans, rest}
  BY DEF DeleteWlan
<1>4. /\ wlans' \subseteq WlanType /\ profiles' \subseteq [id : Id, tag : Tag]
      /\ lastId' \in lastId..MaxIds /\ deleted' \subseteq 1..lastId'
      /\ IdsOf(wlans') \subseteq IdsOf(wlans) \cup ((lastId + 1)..lastId')
      /\ \A w \in wlans' : w.id \notin deleted'
      /\ made' \in [name : Name, tag : Tag \cup {Untagged}, valid : BOOLEAN]
  <2>1. wlans' \subseteq wlans
    BY <1>2, <1>3
  <2>2. IdsOf(wlans') \subseteq IdsOf(wlans)
    BY <2>1 DEF IdsOf
  <2> QED
    BY <1>1, <2>1, <2>2, WifiFits, WifiAssumption DEF WifiIInv, WifiTypeOK
<1>5. CASE wlans' = rest /\ WifiAnswers /\ Turn(o, "confirm")
  <2>1. "confirm" \in WifiSteps
    BY DEF WifiSteps
  <2>2. PICK t \in TaskType :
              /\ task' = [task EXCEPT ![o] = t]
              /\ t.step = "confirm" /\ t.kind = task[o].kind /\ t.name = task[o].name
              /\ t.tag = task[o].tag /\ t.todo = task[o].todo /\ t.back = task[o].back
              /\ t.profile = task[o].profile /\ t.error = task[o].error
              /\ t.alone = task[o].alone /\ t.smooth = task[o].smooth
    BY <1>5, <2>1, WifiFits, TurnTask
  <2> HIDE DEF rest
  <2>3. TaskFits(t, wlans', lastId')
    BY <1>1, <1>2, <1>5, <2>2, WifiFits DEF TaskFits
  <2>4. ProvisionFits(t, wlans', profiles')
    <3> DEFINE named == {w \in wlans' : w.name = t.name}
    <3>1. IdsOf(named) \subseteq IdsOf({w \in wlans : w.name = task[o].name})
      BY <1>2, <1>5, <2>2 DEF IdsOf
    <3> SUFFICES ASSUME Undisturbed(t) PROVE ProvisionFits(t, wlans', profiles')
      BY DEF ProvisionFits
    <3>2. Undisturbed(task[o]) /\ ~task[o].error
      BY <2>2, WifiFits DEF Undisturbed, ProvisionFits
    <3>3. /\ task[o].back \in {"clear", "existing"}
          /\ task[o].back = "clear" => task[o].profile = 0
          /\ task[o].back = "existing" => /\ ProfileFits(task[o], profiles)
                                          /\ IdsOf({w \in wlans : w.name = task[o].name})
                                                \subseteq task[o].todo
      BY <1>1, <3>2, WifiFits DEF ProvisionFits
    <3>4. ProfileFits(task[o], profiles) => ProfileFits(t, profiles')
      BY <1>1, <2>2 DEF ProfileFits
    <3> HIDE DEF named
    <3>5. ProvisionFits(t, wlans', profiles') <=>
             (t.back = "existing" => IdsOf(named) \subseteq t.todo)
      BY <2>2, <3>2, <3>3, <3>4 DEF ProvisionFits, named
    <3> QED
      BY <2>2, <3>1, <3>3, <3>5
  <2> QED
    BY <1>1, <1>4, <1>5, <2>2, <2>3, <2>4, FaultsFit, TaskStep
<1>6. CASE WifiRaises /\ NextAttempt(o, "confirm")
  <2>1. "confirm" \in WifiSteps
    BY DEF WifiSteps
  <2>2. PICK t \in TaskType :
              /\ task' = [task EXCEPT ![o] = t]
              /\ \/ t.step = task[o].step /\ t.error = task[o].error
                 \/ t.step = "confirm" /\ t.error
              /\ t.todo = task[o].todo
              /\ t.alone = task[o].alone /\ ~t.smooth
    BY <1>6, <2>1, WifiFits, NextAttemptTask
  <2> HIDE DEF rest
  <2>3. TaskFits(t, wlans', lastId')
    BY <1>1, <2>2, WifiFits DEF TaskFits
  <2>4. ProvisionFits(t, wlans', profiles')
    BY <2>2, DisturbedProvision
  <2> QED
    BY <1>1, <1>4, <1>6, <2>2, <2>3, <2>4, FaultsFit, TaskStep
<1> QED
  BY <1>5, <1>6 DEF DeleteWlan

\* The delete of one SSID has ended; if it is reported deleted, it is gone.
LEMMA ConfirmStep ==
    ASSUME WifiIInv, NEW o \in WifiRequest, ConfirmDelete(o)
    PROVE  WifiIInv'
<1> DEFINE left == task[o].todo \ {Target(o)}
<1>1. /\ task[o].step = "confirm"
      /\ UNCHANGED <<wlans, profiles, lastId, wifiRequests>>
      /\ WifiAnswers \/ WifiRaises
  BY DEF ConfirmDelete, Stands
<1>2. /\ Target(o) = FirstOf(task[o].todo) /\ Target(o) \in task[o].todo
      /\ Target(o) \in 1..lastId
  BY <1>1, WifiFits DEF Target, FirstOf, TaskFits
<1>3. ~task[o].error => Target(o) \notin IdsOf(wlans)
  BY <1>1, <1>2, WifiFits DEF TaskFits
<1>4. \/ Deleted(o) /\ Target(o) \notin IdsOf(wlans)
      \/ NotDeleted(o) /\ ~Undisturbed(task[o])
  BY <1>1, <1>3, WifiFits DEF ConfirmDelete, IdsOf, ProvisionFits
<1>5. left \in SUBSET (1..lastId)
  BY WifiFits DEF TaskFits
<1>6. /\ Attach(o) \in WifiSteps \ {"idle", "confirm", "delete", "login"}
      /\ {"post", "drop"} \subseteq WifiSteps \ {"idle", "confirm", "delete", "login"}
      /\ Attach(o) \in {"existing", "lookup"}
      /\ Attach(o) = "existing" <=> task[o].tag = Untagged
  BY DEF Attach, WifiSteps
<1>7. CASE Deleted(o) /\ Target(o) \notin IdsOf(wlans)
  <2>1. deleted' = deleted \cup {Target(o)}
    BY <1>7 DEF Deleted
  <2>2. deleted' \subseteq 1..lastId /\ \A w \in wlans : w.id \notin deleted'
    BY <1>2, <1>7, <2>1, WifiFits DEF IdsOf
  <2>3. Undisturbed(task[o]) =>
           /\ task[o].back \in {"clear", "existing"}
           /\ task[o].back = "clear" => task[o].profile = 0
           /\ task[o].back = "existing" => /\ ProfileFits(task[o], profiles)
                                           /\ IdsOf(Called(task[o].name)) \subseteq left
    <3>1. Undisturbed(task[o]) /\ task[o].back = "existing" =>
             /\ ProfileFits(task[o], profiles)
             /\ IdsOf(Called(task[o].name)) \subseteq task[o].todo
      BY <1>1, WifiFits DEF ProvisionFits, Called
    <3>2. Target(o) \notin IdsOf(Called(task[o].name))
      BY <1>7 DEF IdsOf, Called
    <3> QED
      BY <1>1, <3>1, <3>2, WifiFits DEF ProvisionFits
  <2> HIDE DEF left
  <2>4. CASE task[o].back = "clear"
    <3>1. Deleting(o, left, "clear", Attach(o)) /\ NoEnd
      BY <1>7, <2>4 DEF Deleted, left
    <3>2. Undisturbed(task[o]) /\ Attach(o) = "existing" => ProfileFits(task[o], profiles)
      BY <1>6, <2>3, <2>4 DEF ProfileFits
    <3> QED
      BY <1>1, <1>5, <1>6, <2>2, <2>3, <2>4, <3>1, <3>2, DeletingStep DEF NoEnd
  <2>5. CASE task[o].back = "existing"
    <3>1. Deleting(o, left, "existing", "post") /\ NoEnd
      BY <1>7, <2>5 DEF Deleted, left
    <3> QED
      BY <1>1, <1>5, <1>6, <2>2, <2>3, <2>5, <3>1, DeletingStep DEF NoEnd
  <2>6. CASE task[o].back = "find"
    <3>1. Deleting(o, {}, "idle", "drop") /\ NoEnd
      BY <1>7, <2>6 DEF Deleted
    <3> QED
      BY <1>1, <1>6, <2>2, <2>3, <2>6, <3>1, DeletingStep DEF NoEnd
  <2>7. CASE task[o].back \notin {"clear", "existing", "find"}
    <3>1. EndTask(o, FALSE)
      BY <1>7, <2>7 DEF Deleted
    <3>2. ~Undisturbed(task[o])
      BY <2>3, <2>7
    <3> QED
      BY <1>1, <2>2, <3>1, <3>2, WifiFits, EndTaskStep
  <2> QED
    BY <2>4, <2>5, <2>6, <2>7
<1>8. CASE NotDeleted(o) /\ ~Undisturbed(task[o])
  <2>1. /\ UNCHANGED deleted /\ deleted' \subseteq 1..lastId
        /\ \A w \in wlans : w.id \notin deleted'
    BY <1>8, WifiFits DEF NotDeleted
  <2> HIDE DEF left
  <2>2. CASE task[o].back = "clear"
    <3>1. Deleting(o, left, "clear", Attach(o)) /\ NoEnd
      BY <1>8, <2>2 DEF NotDeleted, left
    <3> QED
      BY <1>1, <1>5, <1>6, <1>8, <2>1, <3>1, DeletingStep DEF NoEnd
  <2>3. CASE task[o].back = "existing"
    <3>1. Deleting(o, {}, "idle", "post") /\ NoEnd
      BY <1>8, <2>3 DEF NotDeleted
    <3> QED
      BY <1>1, <1>6, <1>8, <2>1, <3>1, DeletingStep DEF NoEnd
  <2>4. CASE task[o].back \notin {"clear", "existing"}
    <3>1. EndTask(o, TRUE)
      BY <1>8, <2>4 DEF NotDeleted
    <3> QED
      BY <1>1, <2>1, <3>1, EndRaised
  <2> QED
    BY <2>2, <2>3, <2>4
<1> QED
  BY <1>4, <1>7, <1>8

\* The SSIDs that a provision clears.
LEMMA ClearStep ==
    ASSUME WifiIInv, NEW o \in WifiRequest, ClearWlans(o)
    PROVE  WifiIInv'
<1> DEFINE todo == {w.id : w \in wlans \ Called(task[o].name)}
<1>1. /\ task[o].step = "clear"
      /\ UNCHANGED <<wlans, profiles, lastId, deleted, wifiRequests>>
  BY DEF ClearWlans, Stands
<1>2. CASE WifiAnswers /\ Deleting(o, todo, "clear", Attach(o)) /\ NoEnd
  <2>1. todo \in SUBSET (1..lastId)
    BY WifiFits DEF IdsOf
  <2>2. /\ Attach(o) \in WifiSteps \ {"idle", "confirm", "delete", "login"}
        /\ Attach(o) \in {"existing", "lookup"}
        /\ Attach(o) = "existing" <=> task[o].tag = Untagged
    BY DEF Attach, WifiSteps
  <2>3. Undisturbed(task[o]) => task[o].profile = 0
    BY <1>1, WifiFits DEF ProvisionFits
  <2>4. Undisturbed(task[o]) /\ Attach(o) = "existing" => ProfileFits(task[o], profiles)
    BY <2>2, <2>3 DEF ProfileFits
  <2>5. deleted' \subseteq 1..lastId /\ \A w \in wlans : w.id \notin deleted'
    BY <1>1, WifiFits
  <2> HIDE DEF todo
  <2> QED
    BY <1>1, <1>2, <2>1, <2>2, <2>3, <2>4, <2>5, DeletingStep DEF NoEnd
<1>3. CASE WifiRaises /\ EndTask(o, TRUE)
  BY <1>1, <1>3, EndRaised
<1> QED
  BY <1>2, <1>3 DEF ClearWlans

\* The SSIDs of the name of a provision.
LEMMA ExistingStep ==
    ASSUME WifiIInv, NEW o \in WifiRequest, RemoveExisting(o)
    PROVE  WifiIInv'
<1> DEFINE todo == {w.id : w \in Called(task[o].name)}
<1>1. /\ task[o].step = "existing"
      /\ UNCHANGED <<wlans, profiles, lastId, deleted, wifiRequests, made>>
  BY DEF RemoveExisting, Stands, NoEnd
<1>2. CASE WifiAnswers /\ Deleting(o, todo, "existing", "post")
  <2>1. todo \in SUBSET (1..lastId)
    BY WifiFits DEF IdsOf, Called
  <2>2. "post" \in WifiSteps \ {"idle", "confirm", "delete", "login"}
    BY DEF WifiSteps
  <2>3. Undisturbed(task[o]) => ProfileFits(task[o], profiles)
    BY <1>1, WifiFits DEF ProvisionFits
  <2>4. IdsOf(Called(task[o].name)) \subseteq todo
    BY DEF IdsOf
  <2>5. deleted' \subseteq 1..lastId /\ \A w \in wlans : w.id \notin deleted'
    BY <1>1, WifiFits
  <2> HIDE DEF todo
  <2> QED
    BY <1>1, <1>2, <2>1, <2>2, <2>3, <2>4, <2>5, DeletingStep
<1>3. CASE WifiRaises /\ task' = [task EXCEPT ![o].step = "post", ![o].smooth = FALSE]
  <2> DEFINE t == [task[o] EXCEPT !.step = "post", !.smooth = FALSE]
  <2>1. task' = [task EXCEPT ![o] = t]
    BY <1>3, WifiFits
  <2>2. t \in TaskType
    BY WifiStepNames, WifiFits DEF TaskType
  <2>3. t.step = "post" /\ t.todo = task[o].todo
    BY WifiFits DEF TaskType
  <2>4. ~t.smooth /\ t.alone = task[o].alone
    BY WifiFits DEF TaskType
  <2> HIDE DEF t
  <2>5. TaskFits(t, wlans, lastId)
    BY <2>3, WifiFits DEF TaskFits
  <2> QED
    BY <1>1, <1>3, <2>1, <2>2, <2>3, <2>4, <2>5, DisturbedProvision, RecordStep
<1> QED
  BY <1>2, <1>3 DEF RemoveExisting

\* The profile of the VLAN, found or not.
LEMMA LookupStep ==
    ASSUME WifiIInv, NEW o \in WifiRequest, LookupProfile(o)
    PROVE  WifiIInv'
<1>1. /\ task[o].step = "lookup"
      /\ UNCHANGED <<wlans, profiles, lastId, deleted, wifiRequests, made>>
  BY DEF LookupProfile, Stands, NoEnd
<1>2. CASE WifiAnswers /\ Turn(o, "profile")
  <2>1. "profile" \in WifiSteps
    BY DEF WifiSteps
  <2>2. PICK t \in TaskType :
              /\ task' = [task EXCEPT ![o] = t]
              /\ t.step = "profile" /\ t.kind = task[o].kind /\ t.name = task[o].name
              /\ t.tag = task[o].tag /\ t.todo = task[o].todo /\ t.back = task[o].back
              /\ t.profile = task[o].profile /\ t.error = task[o].error
              /\ t.alone = task[o].alone /\ t.smooth = task[o].smooth
    BY <1>2, <2>1, WifiFits, TurnTask
  <2>3. TaskFits(t, wlans, lastId)
    BY <1>1, <2>2, WifiFits DEF TaskFits
  <2>4. ProvisionFits(t, wlans, profiles)
    BY <1>1, <2>2, WifiFits DEF ProvisionFits, Undisturbed
  <2> QED
    BY <1>1, <1>2, <2>2, <2>3, <2>4, RecordStep
<1>3. ASSUME WifiAnswers, NEW p \in ProfilesOf(task[o].tag),
             task' = [task EXCEPT ![o].step = "existing", ![o].profile = p]
      PROVE  WifiIInv'
  <2> DEFINE t == [task[o] EXCEPT !.step = "existing", !.profile = p]
  <2>1. task' = [task EXCEPT ![o] = t]
    BY <1>3, WifiFits
  <2>2. p \in 0..MaxIds /\ p \in {q.id : q \in {r \in profiles : r.tag = task[o].tag}}
    BY WifiFits DEF ProfilesOf, Id
  <2>3. t \in TaskType
    <3>1. task[o] \in TaskType
      BY WifiFits
    <3>2. t \in TaskType
      BY <2>2, <3>1, WifiStepNames DEF TaskType
    <3> QED BY <3>2
  <2>4. /\ t.step = "existing" /\ t.todo = task[o].todo /\ t.kind = task[o].kind
        /\ t.tag = task[o].tag /\ t.profile = p
    BY WifiFits DEF TaskType
  <2>5. t.error = task[o].error /\ t.smooth = task[o].smooth /\ t.alone = task[o].alone
    BY WifiFits DEF TaskType
  <2> HIDE DEF t
  <2>6. TaskFits(t, wlans, lastId)
    BY <2>4, WifiFits DEF TaskFits
  <2>7. ProfileFits(t, profiles)
    BY <1>1, <2>2, <2>4, WifiFits DEF TaskFits, ProfileFits
  <2>8. ProvisionFits(t, wlans, profiles)
    BY <1>1, <2>4, <2>5, <2>7, WifiFits DEF ProvisionFits, Undisturbed
  <2> QED
    BY <1>1, <1>3, <2>1, <2>3, <2>4, <2>5, <2>6, <2>8, RecordStep
<1>4. CASE WifiRaises /\ task' = [task EXCEPT ![o].step = "profile", ![o].smooth = FALSE]
  <2> DEFINE t == [task[o] EXCEPT !.step = "profile", !.smooth = FALSE]
  <2>1. task' = [task EXCEPT ![o] = t]
    BY <1>4, WifiFits
  <2>2. t \in TaskType
    BY WifiStepNames, WifiFits DEF TaskType
  <2>3. t.step = "profile" /\ t.todo = task[o].todo /\ t.tag = task[o].tag
    BY WifiFits DEF TaskType
  <2>4. ~t.smooth /\ t.alone = task[o].alone
    BY WifiFits DEF TaskType
  <2> HIDE DEF t
  <2>5. TaskFits(t, wlans, lastId)
    BY <1>1, <2>3, WifiFits DEF TaskFits
  <2> QED
    BY <1>1, <1>4, <2>1, <2>2, <2>3, <2>4, <2>5, DisturbedProvision, RecordStep
<1> QED
  BY <1>2, <1>3, <1>4 DEF LookupProfile

\* The profile is made, or one of the VLAN is found after all.
LEMMA ProfileStep ==
    ASSUME WifiIInv, NEW o \in WifiRequest, CreateProfile(o)
    PROVE  WifiIInv'
<1> DEFINE more == profiles \cup {[id |-> lastId + 1, tag |-> task[o].tag]}
<1>1. /\ task[o].step = "profile" /\ lastId < MaxIds
      /\ UNCHANGED <<wlans, deleted, wifiRequests, made>>
      /\ WifiAnswers \/ WifiRaises
  BY DEF CreateProfile, Stands, NoEnd
<1>3. lastId + 1 \in Id /\ lastId + 1 \in 0..MaxIds
  BY <1>1, WifiFits, WifiAssumption DEF Id
<1>4. \/ profiles' = more /\ lastId' = lastId + 1
      \/ UNCHANGED <<profiles, lastId>>
  BY DEF CreateProfile
<1>5. task[o].tag \in Tag
  BY <1>1, WifiFits DEF TaskFits, TaskType
<1>6. /\ wlans' \subseteq WlanType /\ profiles' \subseteq [id : Id, tag : Tag]
      /\ lastId' \in lastId..MaxIds /\ deleted' \subseteq 1..lastId'
      /\ IdsOf(wlans') \subseteq IdsOf(wlans) \cup ((lastId + 1)..lastId')
      /\ \A w \in wlans' : w.id \notin deleted'
      /\ made' \in [name : Name, tag : Tag \cup {Untagged}, valid : BOOLEAN]
  <2>1. profiles' \subseteq [id : Id, tag : Tag]
    BY <1>3, <1>4, <1>5, WifiFits
  <2>2. lastId' \in lastId..MaxIds /\ lastId <= lastId'
    BY <1>3, <1>4, WifiFits
  <2>3. deleted' \subseteq 1..lastId'
    BY <1>1, <2>2, WifiFits
  <2> QED
    BY <1>1, <2>1, <2>2, <2>3, WifiFits DEF WifiIInv, WifiTypeOK
<1>7. CASE /\ WifiAnswers
           /\ profiles' = more /\ lastId' = lastId + 1
           /\ task' = [task EXCEPT ![o].step = "existing", ![o].profile = lastId + 1,
                                   ![o].replayed = FALSE]
  <2> DEFINE t == [task[o] EXCEPT !.step = "existing", !.profile = lastId + 1, !.replayed = FALSE]
  <2>1. task' = [task EXCEPT ![o] = t]
    BY <1>7, WifiFits
  <2>2. t \in TaskType
    BY <1>3, WifiStepNames, WifiFits DEF TaskType
  <2>3. /\ t.step = "existing" /\ t.todo = task[o].todo /\ t.kind = task[o].kind
        /\ t.tag = task[o].tag /\ t.profile = lastId + 1
    BY WifiFits DEF TaskType
  <2>4. t.error = task[o].error /\ t.smooth = task[o].smooth /\ t.alone = task[o].alone
    BY WifiFits DEF TaskType
  <2> HIDE DEF t
  <2>5. TaskFits(t, wlans', lastId')
    BY <1>1, <1>7, <2>3, WifiFits DEF TaskFits
  <2>6. ProfileFits(t, profiles')
    <3>1. t.tag # Untagged
      BY <1>5, <2>3, WifiAssumption
    <3>2. [id |-> lastId + 1, tag |-> task[o].tag] \in {q \in profiles' : q.tag = t.tag}
      BY <1>7, <2>3
    <3> QED
      BY <2>3, <3>1, <3>2 DEF ProfileFits
  <2>7. ProvisionFits(t, wlans', profiles')
    BY <1>1, <2>3, <2>4, <2>6, WifiFits DEF ProvisionFits, Undisturbed
  <2> HIDE DEF more
  <2> QED
    BY <1>1, <1>6, <2>1, <2>2, <2>3, <2>4, <2>5, <2>7, FaultsFit, TaskStep
<1>8. CASE task' = [task EXCEPT ![o].replayed = TRUE, ![o].smooth = FALSE]
  <2> DEFINE t == [task[o] EXCEPT !.replayed = TRUE, !.smooth = FALSE]
  <2>1. task' = [task EXCEPT ![o] = t]
    BY <1>8, WifiFits
  <2>2. t \in TaskType
    BY WifiFits DEF TaskType
  <2>3. t.step = "profile" /\ t.todo = task[o].todo /\ t.tag = task[o].tag
    BY <1>1, WifiFits DEF TaskType
  <2>4. ~t.smooth /\ t.alone = task[o].alone
    BY WifiFits DEF TaskType
  <2> HIDE DEF t, more
  <2>5. TaskFits(t, wlans', lastId')
    BY <1>1, <1>4, <2>3, WifiFits DEF TaskFits
  <2>6. ProvisionFits(t, wlans', profiles')
    BY <2>4, DisturbedProvision
  <2> QED
    BY <1>1, <1>6, <2>1, <2>2, <2>3, <2>4, <2>5, <2>6, FaultsFit, TaskStep
<1>9. CASE task' = [task EXCEPT ![o].step = "existing", ![o].replayed = FALSE,
                                ![o].smooth = FALSE]
  <2> DEFINE t == [task[o] EXCEPT !.step = "existing", !.replayed = FALSE, !.smooth = FALSE]
  <2>1. task' = [task EXCEPT ![o] = t]
    BY <1>9, WifiFits
  <2>2. t \in TaskType
    BY WifiStepNames, WifiFits DEF TaskType
  <2>3. t.step = "existing" /\ t.todo = task[o].todo
    BY WifiFits DEF TaskType
  <2>4. ~t.smooth /\ t.alone = task[o].alone
    BY WifiFits DEF TaskType
  <2> HIDE DEF t, more
  <2>5. TaskFits(t, wlans', lastId')
    BY <1>1, <1>4, <2>3, WifiFits DEF TaskFits
  <2>6. ProvisionFits(t, wlans', profiles')
    BY <2>4, DisturbedProvision
  <2> QED
    BY <1>1, <1>6, <2>1, <2>2, <2>3, <2>4, <2>5, <2>6, FaultsFit, TaskStep
<1> QED
  BY <1>7, <1>8, <1>9 DEF CreateProfile

\* The SSID is made, or its post raises.
LEMMA PostStep ==
    ASSUME WifiIInv, NEW o \in WifiRequest, PostWlan(o)
    PROVE  WifiIInv'
<1> DEFINE own == [id |-> lastId + 1, name |-> task[o].name,
                   profile |-> task[o].profile, new |-> TRUE]
           more == wlans \cup {own}
<1>1. /\ task[o].step = "post" /\ lastId < MaxIds
      /\ UNCHANGED <<profiles, deleted, wifiRequests, made>>
      /\ WifiAnswers \/ WifiRaises
  BY DEF PostWlan, Stands, NoEnd
<1>2. lastId + 1 \in Id /\ lastId \in Nat /\ MaxIds \in Nat
  BY <1>1, WifiFits, WifiAssumption DEF Id
<1>3. \/ wlans' = more /\ lastId' = lastId + 1
      \/ UNCHANGED <<wlans, lastId>>
  BY DEF PostWlan
<1>10. \/ WifiAnswers /\ wlans' = more /\ lastId' = lastId + 1 /\ Turn(o, "verify")
       \/ task' = [task EXCEPT ![o].replayed = TRUE, ![o].smooth = FALSE]
       \/ NextAttempt(o, "verify")
  BY Zenon DEF PostWlan
<1>4. /\ own \in WlanType /\ own.id = lastId + 1 /\ own.name = task[o].name
      /\ own.profile = task[o].profile /\ own.new
  BY <1>2, WifiFits DEF WlanType, TaskType
<1> HIDE DEF own
<1>5. /\ wlans' \subseteq WlanType /\ profiles' \subseteq [id : Id, tag : Tag]
      /\ lastId' \in lastId..MaxIds /\ deleted' \subseteq 1..lastId'
      /\ IdsOf(wlans') \subseteq IdsOf(wlans) \cup ((lastId + 1)..lastId')
      /\ \A w \in wlans' : w.id \notin deleted'
      /\ made' \in [name : Name, tag : Tag \cup {Untagged}, valid : BOOLEAN]
  <2>1. wlans' \subseteq WlanType
    BY <1>3, <1>4, WifiFits
  <2>2. lastId' \in lastId..MaxIds /\ lastId <= lastId'
    BY <1>1, <1>2, <1>3
  <2>3. deleted' \subseteq 1..lastId'
    BY <1>1, <1>2, <2>2, WifiFits
  <2>4. IdsOf(wlans') \subseteq IdsOf(wlans) \cup ((lastId + 1)..lastId')
    BY <1>2, <1>3, <1>4 DEF IdsOf
  <2>5. lastId + 1 \notin deleted
    BY <1>2, WifiFits
  <2>6. \A w \in wlans' : w.id \notin deleted'
    BY <1>1, <1>3, <1>4, <2>5, WifiFits
  <2> QED
    BY <1>1, <2>1, <2>2, <2>3, <2>4, <2>6, WifiFits DEF WifiIInv, WifiTypeOK
<1>6. CASE WifiAnswers /\ wlans' = more /\ lastId' = lastId + 1 /\ Turn(o, "verify")
  <2>2. PICK t \in TaskType :
              /\ task' = [task EXCEPT ![o] = t]
              /\ t.step = "verify" /\ t.kind = task[o].kind /\ t.name = task[o].name
              /\ t.tag = task[o].tag /\ t.todo = task[o].todo /\ t.back = task[o].back
              /\ t.profile = task[o].profile /\ t.error = task[o].error
              /\ t.alone = task[o].alone /\ t.smooth = task[o].smooth
    BY <1>6, WifiStepNames, WifiFits, TurnTask
  <2>3. TaskFits(t, wlans', lastId')
    BY <1>2, <1>6, <2>2, WifiFits DEF TaskFits
  <2>4. ProvisionFits(t, wlans', profiles')
    <3> SUFFICES ASSUME Undisturbed(t) PROVE ProvisionFits(t, wlans', profiles')
      BY DEF ProvisionFits
    <3>1. Undisturbed(task[o])
      BY <2>2 DEF Undisturbed
    <3>2. /\ {w \in wlans : w.name = task[o].name} = {} /\ ProfileFits(task[o], profiles)
          /\ ~task[o].error
      BY <1>1, <3>1, WifiFits DEF ProvisionFits
    <3>3. {w \in wlans' : w.name = t.name} = {own} /\ own \in wlans'
      BY <1>4, <1>6, <2>2, <3>2
    <3>4. \E w \in wlans' : /\ {x \in wlans' : x.name = t.name} = {w}
                            /\ w.new /\ w.profile = t.profile
      BY <1>4, <2>2, <3>3
    <3>5. ProfileFits(t, profiles')
      BY <1>1, <2>2, <3>2 DEF ProfileFits
    <3> HIDE DEF more
    <3> QED
      BY <2>2, <3>2, <3>4, <3>5 DEF ProvisionFits
  <2> HIDE DEF more
  <2> QED
    BY <1>1, <1>5, <2>2, <2>3, <2>4, FaultsFit, TaskStep
<1>7. CASE task' = [task EXCEPT ![o].replayed = TRUE, ![o].smooth = FALSE]
  <2> DEFINE t == [task[o] EXCEPT !.replayed = TRUE, !.smooth = FALSE]
  <2>1. task' = [task EXCEPT ![o] = t]
    BY <1>7, WifiFits
  <2>2. t \in TaskType
    BY WifiFits DEF TaskType
  <2>3. t.step = "post" /\ t.todo = task[o].todo
    BY <1>1, WifiFits DEF TaskType
  <2>4. ~t.smooth /\ t.alone = task[o].alone
    BY WifiFits DEF TaskType
  <2> HIDE DEF t, more
  <2>5. TaskFits(t, wlans', lastId')
    BY <1>1, <1>2, <1>3, <2>3, WifiFits DEF TaskFits
  <2>6. ProvisionFits(t, wlans', profiles')
    BY <2>4, DisturbedProvision
  <2> QED
    BY <1>1, <1>5, <2>1, <2>2, <2>3, <2>4, <2>5, <2>6, FaultsFit, TaskStep
<1>8. CASE NextAttempt(o, "verify")
  <2>2. PICK t \in TaskType :
              /\ task' = [task EXCEPT ![o] = t]
              /\ \/ t.step = task[o].step /\ t.error = task[o].error
                 \/ t.step = "verify" /\ t.error
              /\ t.todo = task[o].todo
              /\ t.alone = task[o].alone /\ ~t.smooth
    BY <1>8, WifiStepNames, WifiFits, NextAttemptTask
  <2> HIDE DEF more
  <2>3. TaskFits(t, wlans', lastId')
    BY <1>1, <1>2, <1>3, <2>2, WifiFits DEF TaskFits
  <2>4. ProvisionFits(t, wlans', profiles')
    BY <2>2, DisturbedProvision
  <2>5. t.step # "idle"
    BY <1>1, <2>2
  <2> QED
    BY <1>1, <1>5, <2>2, <2>3, <2>4, <2>5, FaultsFit, TaskStep
<1> QED
  BY <1>10, <1>6, <1>7, <1>8

\* A provision ends once the controller lists its SSID.
LEMMA VerifyStep ==
    ASSUME WifiIInv, NEW o \in WifiRequest, VerifyWlan(o)
    PROVE  WifiIInv'
<1>1. /\ task[o].step = "verify"
      /\ UNCHANGED <<wlans, profiles, lastId, deleted, wifiRequests>>
      /\ WifiAnswers \/ WifiRaises
  BY DEF VerifyWlan, Stands
<1>2. Undisturbed(task[o]) =>
          \E w \in wlans' : /\ {x \in wlans' : x.name = task[o].name} = {w}
                            /\ w.new
                            /\ ProfileFits([tag |-> task[o].tag, profile |-> w.profile],
                                           profiles')
  BY <1>1, WifiFits DEF ProvisionFits, ProfileFits
<1>3. /\ wlans' \subseteq WlanType /\ profiles' \subseteq [id : Id, tag : Tag]
      /\ deleted' \subseteq 1..lastId /\ IdsOf(wlans') \subseteq IdsOf(wlans)
      /\ \A w \in wlans' : w.id \notin deleted'
  BY <1>1, WifiFits
<1>4. \E raised \in BOOLEAN : EndTask(o, raised)
  <2>1. EndTask(o, Called(task[o].name) = {}) \/ EndTask(o, task[o].error)
    BY DEF VerifyWlan
  <2>2. (Called(task[o].name) = {}) \in BOOLEAN /\ task[o].error \in BOOLEAN
    BY WifiFits DEF TaskType
  <2> QED
    BY <2>1, <2>2, Zenon
<1> QED
  BY <1>1, <1>2, <1>3, <1>4, EndTaskStep

\* A de-provision finds the SSIDs of its name.
LEMMA FindStep ==
    ASSUME WifiIInv, NEW o \in WifiRequest, FindWlan(o)
    PROVE  WifiIInv'
<1>1. /\ task[o].step = "find"
      /\ UNCHANGED <<wlans, profiles, lastId, deleted, wifiRequests>>
      /\ WifiAnswers \/ WifiRaises
  BY DEF FindWlan, Stands
<1>2. ~Undisturbed(task[o])
  BY <1>1, WifiFits DEF ProvisionFits
<1>3. ASSUME NEW w \in Called(task[o].name), Deleting(o, {w.id}, "find", "drop"), NoEnd
      PROVE  WifiIInv'
  <2>1. {w.id} \in SUBSET (1..lastId)
    BY WifiFits DEF IdsOf, Called
  <2>2. "drop" \in WifiSteps \ {"idle", "confirm", "delete", "login"}
    BY WifiStepNames
  <2>3. deleted' \subseteq 1..lastId /\ \A x \in wlans : x.id \notin deleted'
    BY <1>1, WifiFits
  <2> QED
    BY <1>1, <1>2, <1>3, <2>1, <2>2, <2>3, DeletingStep DEF NoEnd
<1>4. CASE Turn(o, "drop") /\ NoEnd
  <2>2. PICK t \in TaskType :
              /\ task' = [task EXCEPT ![o] = t]
              /\ t.step = "drop" /\ t.kind = task[o].kind /\ t.name = task[o].name
              /\ t.tag = task[o].tag /\ t.todo = task[o].todo /\ t.back = task[o].back
              /\ t.profile = task[o].profile /\ t.error = task[o].error
              /\ t.alone = task[o].alone /\ t.smooth = task[o].smooth
    BY <1>4, WifiStepNames, WifiFits, TurnTask
  <2>3. TaskFits(t, wlans, lastId)
    BY <2>2, WifiFits DEF TaskFits
  <2>4. ProvisionFits(t, wlans, profiles)
    BY <1>2, <2>2 DEF ProvisionFits, Undisturbed
  <2> QED
    BY <1>1, <1>4, <2>2, <2>3, <2>4, RecordStep DEF NoEnd
<1>5. CASE EndTask(o, TRUE)
  BY <1>1, <1>5, EndRaised
<1> QED
  BY <1>3, <1>4, <1>5 DEF FindWlan

\* The profiles of the VLAN are dropped.
LEMMA DropStep ==
    ASSUME WifiIInv, NEW o \in WifiRequest, DropProfile(o)
    PROVE  WifiIInv'
<1>1. /\ task[o].step = "drop"
      /\ UNCHANGED <<wlans, lastId, deleted, wifiRequests>>
      /\ WifiAnswers \/ WifiRaises
      /\ EndTask(o, FALSE)
      /\ profiles' \subseteq profiles
  BY DEF DropProfile, Stands
<1>2. ~Undisturbed(task[o])
  BY <1>1, WifiFits DEF ProvisionFits
<1>3. /\ wlans' \subseteq WlanType /\ profiles' \subseteq [id : Id, tag : Tag]
      /\ deleted' \subseteq 1..lastId /\ IdsOf(wlans') \subseteq IdsOf(wlans)
      /\ \A w \in wlans' : w.id \notin deleted'
  BY <1>1, WifiFits
<1> QED
  BY <1>1, <1>2, <1>3, EndTaskStep

\* An edit reads the SSID that it changes.
LEMMA GetStep ==
    ASSUME WifiIInv, NEW o \in WifiRequest, GetWlan(o)
    PROVE  WifiIInv'
<1>1. /\ task[o].step = "get"
      /\ UNCHANGED <<wlans, profiles, lastId, deleted, wifiRequests>>
      /\ WifiAnswers \/ WifiRaises
  BY DEF GetWlan, Stands
<1>2. ASSUME NEW w \in wlans, NoEnd,
             task' = [task EXCEPT ![o].step = "put", ![o].profile = w.profile]
      PROVE  WifiIInv'
  <2> DEFINE t == [task[o] EXCEPT !.step = "put", !.profile = w.profile]
  <2>1. task' = [task EXCEPT ![o] = t]
    BY <1>2, WifiFits
  <2>2. w.profile \in 0..MaxIds
    BY WifiFits DEF WlanType
  <2>3. t \in TaskType
    <3>1. task[o] \in TaskType
      BY WifiFits
    <3>2. t \in TaskType
      BY <2>2, <3>1, WifiStepNames DEF TaskType
    <3> QED BY <3>2
  <2>4. t.step = "put" /\ t.todo = task[o].todo /\ t.kind = task[o].kind
    BY WifiFits DEF TaskType
  <2>5. t.smooth = task[o].smooth /\ t.alone = task[o].alone
    BY WifiFits DEF TaskType
  <2> HIDE DEF t
  <2>6. TaskFits(t, wlans, lastId)
    BY <2>4, WifiFits DEF TaskFits
  <2>7. ProvisionFits(t, wlans, profiles)
    BY <1>1, <2>4, <2>5, WifiFits DEF ProvisionFits, Undisturbed
  <2> QED
    BY <1>1, <1>2, <2>1, <2>3, <2>4, <2>5, <2>6, <2>7, RecordStep DEF NoEnd
<1>3. CASE EndTask(o, TRUE)
  BY <1>1, <1>3, EndRaised
<1> QED
  BY <1>2, <1>3 DEF GetWlan

\* An edit writes it back, with the id it had.
LEMMA PutStep ==
    ASSUME WifiIInv, NEW o \in WifiRequest, PutWlan(o)
    PROVE  WifiIInv'
<1> DEFINE edited(w) == [w EXCEPT !.name = task[o].name, !.profile = task[o].profile]
           put == {IF w.id \in task[o].todo
                   THEN [w EXCEPT !.name = task[o].name, !.profile = task[o].profile] ELSE w :
                   w \in wlans}
<1>1. /\ task[o].step = "put"
      /\ UNCHANGED <<profiles, lastId, deleted, wifiRequests>>
      /\ WifiAnswers \/ WifiRaises
      /\ EndTask(o, FALSE)
      /\ wlans' \in {wlans, put}
  BY DEF PutWlan, Stands
<1>2. ~Undisturbed(task[o])
  BY <1>1, WifiFits DEF ProvisionFits
<1>3. \A w \in wlans : edited(w) \in WlanType /\ edited(w).id = w.id
  BY WifiFits DEF WlanType, TaskType
<1>4. \A x \in put : x \in WlanType /\ \E w \in wlans : x.id = w.id
  BY <1>3, WifiFits
<1> HIDE DEF put
<1>5. wlans' \subseteq WlanType /\ \A x \in wlans' : \E w \in wlans : x.id = w.id
  BY <1>1, <1>4, WifiFits
<1>6. /\ deleted' \subseteq 1..lastId /\ IdsOf(wlans') \subseteq IdsOf(wlans)
      /\ \A w \in wlans' : w.id \notin deleted'
      /\ profiles' \subseteq [id : Id, tag : Tag]
  BY <1>1, <1>5, WifiFits DEF IdsOf
<1> QED
  BY <1>1, <1>2, <1>5, <1>6, EndTaskStep

\* A request begins: it is alone if no other is under way, and none else is alone any more.
LEMMA NewTaskStep ==
    ASSUME WifiIInv, NEW o \in WifiRequest,
           NEW kind \in {"provision", "deprovision", "remove", "edit"}, NEW n \in Name,
           NEW v \in Tag \cup {Untagged}, NEW replace \in BOOLEAN,
           NEW todo \in SUBSET (1..lastId), kind = "remove" => todo # {},
           NewTask(o, kind, n, v, replace, todo)
    PROVE  WifiIInv'
<1> DEFINE quiet == \A q \in WifiRequest : Stands(q, "idle")
           begun == [NoTask EXCEPT !.step = "login", !.kind = kind, !.name = n, !.tag = v,
                                   !.replace = replace, !.todo = todo,
                                   !.alone = quiet, !.smooth = TRUE]
           aside(q) == [task[q] EXCEPT !.alone = FALSE]
<1>1. /\ task[o].step = "idle" /\ made' = NoMade
      /\ UNCHANGED <<wlans, profiles, lastId, deleted, wifiFaults>>
      /\ wifiRequests < MaxWifiRequests /\ wifiRequests' = wifiRequests + 1
  BY DEF NewTask, Stands
<1>2. task' = [q \in WifiRequest |-> IF q = o THEN begun ELSE aside(q)]
  BY Zenon DEF NewTask
<1>3. /\ begun \in TaskType
      /\ begun.step = "login" /\ begun.todo = todo /\ begun.profile = 0 /\ begun.kind = kind
  <2>1. NoTask \in TaskType /\ NoTask.profile = 0 /\ todo \in SUBSET Id
    BY NoTaskFits, WifiFits DEF NoTask
  <2>2. quiet \in BOOLEAN
    OBVIOUS
  <2> HIDE DEF quiet
  <2>3. begun \in TaskType
    BY <2>1, <2>2, WifiStepNames DEF TaskType
  <2>4. begun.step = "login" /\ begun.todo = todo /\ begun.profile = 0 /\ begun.kind = kind
    BY <2>1 DEF TaskType
  <2> QED
    BY <2>3, <2>4
<1>4. begun.alone => quiet
  <2>1. NoTask \in TaskType
    BY NoTaskFits
  <2> HIDE DEF quiet
  <2> QED
    BY <2>1 DEF TaskType
<1>5. ~begun.error
  <2>1. NoTask \in TaskType /\ ~NoTask.error
    BY NoTaskFits DEF NoTask
  <2> HIDE DEF quiet
  <2> QED
    BY <2>1 DEF TaskType
<1>6. ASSUME NEW q \in WifiRequest
      PROVE  /\ aside(q) \in TaskType /\ ~aside(q).alone
             /\ aside(q).step = task[q].step /\ aside(q).todo = task[q].todo
             /\ aside(q).tag = task[q].tag /\ aside(q).kind = task[q].kind
             /\ aside(q).error = task[q].error
  <2>1. task[q] \in TaskType
    BY WifiFits
  <2>2. aside(q) \in TaskType /\ ~aside(q).alone
    BY <2>1 DEF TaskType
  <2>3. /\ aside(q).step = task[q].step /\ aside(q).todo = task[q].todo
        /\ aside(q).tag = task[q].tag /\ aside(q).kind = task[q].kind
    BY <2>1 DEF TaskType
  <2>4. aside(q).error = task[q].error
    BY <2>1 DEF TaskType
  <2> QED
    BY <2>2, <2>3, <2>4
<1>7. \A q \in WifiRequest : TaskFits(task[q], wlans, lastId)
  BY WifiFits
<1>8. NoMade \in [name : Name, tag : Tag \cup {Untagged}, valid : BOOLEAN] /\ ~NoMade.valid
  BY NoTaskFits DEF NoMade, TaskType
<1>9. quiet => \A q \in WifiRequest \ {o} : task[q].step = "idle"
  BY DEF Stands
<1> HIDE DEF begun, aside, quiet
<1>10. /\ task' \in [WifiRequest -> TaskType] /\ task'[o] = begun
       /\ \A q \in WifiRequest \ {o} : task'[q] = aside(q)
  BY <1>2, <1>3, <1>6
<1>11. WifiTypeOK'
  <2>1. wifiRequests' \in 0..MaxWifiRequests
    BY <1>1, WifiAssumption DEF WifiIInv, WifiTypeOK
  <2> QED
    BY <1>1, <1>8, <1>10, <2>1 DEF WifiIInv, WifiTypeOK, TaskType
<1>12. ASSUME NEW q \in WifiRequest
       PROVE  /\ TaskFits(task'[q], wlans', lastId')
              /\ ProvisionFits(task'[q], wlans', profiles')
              /\ OnlyOne(q)'
  <2>1. CASE q = o
    <3>1. TaskFits(begun, wlans, lastId)
      BY <1>3 DEF TaskFits
    <3>2. ProvisionFits(begun, wlans, profiles)
      BY <1>3, <1>5 DEF ProvisionFits
    <3>3. OnlyOne(q)'
      BY <1>3, <1>4, <1>6, <1>9, <1>10, <2>1 DEF OnlyOne
    <3> QED
      BY <1>1, <1>10, <2>1, <3>1, <3>2, <3>3
  <2>2. CASE q # o
    <3>1. TaskFits(aside(q), wlans, lastId)
      BY <1>6, <1>7 DEF TaskFits
    <3>2. ProvisionFits(aside(q), wlans, profiles)
      BY <1>6 DEF ProvisionFits, Undisturbed
    <3>3. OnlyOne(q)'
      BY <1>6, <1>10, <2>2 DEF OnlyOne
    <3> QED
      BY <1>1, <1>10, <2>2, <3>1, <3>2, <3>3
  <2> QED
    BY <2>1, <2>2
<1>13. \A q \in WifiRequest : /\ TaskFits(task[q], wlans, lastId)'
                              /\ ProvisionFits(task[q], wlans, profiles)'
                              /\ OnlyOne(q)'
  BY <1>12 DEF TaskFits, ProvisionFits, Undisturbed, ProfileFits, IdsOf, FirstOf
<1>14. /\ (IdsOf(wlans) \subseteq 1..lastId)' /\ deleted' \subseteq 1..lastId'
       /\ DeletedStaysGone'
  BY <1>1 DEF WifiIInv, IdsOf, DeletedStaysGone
<1> QED
  BY <1>1, <1>8, <1>11, <1>13, <1>14 DEF WifiIInv

\* Every step of the requests keeps the invariant.
LEMMA WifiStepKeeps == WifiIInv /\ [WifiNext]_wifiVars => WifiIInv'
<1> SUFFICES ASSUME WifiIInv, [WifiNext]_wifiVars PROVE WifiIInv'
  OBVIOUS
<1>1. CASE UNCHANGED wifiVars
  <2>1. WifiTypeOK' /\ DeletedStaysGone'
    BY <1>1 DEF WifiIInv, WifiTypeOK, DeletedStaysGone, wifiVars
  <2>2. \A o \in WifiRequest : OnlyOne(o)'
    BY <1>1 DEF WifiIInv, OnlyOne, wifiVars
  <2>3. \A o \in WifiRequest : /\ TaskFits(task[o], wlans, lastId)'
                               /\ ProvisionFits(task[o], wlans, profiles)'
    <3>1. /\ task' = task /\ wlans' = wlans /\ lastId' = lastId /\ profiles' = profiles
      BY <1>1 DEF wifiVars
    <3>2. \A o \in WifiRequest : /\ TaskFits(task'[o], wlans', lastId')
                                 /\ ProvisionFits(task'[o], wlans', profiles')
      BY <3>1, WifiFits
    <3> QED
      BY <3>2 DEF TaskFits, ProvisionFits, Undisturbed, ProfileFits, IdsOf, FirstOf
  <2>4. (IdsOf(wlans) \subseteq 1..lastId)' /\ deleted' \subseteq 1..lastId'
    BY <1>1 DEF WifiIInv, IdsOf, wifiVars
  <2>5. made'.valid => ProvisionLeavesOne' /\ \A o \in WifiRequest : task'[o].step = "idle"
    BY <1>1 DEF WifiIInv, ProvisionLeavesOne, Called, ProfilesOf, wifiVars
  <2> QED
    BY <2>1, <2>2, <2>3, <2>4, <2>5 DEF WifiIInv
<1>2. ASSUME NEW o \in WifiRequest, WifiStep(o)
      PROVE  WifiIInv'
  BY <1>2, LoginStep, ClearStep, LookupStep, ProfileStep, ExistingStep, PostStep, VerifyStep,
     FindStep, DropStep, GetStep, PutStep, DeleteStep, ConfirmStep DEF WifiStep
<1>3. ASSUME NEW o \in WifiRequest, NEW n \in Name,
             \/ \E v \in Tag \cup {Untagged}, replace \in BOOLEAN :
                   NewTask(o, "provision", n, v, replace, {})
             \/ \E v \in Tag : NewTask(o, "deprovision", n, v, FALSE, {})
             \/ \E w \in wlans, kind \in {"remove", "edit"} :
                   NewTask(o, kind, n, Untagged, FALSE, {w.id})
      PROVE  WifiIInv'
  <2>1. {} \in SUBSET (1..lastId)
    OBVIOUS
  <2>2. \A w \in wlans : {w.id} \in SUBSET (1..lastId) /\ {w.id} # {}
    BY WifiFits DEF IdsOf
  <2> QED
    BY <1>3, <2>1, <2>2, NewTaskStep
<1> QED
  BY <1>1, <1>2, <1>3 DEF WifiNext

\* At first no request is under way.
LEMMA WifiInitIInv == WifiInit => WifiIInv
<1> SUFFICES ASSUME WifiInit PROVE WifiIInv
  OBVIOUS
<1>1. PICK there \in BOOLEAN :
          /\ wlans = IF there THEN {[id |-> 1, name |-> n, profile |-> 0, new |-> FALSE] :
                                       n \in {NoTask.name}} ELSE {}
          /\ lastId = IF there THEN 1 ELSE 0
  BY DEF WifiInit
<1>2. NoTask.name \in Name /\ NoMade.valid = FALSE
      /\ NoMade \in [name : Name, tag : Tag \cup {Untagged}, valid : BOOLEAN]
  BY NoTaskFits DEF TaskType, NoMade
<1>3. 0 \in 0..MaxIds /\ 1 \in 0..MaxIds /\ 1 \in Id /\ 0 \in 0..MaxWifiRequests
      /\ 0 \in 0..MaxWifiFaults
  BY WifiAssumption DEF Id
<1>4. /\ wlans \subseteq WlanType /\ lastId \in 0..MaxIds /\ IdsOf(wlans) \subseteq 1..lastId
  <2>1. CASE there
    <3> DEFINE first == [id |-> 1, name |-> NoTask.name, profile |-> 0, new |-> FALSE]
    <3>1. wlans = {first} /\ lastId = 1
      BY <1>1, <2>1
    <3>2. first \in WlanType /\ first.id = 1
      BY <1>2, <1>3 DEF WlanType
    <3> HIDE DEF first
    <3> QED
      BY <1>3, <3>1, <3>2 DEF IdsOf
  <2>2. CASE ~there
    BY <1>1, <1>3, <2>2 DEF IdsOf
  <2> QED
    BY <2>1, <2>2
<1>5. task \in [WifiRequest -> TaskType] /\ \A o \in WifiRequest : task[o] = NoTask
  BY NoTaskFits DEF WifiInit
<1>6. WifiTypeOK
  BY <1>2, <1>3, <1>4, <1>5 DEF WifiInit, WifiTypeOK, TaskType
<1> QED
  BY <1>2, <1>4, <1>5, <1>6, NoTaskFits DEF WifiInit, WifiIInv, DeletedStaysGone, OnlyOne

\* The invariant holds in every state.
LEMMA WifiInvariant == WifiSpec => []WifiIInv
  BY WifiInitIInv, WifiStepKeeps, PTL DEF WifiSpec

\* The controller's objects and the requests keep their types.
THEOREM WifiTypes == WifiSpec => []WifiTypeOK
<1>1. WifiIInv => WifiTypeOK
  BY DEF WifiIInv
<1> QED
  BY <1>1, WifiInvariant, PTL

\* For any number of requests, attempts and faults: an SSID reported deleted is not on the
\* controller, and does not come back.
THEOREM DeletedIsGone == WifiSpec => []DeletedStaysGone
<1>1. WifiIInv => DeletedStaysGone
  BY DEF WifiIInv
<1> QED
  BY <1>1, WifiInvariant, PTL

\* For any number of requests and whatever is on the controller before: a provision that was
\* alone and met no failure leaves one SSID of its name, attached to a profile of its VLAN.
THEOREM ProvisionLeavesItsOne == WifiSpec => []ProvisionLeavesOne
<1>1. WifiIInv => ProvisionLeavesOne
  BY DEF WifiIInv, ProvisionLeavesOne
<1> QED
  BY <1>1, WifiInvariant, PTL

=============================================================================
