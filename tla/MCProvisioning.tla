----------------------------- MODULE MCProvisioning -----------------------------
(***************************************************************************)
(* Provisioning and de-provisioning, each device on a small instance: the  *)
(* router, the controller of the access points, and the switch with the    *)
(* request as a whole.  A chain of calls to one device shares no state     *)
(* with those to another, so one of them, focus, moves in a behaviour.     *)
(***************************************************************************)
EXTENDS RouterConfig, WifiConfig, Provision, TLC

CONSTANTS v, na, nb, s1, s2, pa, pr, ghost

\* Two segments of one VLAN, which differ in name and subnet.
MCSegment == {[vlan |-> v, name |-> na, subnet |-> s1],
              [vlan |-> v, name |-> nb, subnet |-> s2]}

\* ROUTER_UPLINK_PORT names the router's port, until it is plugged in elsewhere, and
\* AP_UPLINK_PORT none.
Plugged(r, a) == [x \in {Router, AccessPoint} |-> IF x = Router THEN r ELSE a]
MCSettings == {Plugged(pr, ghost)}
MCCablings == {Plugged(pr, pa)}

VARIABLE focus

provisioningVars == <<routerVars, wifiVars, provisionVars, focus>>

\* The same two values stand for the requests of each module.
Symmetric == Permutations(ProvisionRequest) \cup Permutations(Vlan)

\* What does not move has one initial state.  The controller has an SSID of one of the two
\* names, and a switch whose trunks allow all VLANs is provisioned without settings.
MCInit ==
    /\ focus \in {"router", "controller", "switch"}
    /\ RouterInit /\ WifiInit /\ ProvisionInit
    /\ focus # "router" => host = "address"
    /\ focus = "controller" <=> wlans # {}
    /\ hinted => \A p \in Port : allowed[p] = {}
    /\ focus # "switch" => /\ ~hinted
                           /\ \A p \in Port : allowed[p] = {}

MCNext ==
    /\ UNCHANGED focus
    /\ \/ focus = "router" /\ RouterNext /\ UNCHANGED <<wifiVars, provisionVars>>
       \/ focus = "controller" /\ WifiNext /\ UNCHANGED <<routerVars, provisionVars>>
       \/ focus = "switch" /\ ProvisionNext /\ UNCHANGED <<routerVars, wifiVars>>

MCSpec == MCInit /\ [][MCNext]_provisioningVars

=============================================================================
