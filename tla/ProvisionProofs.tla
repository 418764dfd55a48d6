-------------------------- MODULE ProvisionProofs --------------------------
(***************************************************************************)
(* Theorems about the setup and the teardown of a segment on the switch,   *)
(* for any requests, VLANs, ports and peers, and any number of failures.   *)
(*                                                                         *)
(* The invariant counts the session that a request has open by where it    *)
(* stands, which gives SessionsGivenBack. TrunksReachPeers and             *)
(* TeardownUntrunks speak of a request that was alone and met no failure:  *)
(* LoneFits says, stage by stage, which ports such a request has found,    *)
(* trunked or untrunked so far, and DoneFits what is left of that when it  *)
(* has ended.                                                              *)
(***************************************************************************)
EXTENDS Provision, TLAPS

-----------------------------------------------------------------------------
(***************************************************************************)
(* The types and the invariant                                             *)
(***************************************************************************)

\* The request that has been alone since it began.
LoneType == [who : SUBSET ProvisionRequest, done : {"none", "provision", "deprovision"},
             run : WorkType, still : BOOLEAN, present : BOOLEAN,
             located : SUBSET Role, seen : BOOLEAN, dark : SUBSET Port]

\* The sessions that a request which stands at w has open.
OpenOf(w) == IF w.session = "live" THEN 1 ELSE 0

\* The stages of a provision at which its VLAN was made.
Laid == {"others", "resume", "confirm", "discover", "table", "trunk"}

\* What a lone request without a failure, which stands at w, has found and made: D is the
\* VLANs of the switch, A the allowed lists, T the trunks, C the cabling and S what CDP has
\* kept of the router.
LoneFits(l, w, D, A, T, C, S) ==
    /\ l.still => S = {} /\ \A r \in l.located : w.uplinks[r] = C[r]
    /\ w.stage \in Laid => w.vlan \in D
    /\ l.seen => w.stage \in {"trunk", "delete", "untrunk"}
    /\ w.stage = "trunk" =>
          /\ \A r \in Role \ w.todo : w.uplinks[r] \in Port =>
                w.uplinks[r] \in T /\ w.vlan \in A[w.uplinks[r]]
          /\ l.seen => \A r \in Role : w.uplinks[r] \in Port
    /\ w.stage \in {"open", "look"} /\ l.present => w.vlan \in D
    /\ w.stage \in {"delete", "untrunk"} /\ l.seen /\ l.present =>
          \A p \in T \ (w.todo \cup l.dark) : w.vlan \notin A[p]

\* What it leaves.
DoneFits(l, D, A, T, C) ==
    /\ l.done = "provision" /\ l.run.stitch /\ l.still =>
          /\ \A r \in l.located : C[r] \in T /\ l.run.vlan \in A[C[r]] /\ l.run.vlan \in D
          /\ l.seen => \A r \in Role : /\ l.run.uplinks[r] \in T
                                       /\ l.run.vlan \in A[l.run.uplinks[r]]
                                       /\ l.run.vlan \in D
    /\ l.done = "deprovision" /\ l.seen /\ l.present =>
          \A p \in T \ l.dark : l.run.vlan \notin A[p]

\* No request is under way.
RunsIdle == \A q \in ProvisionRequest : work[q].stage = "idle"

\* A request that stands at w has h sessions open.
RequestFits(w, h) ==
    /\ h = OpenOf(w)
    /\ w.stage = "idle" => OpenOf(w) = 0
    /\ w.stage # "idle" => w.vlan \in Vlan
    /\ w.stage \in {"confirm", "discover"} => w.todo \subseteq Role

RequestsFit == \A o \in ProvisionRequest : RequestFits(work[o], held[o])

\* The lone request has found and made what its stage tells, and nothing follows the one
\* that left its promises.
LoneKept ==
    /\ \A o \in ProvisionRequest : lone.who = {o} =>
          /\ \A q \in ProvisionRequest \ {o} : work[q].stage = "idle"
          /\ work[o].stage # "idle" /\ lone.done = "none"
          /\ LoneFits(lone, work[o], database, allowed, trunking, cable, stale)
    /\ lone.who = {} \/ \E o \in ProvisionRequest : lone.who = {o}
    /\ lone.done # "none" => /\ lone.who = {} /\ RunsIdle
                             /\ DoneFits(lone, database, allowed, trunking, cable)

\* The invariant.
ProvisionIInv == ProvisionTypeOK /\ RequestsFit /\ LoneKept

\* The types that the proofs below need.
LEMMA RunTypes ==
  ASSUME ProvisionIInv
  PROVE  /\ database \subseteq Vlan /\ allowed \in [Port -> SUBSET Vlan]
         /\ trunking \subseteq Port /\ down \subseteq Port
         /\ cable \in [Role -> Port] /\ stale \subseteq Port
         /\ setting \in UplinkSettings
         /\ work \in [ProvisionRequest -> WorkType]
         /\ held \in [ProvisionRequest -> 0..2]
         /\ lone \in LoneType
         /\ provisionFaults \in 0..MaxProvisionFaults
BY DEF ProvisionIInv, ProvisionTypeOK, LoneType

\* No request has no session.
LEMMA NoWorkFits ==
  /\ NoWork \in WorkType /\ NoWork.stage = "idle" /\ OpenOf(NoWork) = 0
  /\ NoWork.session = "none" /\ NoWork.uplinks = NoUplinks /\ NoWork.todo = {}
<1>1. NoUplinks \in [Role -> AnyPort]
  BY DEF NoUplinks, AnyPort
<1> QED
  BY <1>1 DEF NoWork, WorkType, ProvisionStages, OpenOf

\* No lone request is one of its type.
LEMMA NoLoneFits ==
  NoLone \in LoneType /\ NoLone.who = {} /\ NoLone.done = "none"
BY NoWorkFits DEF NoLone, LoneType

\* A request that is under way is the lone one, or nothing is claimed of any.
LEMMA NotLone ==
  ASSUME ProvisionIInv, NEW o \in ProvisionRequest, work[o].stage # "idle", ~IsLone(o)
  PROVE  lone.who = {} /\ lone.done = "none"
BY DEF ProvisionIInv, LoneKept, IsLone, RunsIdle

\* A step of one request.
LEMMA RunKept ==
  ASSUME ProvisionIInv, NEW o \in ProvisionRequest, work[o].stage # "idle",
         NEW w \in WorkType, work' = [work EXCEPT ![o] = w],
         w.stage = "idle" => OpenOf(w) = 0, w.stage # "idle" => w.vlan = work[o].vlan,
         w.stage \in {"confirm", "discover"} => w.todo \subseteq Role,
         held' = [held EXCEPT ![o] = OpenOf(w)],
         database' \subseteq Vlan, allowed' \in [Port -> SUBSET Vlan],
         trunking' \subseteq Port, down' \subseteq Port,
         UNCHANGED <<cable, stale, setting, hinted, moves, provisionRequests>>,
         provisionFaults' \in 0..MaxProvisionFaults,
         lone' \in LoneType,
         \/ lone'.who = {} /\ lone'.done = "none"
         \/ /\ IsLone(o) /\ lone'.who = {o} /\ lone'.done = "none" /\ w.stage # "idle"
            /\ LoneFits(lone', w, database', allowed', trunking', cable, stale)
         \/ /\ IsLone(o) /\ lone'.who = {} /\ w.stage = "idle"
            /\ DoneFits(lone', database', allowed', trunking', cable)
  PROVE  ProvisionIInv'
<1>1. work \in [ProvisionRequest -> WorkType] /\ held \in [ProvisionRequest -> 0..2]
  BY RunTypes
<1>2. \A q \in ProvisionRequest : work'[q] = IF q = o THEN w ELSE work[q]
  BY <1>1
<1>3. \A q \in ProvisionRequest : held'[q] = IF q = o THEN OpenOf(w) ELSE held[q]
  BY <1>1
<1>4. OpenOf(w) \in 0..2
  BY DEF OpenOf
<1>5. ProvisionTypeOK'
  <2>1. held' \in [ProvisionRequest -> 0..2] /\ work' \in [ProvisionRequest -> WorkType]
    BY <1>1, <1>4
  <2>2. /\ cable' \in [Role -> Port] /\ stale' \subseteq Port /\ setting' \in UplinkSettings
        /\ hinted' \in BOOLEAN /\ moves' \in 0..MaxMoves
        /\ provisionRequests' \in 0..MaxProvisionRequests
    BY DEF ProvisionIInv, ProvisionTypeOK
  <2> QED
    BY <2>1, <2>2 DEF ProvisionTypeOK, LoneType
<1>6. RequestsFit'
  <2>1. \A q \in ProvisionRequest : RequestFits(work'[q], held'[q])
    BY <1>2, <1>3 DEF ProvisionIInv, RequestsFit, RequestFits
  <2> QED
    BY <2>1 DEF RequestsFit
<1>7. IsLone(o) => \A q \in ProvisionRequest \ {o} : work'[q].stage = "idle"
  BY <1>2 DEF ProvisionIInv, LoneKept, IsLone
<1>8. work'[o] = w
  BY <1>2
<1>9. LoneKept'
  <2>1. CASE lone'.who = {} /\ lone'.done = "none"
    BY <2>1 DEF LoneKept
  <2>2. CASE /\ IsLone(o) /\ lone'.who = {o} /\ lone'.done = "none" /\ w.stage # "idle"
             /\ LoneFits(lone', w, database', allowed', trunking', cable, stale)
    <3>1. LoneFits(lone', work'[o], database', allowed', trunking', cable', stale')
      BY <1>8, <2>2
    <3>2. \A q \in ProvisionRequest : lone'.who = {q} => q = o
      BY <2>2
    <3> QED
      BY <1>7, <1>8, <2>2, <3>1, <3>2 DEF LoneKept
  <2>3. CASE /\ IsLone(o) /\ lone'.who = {} /\ w.stage = "idle"
             /\ DoneFits(lone', database', allowed', trunking', cable)
    <3>1. DoneFits(lone', database', allowed', trunking', cable')
      BY <2>3
    <3>2. \A q \in ProvisionRequest : work'[q].stage = "idle"
      BY <1>2, <1>7, <2>3
    <3> QED
      BY <2>3, <3>1, <3>2 DEF LoneKept, RunsIdle
  <2> QED
    BY <2>1, <2>2, <2>3
<1> QED
  BY <1>5, <1>6, <1>9 DEF ProvisionIInv

\* The faults keep their bound.
LEMMA RunFaults ==
  ASSUME ProvisionIInv,
         CallAnswers \/ CallRaises \/ \E possible \in BOOLEAN : RaisesUnless(possible)
  PROVE  provisionFaults' \in 0..MaxProvisionFaults
<1>1. provisionFaults \in 0..MaxProvisionFaults
  BY RunTypes
<1>2. CallAnswers \/ CallRaises
  BY DEF RaisesUnless
<1> QED
  BY <1>1, <1>2, ProvisionAssumption DEF CallAnswers, CallRaises

\* What the count of open sessions becomes.
LEMMA RunHeld ==
  ASSUME ProvisionIInv, NEW o \in ProvisionRequest
  PROVE  /\ \A n : OpenOf(work[o]) = n /\ UNCHANGED held => held' = [held EXCEPT ![o] = n]
         /\ Opened(o) => held' = [held EXCEPT ![o] = 1]
         /\ Closed(o) => held' = [held EXCEPT ![o] = 0]
<1>1. held \in [ProvisionRequest -> 0..2] /\ held[o] = OpenOf(work[o])
  BY RunTypes DEF ProvisionIInv, RequestsFit, RequestFits
<1>2. CASE work[o].session = "live"
  <2>1. OpenOf(work[o]) = 1
    BY <1>2 DEF OpenOf
  <2> QED
    BY <1>1, <1>2, <2>1 DEF Opened, Closed
<1>3. CASE work[o].session # "live"
  <2>1. OpenOf(work[o]) = 0
    BY <1>3 DEF OpenOf
  <2> QED
    BY <1>1, <1>3, <2>1 DEF Opened, Closed
<1> QED
  BY <1>2, <1>3

\* A step after which nothing else is known of the lone request.
LEMMA RunGoesOn ==
  ASSUME ProvisionIInv, NEW o \in ProvisionRequest, work[o].stage # "idle",
         NEW w \in WorkType, work' = [work EXCEPT ![o] = w], w.stage # "idle",
         w.vlan = work[o].vlan, w.stage \in {"confirm", "discover"} => w.todo \subseteq Role,
         held' = [held EXCEPT ![o] = OpenOf(w)],
         database' \subseteq Vlan, allowed' \in [Port -> SUBSET Vlan],
         trunking' \subseteq Port, down' \subseteq Port,
         UNCHANGED <<Cabling, provisionRequests>>,
         provisionFaults' \in 0..MaxProvisionFaults,
         lone' = lone,
         IsLone(o) /\ LoneFits(lone, work[o], database, allowed, trunking, cable, stale)
             => LoneFits(lone, w, database', allowed', trunking', cable, stale)
  PROVE  ProvisionIInv'
<1>1. lone \in LoneType
  BY RunTypes
<1>2. IsLone(o) => /\ LoneFits(lone, w, database', allowed', trunking', cable, stale)
                   /\ lone.who = {o} /\ lone.done = "none"
  BY DEF ProvisionIInv, LoneKept, IsLone
<1> QED
  BY <1>1, <1>2, NotLone, RunKept DEF Cabling

\* After a failure nothing is claimed of a request.
LEMMA RunFlawed ==
  ASSUME ProvisionIInv, NEW o \in ProvisionRequest, work[o].stage # "idle",
         NEW w \in WorkType, work' = [work EXCEPT ![o] = w], w.stage # "idle",
         w.vlan = work[o].vlan, w.stage \in {"confirm", "discover"} => w.todo \subseteq Role,
         held' = [held EXCEPT ![o] = OpenOf(w)],
         database' \subseteq Vlan, allowed' \in [Port -> SUBSET Vlan],
         trunking' \subseteq Port, down' \subseteq Port,
         UNCHANGED <<Cabling, provisionRequests>>,
         provisionFaults' \in 0..MaxProvisionFaults,
         Flawed(o)
  PROVE  ProvisionIInv'
<1>1. lone' \in LoneType /\ lone'.who = {} /\ lone'.done = "none"
  BY RunTypes, NoLoneFits, NotLone DEF Flawed
<1> QED
  BY <1>1, RunKept DEF Cabling

\* A step after which more is known of it.
LEMMA RunLearns ==
  ASSUME ProvisionIInv, NEW o \in ProvisionRequest, work[o].stage # "idle",
         NEW w \in WorkType, work' = [work EXCEPT ![o] = w], w.stage # "idle",
         w.vlan = work[o].vlan, w.stage \in {"confirm", "discover"} => w.todo \subseteq Role,
         held' = [held EXCEPT ![o] = OpenOf(w)],
         database' \subseteq Vlan, allowed' \in [Port -> SUBSET Vlan],
         trunking' \subseteq Port, down' \subseteq Port,
         UNCHANGED <<Cabling, provisionRequests>>,
         provisionFaults' \in 0..MaxProvisionFaults,
         IsLone(o), lone' \in LoneType, lone'.who = lone.who, lone'.done = lone.done,
         LoneFits(lone, work[o], database, allowed, trunking, cable, stale)
             => LoneFits(lone', w, database', allowed', trunking', cable, stale)
  PROVE  ProvisionIInv'
<1>1. /\ LoneFits(lone', w, database', allowed', trunking', cable, stale)
      /\ lone'.who = {o} /\ lone'.done = "none"
  BY DEF ProvisionIInv, LoneKept, IsLone
<1> QED
  BY <1>1, RunKept DEF Cabling

\* The end of a request: the session is given back, and a lone one leaves what it was.
LEMMA RunEnds ==
  ASSUME ProvisionIInv, NEW o \in ProvisionRequest, work[o].stage # "idle",
         NEW kind \in {"provision", "deprovision"}, NEW failed \in BOOLEAN,
         Finish(o, kind, failed),
         database' \subseteq Vlan, allowed' \in [Port -> SUBSET Vlan],
         trunking' \subseteq Port, down' \subseteq Port,
         UNCHANGED <<Cabling, provisionRequests>>,
         provisionFaults' \in 0..MaxProvisionFaults,
         ASSUME NEW l \in LoneType, ~failed, IsLone(o), l.done = kind,
                l.run.vlan = work[o].vlan, l.run.stitch = work[o].stitch,
                l.run.uplinks = work[o].uplinks,
                l.still = lone.still, l.present = lone.present, l.located = lone.located,
                l.seen = lone.seen, l.dark = lone.dark,
                LoneFits(lone, work[o], database, allowed, trunking, cable, stale)
         PROVE  DoneFits(l, database', allowed', trunking', cable)
  PROVE  ProvisionIInv'
<1>1. /\ lone \in LoneType /\ work[o] \in WorkType
      /\ IsLone(o) => LoneFits(lone, work[o], database, allowed, trunking, cable, stale)
  BY RunTypes DEF ProvisionIInv, LoneKept, IsLone
<1>2. work' = [work EXCEPT ![o] = NoWork] /\ held' = [held EXCEPT ![o] = OpenOf(NoWork)]
  BY NoWorkFits, RunHeld DEF Finish
<1>3. CASE ~IsLone(o) \/ failed
  <2>1. (lone' = lone /\ ~IsLone(o)) \/ lone' = NoLone
    BY <1>3 DEF Finish
  <2>2. lone' \in LoneType /\ lone'.who = {} /\ lone'.done = "none"
    BY <1>1, <2>1, NoLoneFits, NotLone
  <2> QED
    BY <1>2, <2>2, NoWorkFits, RunKept DEF Cabling
<1>4. CASE IsLone(o) /\ ~failed
  <2> DEFINE run == [work[o] EXCEPT !.stage = "idle"]
             l == [lone EXCEPT !.who = {}, !.done = kind, !.run = run]
  <2>1. run \in WorkType /\ run.vlan = work[o].vlan /\ run.stitch = work[o].stitch
        /\ run.uplinks = work[o].uplinks
    BY <1>1 DEF WorkType, ProvisionStages
  <2>2. lone' = l
    BY <1>4 DEF Finish
  <2> HIDE DEF run
  <2>3. l \in LoneType
    BY <1>1, <2>1 DEF LoneType
  <2>4. l.who = {} /\ l.done = kind /\ l.run = run /\ l.located = lone.located
    BY <1>1 DEF LoneType
  <2>5. /\ l.still = lone.still /\ l.present = lone.present /\ l.seen = lone.seen
        /\ l.dark = lone.dark
    BY <1>1 DEF LoneType
  <2> HIDE DEF l
  <2>6. DoneFits(l, database', allowed', trunking', cable)
    BY <1>1, <1>4, <2>1, <2>3, <2>4, <2>5
  <2> QED
    BY <1>2, <1>4, <2>2, <2>3, <2>4, <2>6, NoWorkFits, RunKept DEF Cabling
<1> QED
  BY <1>3, <1>4

\* A request begins, alone or not.
LEMMA RunBegins ==
  ASSUME ProvisionIInv, NEW o \in ProvisionRequest, NEW stage \in {"setup", "open"},
         NEW v \in Vlan, NEW replace \in BOOLEAN, NEW stitch \in BOOLEAN,
         BeginRun(o, stage, v, replace, stitch)
  PROVE  ProvisionIInv'
<1> DEFINE w == [NoWork EXCEPT !.stage = stage, !.vlan = v,
                               !.replace = replace, !.stitch = stitch]
           quiet == \A q \in ProvisionRequest : AtStage(q, "idle")
           empty == stale = {}
           there == v \in database
           l == [NoLone EXCEPT !.who = {o}, !.still = empty, !.present = there]
<1>1. /\ work \in [ProvisionRequest -> WorkType] /\ held \in [ProvisionRequest -> 0..2]
      /\ held[o] = OpenOf(work[o]) /\ work[o].stage = "idle" /\ OpenOf(work[o]) = 0
  BY RunTypes DEF ProvisionIInv, RequestsFit, RequestFits, BeginRun, AtStage
<1>2. w \in WorkType /\ w.stage = stage /\ w.vlan = v /\ w.session = "none" /\ w.todo = {}
  BY NoWorkFits DEF WorkType, ProvisionStages
<1>3. /\ work' = [work EXCEPT ![o] = w]
      /\ UNCHANGED <<database, held, allowed, trunking, down, cable, stale, setting, hinted,
                     moves, provisionFaults>>
      /\ provisionRequests < MaxProvisionRequests
      /\ provisionRequests' = provisionRequests + 1
  BY DEF BeginRun, Trunks, Cabling
<1>4. lone' = IF quiet THEN l ELSE NoLone
  BY DEF BeginRun
<1>5. empty \in BOOLEAN /\ there \in BOOLEAN
  OBVIOUS
<1>6. /\ l \in LoneType /\ l.who = {o} /\ l.done = "none" /\ l.located = {} /\ ~l.seen
      /\ l.still = empty /\ l.present = there
  <2> HIDE DEF empty, there
  <2>1. NoLone.located = {} /\ ~NoLone.seen /\ NoLone.done = "none"
    BY DEF NoLone
  <2> QED
    BY <1>5, <2>1, NoLoneFits DEF LoneType
<1> HIDE DEF l, w
<1>7. \A q \in ProvisionRequest : work'[q] = IF q = o THEN w ELSE work[q]
  BY <1>1, <1>3
<1>8. OpenOf(w) = 0
  BY <1>2 DEF OpenOf
<1>9. lone' \in LoneType
  BY <1>4, <1>6, NoLoneFits
<1>10. provisionRequests' \in 0..MaxProvisionRequests
  <2>1. provisionRequests \in 0..MaxProvisionRequests
    BY DEF ProvisionIInv, ProvisionTypeOK
  <2> QED
    BY <1>3, <2>1, ProvisionAssumption
<1>11. work' \in [ProvisionRequest -> WorkType]
  BY <1>1, <1>2, <1>3
<1>12. ProvisionTypeOK'
  BY <1>3, <1>9, <1>10, <1>11 DEF ProvisionIInv, ProvisionTypeOK, LoneType
<1>13. \A q \in ProvisionRequest : RequestFits(work'[q], held'[q])
  BY <1>1, <1>2, <1>3, <1>7, <1>8 DEF ProvisionIInv, RequestsFit, RequestFits
<1>14. LoneKept'
  <2>1. CASE quiet
    <3>1. lone' = l
      BY <1>4, <2>1
    <3>2. LoneFits(l, w, database, allowed, trunking, cable, stale)
      BY <1>2, <1>6 DEF LoneFits, Laid
    <3>3. LoneFits(lone', work'[o], database', allowed', trunking', cable', stale')
      BY <1>3, <1>7, <3>1, <3>2
    <3>4. \A q \in ProvisionRequest \ {o} : work'[q].stage = "idle"
      BY <1>7, <2>1 DEF AtStage
    <3>5. work'[o].stage # "idle"
      BY <1>2, <1>7
    <3>6. \A q \in ProvisionRequest : lone'.who = {q} => q = o
      BY <1>6, <3>1
    <3> QED
      BY <1>6, <3>1, <3>3, <3>4, <3>5, <3>6 DEF LoneKept
  <2>2. CASE ~quiet
    <3>1. lone' = NoLone
      BY <1>4, <2>2
    <3> QED
      BY <3>1, NoLoneFits DEF LoneKept
  <2> QED
    BY <2>1, <2>2
<1> QED
  BY <1>12, <1>13, <1>14 DEF ProvisionIInv, RequestsFit, RequestFits

\* What moves around the requests: a re-cabling is remembered.
LEMMA RunAround ==
  ASSUME ProvisionIInv,
         \/ \E r \in Role, p \in Port : Recable(r, p)
         \/ ExpireCdp \/ LinkUp
         \/ UNCHANGED provisionVars
  PROVE  ProvisionIInv'
<1>1. UNCHANGED <<database, allowed, trunking, setting, hinted, work, held, provisionRequests,
                  provisionFaults>>
  BY DEF Recable, ExpireCdp, LinkUp, provisionVars, Trunks, Cabling
<1>2. RequestsFit'
  BY <1>1 DEF ProvisionIInv, RequestsFit, RequestFits
<1>3. /\ cable' \in [Role -> Port] /\ stale' \subseteq Port /\ down' \subseteq Port
      /\ moves' \in 0..MaxMoves
  <2>1. cable \in [Role -> Port] /\ stale \subseteq Port /\ down \subseteq Port
        /\ moves \in 0..MaxMoves
    BY DEF ProvisionIInv, ProvisionTypeOK
  <2>2. CASE \E r \in Role, p \in Port : Recable(r, p)
    <3>1. PICK r \in Role, p \in Port : Recable(r, p)
      BY <2>2
    <3>2. moves' \in 0..MaxMoves
      BY <2>1, <3>1, ProvisionAssumption DEF Recable
    <3>3. cable' \in [Role -> Port] /\ stale' \subseteq Port /\ down' \subseteq Port
      BY <2>1, <3>1 DEF Recable, Trunks
    <3> QED
      BY <2>1, <3>2, <3>3
  <2>3. CASE ExpireCdp
    BY <2>1, <2>3 DEF ExpireCdp, Trunks
  <2>4. CASE LinkUp
    BY <2>1, <2>4 DEF LinkUp, Cabling
  <2>5. CASE UNCHANGED provisionVars
    BY <2>1, <2>5 DEF provisionVars
  <2> QED
    BY <2>2, <2>3, <2>4, <2>5
<1>4. \/ lone' = lone /\ cable' = cable /\ stale' \subseteq stale
      \/ lone' = [lone EXCEPT !.still = FALSE]
  BY DEF Recable, ExpireCdp, LinkUp, provisionVars, Cabling
<1>5. lone \in LoneType
  BY RunTypes
<1>6. /\ lone' \in LoneType /\ lone'.who = lone.who /\ lone'.done = lone.done
      /\ lone'.run = lone.run /\ lone'.located = lone.located
      /\ lone'.present = lone.present /\ lone'.seen = lone.seen /\ lone'.dark = lone.dark
      /\ lone'.still => lone.still /\ cable' = cable /\ stale' \subseteq stale
  <2>1. CASE lone' = [lone EXCEPT !.still = FALSE]
    <3> DEFINE l == [lone EXCEPT !.still = FALSE]
    <3>1. l \in LoneType
      BY <1>5 DEF LoneType
    <3>2. /\ l.who = lone.who /\ l.done = lone.done /\ l.run = lone.run /\ l.located = lone.located
      BY <1>5 DEF LoneType
    <3>3. l.present = lone.present /\ l.seen = lone.seen /\ ~l.still /\ l.dark = lone.dark
      BY <1>5 DEF LoneType
    <3> HIDE DEF l
    <3> QED
      BY <2>1, <3>1, <3>2, <3>3 DEF l
  <2> QED
    BY <1>4, <1>5, <2>1
<1>7. ProvisionTypeOK'
  BY <1>1, <1>3, <1>6 DEF ProvisionIInv, ProvisionTypeOK, LoneType
<1>8. \A w : LoneFits(lone, w, database, allowed, trunking, cable, stale)
              => LoneFits(lone', w, database, allowed, trunking, cable', stale')
  BY <1>6 DEF LoneFits
<1>9. DoneFits(lone, database, allowed, trunking, cable)
          => DoneFits(lone', database, allowed, trunking, cable')
  BY <1>6 DEF DoneFits
<1>10. \A o \in ProvisionRequest : lone.who = {o} =>
          LoneFits(lone', work'[o], database', allowed', trunking', cable', stale')
  BY <1>1, <1>8 DEF ProvisionIInv, LoneKept
<1>11. lone.done # "none" => DoneFits(lone', database', allowed', trunking', cable')
  BY <1>1, <1>9 DEF ProvisionIInv, LoneKept
<1>12. LoneKept'
  BY <1>1, <1>6, <1>10, <1>11 DEF ProvisionIInv, LoneKept, RunsIdle
<1> QED
  BY <1>2, <1>7, <1>12 DEF ProvisionIInv

\* The stages of a request that is under way.
LEMMA RunStages ==
  {"setup", "clear", "create", "others", "resume", "confirm", "discover", "table", "trunk",
   "open", "look", "delete", "untrunk"} \subseteq ProvisionStages \ {"idle"}
BY DEF ProvisionStages

\* What a request stands at after a step on its session.
LEMMA RunOnSession ==
  ASSUME ProvisionIInv, NEW o \in ProvisionRequest, NEW x \in WorkType, OnSession(o, x)
  PROVE  \E w \in WorkType :
            /\ work' = [work EXCEPT ![o] = w]
            /\ held' = [held EXCEPT ![o] = OpenOf(w)]
            /\ w.stage = x.stage /\ w.vlan = x.vlan /\ w.uplinks = x.uplinks /\ w.todo = x.todo
            /\ provisionFaults' \in 0..MaxProvisionFaults
<1> DEFINE w == [x EXCEPT !.session = "live"]
<1>1. /\ w \in WorkType /\ w.session = "live"
      /\ w.stage = x.stage /\ w.vlan = x.vlan /\ w.uplinks = x.uplinks /\ w.todo = x.todo
  BY DEF WorkType
<1>2. work' = [work EXCEPT ![o] = w]
  BY DEF OnSession
<1> HIDE DEF w
<1>3. OpenOf(w) = 1
  BY <1>1 DEF OpenOf
<1>4. held' = [held EXCEPT ![o] = OpenOf(w)]
  BY <1>3, RunHeld DEF OnSession
<1>5. provisionFaults' \in 0..MaxProvisionFaults
  BY RunFaults DEF OnSession
<1> QED
  BY <1>1, <1>2, <1>4, <1>5

\* What a request has found and made depends on these fields alone.
LEMMA FitsByFields ==
  ASSUME NEW l, NEW x, NEW w, NEW D, NEW A, NEW T, NEW C, NEW S,
         w.stage = x.stage, w.vlan = x.vlan, w.uplinks = x.uplinks, w.todo = x.todo,
         LoneFits(l, x, D, A, T, C, S)
  PROVE  LoneFits(l, w, D, A, T, C, S)
<1>1. l.still => S = {} /\ \A r \in l.located : w.uplinks[r] = C[r]
  BY Zenon DEF LoneFits
<1>2. /\ w.stage \in Laid => w.vlan \in D
      /\ l.seen => w.stage \in {"trunk", "delete", "untrunk"}
      /\ w.stage \in {"open", "look"} /\ l.present => w.vlan \in D
  BY DEF LoneFits
<1>3. w.stage = "trunk" =>
        /\ \A r \in Role \ w.todo : w.uplinks[r] \in Port =>
              w.uplinks[r] \in T /\ w.vlan \in A[w.uplinks[r]]
        /\ l.seen => \A r \in Role : w.uplinks[r] \in Port
  BY DEF LoneFits
<1>4. w.stage \in {"delete", "untrunk"} /\ l.seen /\ l.present =>
        \A p \in T \ (w.todo \cup l.dark) : w.vlan \notin A[p]
  BY DEF LoneFits
<1> QED
  BY <1>1, <1>2, <1>3, <1>4 DEF LoneFits

\* A step on the session that ends well.
LEMMA RunOnSessionMoves ==
  ASSUME ProvisionIInv, NEW o \in ProvisionRequest, work[o].stage # "idle",
         NEW x \in WorkType, OnSession(o, x), x.stage # "idle", x.vlan = work[o].vlan,
         x.stage \in {"confirm", "discover"} => x.todo \subseteq Role,
         database' \subseteq Vlan, allowed' \in [Port -> SUBSET Vlan],
         trunking' \subseteq Port, down' \subseteq Port,
         UNCHANGED <<Cabling, provisionRequests>>,
         \/ Flawed(o)
         \/ /\ lone' = lone
            /\ IsLone(o) /\ LoneFits(lone, work[o], database, allowed, trunking, cable, stale)
                  => LoneFits(lone, x, database', allowed', trunking', cable, stale)
         \/ /\ IsLone(o) /\ lone' \in LoneType /\ lone'.who = lone.who /\ lone'.done = lone.done
            /\ LoneFits(lone, work[o], database, allowed, trunking, cable, stale)
                  => LoneFits(lone', x, database', allowed', trunking', cable, stale)
  PROVE  ProvisionIInv'
<1>1. PICK w \in WorkType :
          /\ work' = [work EXCEPT ![o] = w]
          /\ held' = [held EXCEPT ![o] = OpenOf(w)]
          /\ w.stage = x.stage /\ w.vlan = x.vlan /\ w.uplinks = x.uplinks /\ w.todo = x.todo
          /\ provisionFaults' \in 0..MaxProvisionFaults
  BY RunOnSession
<1>2. \A l, D, A, T : LoneFits(l, x, D, A, T, cable, stale) => LoneFits(l, w, D, A, T, cable, stale)
  BY <1>1, FitsByFields
<1>3. w.stage # "idle" /\ w.vlan = work[o].vlan
  BY <1>1
<1>4. CASE Flawed(o)
  BY <1>1, <1>3, <1>4, RunFlawed
<1>5. CASE /\ lone' = lone
           /\ IsLone(o) /\ LoneFits(lone, work[o], database, allowed, trunking, cable, stale)
                  => LoneFits(lone, x, database', allowed', trunking', cable, stale)
  BY <1>1, <1>2, <1>3, <1>5, RunGoesOn
<1>6. CASE /\ IsLone(o) /\ lone' \in LoneType /\ lone'.who = lone.who /\ lone'.done = lone.done
           /\ LoneFits(lone, work[o], database, allowed, trunking, cable, stale)
                  => LoneFits(lone', x, database', allowed', trunking', cable, stale)
  BY <1>1, <1>2, <1>3, <1>6, RunLearns
<1> QED
  BY <1>4, <1>5, <1>6

\* A failed step of the setup: the session is closed, and the failure listed.
LEMMA RunSetupFailed ==
  ASSUME ProvisionIInv, NEW o \in ProvisionRequest, work[o].stage # "idle",
         SetupFailed(o), database' \subseteq Vlan, UNCHANGED <<Trunks, Cabling, provisionRequests>>,
         provisionFaults' \in 0..MaxProvisionFaults
  PROVE  ProvisionIInv'
<1> DEFINE w == [work[o] EXCEPT !.stage = "others", !.session = "none"]
<1>1. work[o] \in WorkType /\ work \in [ProvisionRequest -> WorkType]
  BY RunTypes
<1>2. w \in WorkType /\ w.stage = "others" /\ w.session = "none" /\ w.vlan = work[o].vlan
  BY <1>1, RunStages DEF WorkType
<1>3. work' = [work EXCEPT ![o] = w]
  BY <1>1 DEF SetupFailed
<1> HIDE DEF w
<1>4. OpenOf(w) = 0 /\ w.stage # "idle"
  BY <1>2 DEF OpenOf
<1>5. held' = [held EXCEPT ![o] = OpenOf(w)] /\ Flawed(o)
  BY <1>4, RunHeld DEF SetupFailed
<1> QED
  BY <1>2, <1>3, <1>4, <1>5, RunTypes, RunFlawed DEF Trunks

\* Step 1 opens its session, or the setup fails.
LEMMA RunSetupConnect ==
  ASSUME ProvisionIInv, NEW o \in ProvisionRequest, SetupConnect(o)
  PROVE  ProvisionIInv'
<1>1. /\ work[o].stage = "setup" /\ work[o] \in WorkType
      /\ UNCHANGED <<database, Trunks, Cabling, provisionRequests>>
  BY RunTypes DEF SetupConnect, AtStage
<1>2. ASSUME NEW stage \in {"clear", "create"}, OnSession(o, [work[o] EXCEPT !.stage = stage]),
             lone' = lone
      PROVE  ProvisionIInv'
  <2> DEFINE x == [work[o] EXCEPT !.stage = stage]
  <2>1. /\ x \in WorkType /\ x.stage = stage /\ x.vlan = work[o].vlan
        /\ x.uplinks = work[o].uplinks /\ x.todo = work[o].todo
    BY <1>1, RunStages DEF WorkType
  <2>2. OnSession(o, x)
    BY <1>2
  <2> HIDE DEF x
  <2>3. LoneFits(lone, work[o], database, allowed, trunking, cable, stale)
            => LoneFits(lone, x, database', allowed', trunking', cable, stale)
    BY <1>1, <2>1 DEF LoneFits, Laid, Trunks
  <2> QED
    BY <1>1, <1>2, <2>1, <2>2, <2>3, RunTypes, RunOnSessionMoves DEF Trunks
<1>3. CASE \E possible \in BOOLEAN : RaisesUnless(possible) /\ SetupFailed(o)
  BY <1>1, <1>3, RunFaults, RunTypes, RunSetupFailed
<1>4. LineFreeForRun \in BOOLEAN
  BY DEF LineFreeForRun
<1>5. \/ SetupFailed(o) /\ RaisesUnless(LineFreeForRun)
      \/ /\ lone' = lone
         /\ OnSession(o, [work[o] EXCEPT !.stage = IF work[o].replace THEN "clear" ELSE "create"])
  BY DEF SetupConnect
<1>6. CASE /\ lone' = lone
           /\ OnSession(o, [work[o] EXCEPT !.stage = IF work[o].replace THEN "clear" ELSE "create"])
  <2> DEFINE stage == IF work[o].replace THEN "clear" ELSE "create"
  <2>1. stage \in {"clear", "create"} /\ OnSession(o, [work[o] EXCEPT !.stage = stage])
    BY <1>6
  <2> HIDE DEF stage
  <2> QED
    BY <1>2, <1>6, <2>1
<1> QED
  BY <1>3, <1>4, <1>5, <1>6

\* A step of the setup that writes the VLANs.
LEMMA RunWritesVlans ==
  ASSUME ProvisionIInv, NEW o \in ProvisionRequest, ClearVlans(o) \/ CreateVlan(o)
  PROVE  ProvisionIInv'
<1>1. /\ work[o].stage \in {"clear", "create"} /\ work[o] \in WorkType
      /\ work \in [ProvisionRequest -> WorkType] /\ database \subseteq Vlan
      /\ UNCHANGED <<Trunks, Cabling, provisionRequests>>
  BY RunTypes DEF ClearVlans, CreateVlan, AtStage
<1>2. ASSUME NEW stage \in {"create", "others"}, lone' = lone, database' \subseteq Vlan,
             OnSession(o, [work[o] EXCEPT !.stage = stage]),
             stage = "others" => work[o].vlan \in database'
      PROVE  ProvisionIInv'
  <2> DEFINE x == [work[o] EXCEPT !.stage = stage]
  <2>1. /\ x \in WorkType /\ x.stage = stage /\ x.vlan = work[o].vlan
        /\ x.uplinks = work[o].uplinks /\ x.todo = work[o].todo
    BY <1>1, RunStages DEF WorkType
  <2>2. OnSession(o, x)
    BY <1>2
  <2> HIDE DEF x
  <2>3. LoneFits(lone, work[o], database, allowed, trunking, cable, stale)
            => LoneFits(lone, x, database', allowed', trunking', cable, stale)
    BY <1>1, <1>2, <2>1 DEF LoneFits, Laid, Trunks
  <2> QED
    BY <1>1, <1>2, <2>1, <2>2, <2>3, RunTypes, RunOnSessionMoves DEF Trunks
<1>3. ASSUME SetupFailed(o), database' \subseteq Vlan,
             CallAnswers \/ CallRaises \/ \E possible \in BOOLEAN : RaisesUnless(possible)
      PROVE  ProvisionIInv'
  BY <1>1, <1>3, RunFaults, RunSetupFailed
\* A removal that raised, and was logged.
<1>4. ASSUME CallRaises, database' \subseteq Vlan, ToStage(o, "create"), UNCHANGED <<held, lone>>
      PROVE  ProvisionIInv'
  <2> DEFINE w == [work[o] EXCEPT !.stage = "create"]
  <2>1. /\ w \in WorkType /\ w.stage = "create" /\ w.session = work[o].session
        /\ w.vlan = work[o].vlan /\ w.uplinks = work[o].uplinks
    BY <1>1, RunStages DEF WorkType
  <2>2. work' = [work EXCEPT ![o] = w]
    BY <1>1, <1>4 DEF ToStage
  <2> HIDE DEF w
  <2>3. OpenOf(w) = OpenOf(work[o]) /\ w.stage # "idle"
    BY <2>1 DEF OpenOf
  <2>4. held' = [held EXCEPT ![o] = OpenOf(w)]
    BY <1>4, <2>3, RunHeld
  <2>5. LoneFits(lone, work[o], database, allowed, trunking, cable, stale)
            => LoneFits(lone, w, database', allowed', trunking', cable, stale)
    BY <1>1, <2>1 DEF LoneFits, Laid, Trunks
  <2>6. provisionFaults' \in 0..MaxProvisionFaults
    BY <1>4, RunFaults
  <2> QED
    BY <1>1, <1>4, <2>1, <2>2, <2>3, <2>4, <2>5, <2>6, RunTypes, RunGoesOn DEF Trunks
<1>5. CanWrite(o) \in BOOLEAN
  BY DEF CanWrite
<1>6. CASE ClearVlans(o)
  <2> DEFINE kept == database \cap {work[o].vlan}
  <2>1. kept \subseteq Vlan /\ \A left \in SUBSET (database \ kept) : kept \cup left \subseteq Vlan
    BY <1>1
  <2>2. \/ /\ OnSession(o, [work[o] EXCEPT !.stage = "create"])
           /\ database' = kept /\ lone' = lone
        \/ /\ CallRaises /\ ToStage(o, "create") /\ UNCHANGED <<held, lone>>
           /\ \E left \in SUBSET (database \ kept) : database' = kept \cup left
        \/ RaisesUnless(CanWrite(o)) /\ SetupFailed(o) /\ database' = database
    BY <1>6 DEF ClearVlans
  <2> HIDE DEF kept
  <2>3. database' \subseteq Vlan
    BY <1>1, <2>1, <2>2
  <2> QED
    BY <1>2, <1>3, <1>4, <1>5, <2>2, <2>3
<1>7. CASE CreateVlan(o)
  <2> DEFINE more == database \cup {work[o].vlan}
  <2>1. more \subseteq Vlan /\ work[o].vlan \in more
    BY <1>1 DEF ProvisionIInv, RequestsFit, RequestFits
  <2>2. \/ /\ OnSession(o, [work[o] EXCEPT !.stage = "others"])
           /\ database' = more /\ lone' = lone
        \/ CallRaises /\ SetupFailed(o) /\ database' \in {database, more}
        \/ CallAnswers /\ SetupFailed(o) /\ database' = database
    BY <1>7 DEF CreateVlan
  <2> HIDE DEF more
  <2>3. database' \subseteq Vlan
    BY <1>1, <2>1, <2>2
  <2> QED
    BY <1>2, <1>3, <2>1, <2>2, <2>3
<1> QED
  BY <1>6, <1>7

\* What is known of the lone request, with one thing more.
LEMMA LoneSees ==
  ASSUME NEW old \in LoneType
  PROVE  LET l == [old EXCEPT !.seen = TRUE]
         IN  /\ l \in LoneType /\ l.who = old.who /\ l.done = old.done
             /\ l.located = old.located /\ (l.still <=> old.still)
             /\ (l.present <=> old.present) /\ l.seen
<1> DEFINE l == [old EXCEPT !.seen = TRUE]
<1>1. l \in LoneType
  BY DEF LoneType
<1>2. l.who = old.who /\ l.done = old.done /\ l.located = old.located
  BY DEF LoneType
<1>3. l.still = old.still /\ l.present = old.present /\ l.seen
  BY DEF LoneType
<1> QED
  BY <1>1, <1>2, <1>3

\* The same, and the ports that the table of trunks left out.
LEMMA LoneLooks ==
  ASSUME NEW old \in LoneType, NEW ports \in SUBSET Port
  PROVE  LET l == [old EXCEPT !.seen = TRUE, !.dark = ports]
         IN  /\ l \in LoneType /\ l.who = old.who /\ l.done = old.done
             /\ l.located = old.located /\ (l.still <=> old.still)
             /\ (l.present <=> old.present) /\ l.seen /\ l.dark = ports
<1> DEFINE l == [old EXCEPT !.seen = TRUE, !.dark = ports]
<1>1. l \in LoneType
  BY DEF LoneType
<1>2. l.who = old.who /\ l.done = old.done /\ l.located = old.located
  BY DEF LoneType
<1>3. l.still = old.still /\ l.present = old.present /\ l.seen /\ l.dark = ports
  BY DEF LoneType
<1> QED
  BY <1>1, <1>2, <1>3

\* The same, with the port of a peer.
LEMMA LoneLocates ==
  ASSUME NEW old \in LoneType, NEW r \in Role
  PROVE  LET l == [old EXCEPT !.located = old.located \cup {r}]
         IN  /\ l \in LoneType /\ l.who = old.who /\ l.done = old.done
             /\ l.located = old.located \cup {r} /\ (l.still <=> old.still)
             /\ (l.present <=> old.present) /\ (l.seen <=> old.seen)
<1> DEFINE l == [old EXCEPT !.located = old.located \cup {r}]
<1>1. l \in LoneType
  BY DEF LoneType
<1>2. l.who = old.who /\ l.done = old.done /\ l.located = old.located \cup {r}
  BY DEF LoneType
<1>3. l.still = old.still /\ l.present = old.present /\ l.seen = old.seen
  BY DEF LoneType
<1> QED
  BY <1>1, <1>2, <1>3

\* The session is as it was.
LEMMA RunSameSession ==
  ASSUME ProvisionIInv, NEW o \in ProvisionRequest, NEW w, w.session = work[o].session,
         UNCHANGED held
  PROVE  held' = [held EXCEPT ![o] = OpenOf(w)]
<1>1. OpenOf(work[o]) = OpenOf(w)
  BY DEF OpenOf
<1> QED
  BY <1>1, RunHeld

\* A step that only goes on to another stage.
LEMMA RunToStage ==
  ASSUME ProvisionIInv, NEW o \in ProvisionRequest, work[o].stage # "idle",
         NEW stage \in ProvisionStages \ {"idle"}, ToStage(o, stage), UNCHANGED held,
         UNCHANGED <<database, Trunks, Cabling, provisionRequests>>,
         provisionFaults' \in 0..MaxProvisionFaults,
         stage \in {"confirm", "discover"} => work[o].stage \in {"confirm", "discover"},
         \/ Flawed(o)
         \/ lone' = lone /\ work[o].stage \in Laid /\ stage \in Laid \ {"trunk"}
            /\ work[o].stage # "trunk"
  PROVE  ProvisionIInv'
<1> DEFINE w == [work[o] EXCEPT !.stage = stage]
<1>1. work[o] \in WorkType /\ work \in [ProvisionRequest -> WorkType]
  BY RunTypes
<1>2. /\ w \in WorkType /\ w.stage = stage /\ w.session = work[o].session
      /\ w.vlan = work[o].vlan /\ w.uplinks = work[o].uplinks
      /\ w.todo = work[o].todo
  BY <1>1 DEF WorkType
<1>3. work' = [work EXCEPT ![o] = w]
  BY <1>1 DEF ToStage
<1> HIDE DEF w
<1>4. held' = [held EXCEPT ![o] = OpenOf(w)] /\ w.stage # "idle"
      /\ (w.stage \in {"confirm", "discover"} => w.todo \subseteq Role)
  BY <1>2, RunSameSession DEF ProvisionIInv, RequestsFit, RequestFits
<1>5. CASE Flawed(o)
  BY <1>2, <1>3, <1>4, <1>5, RunTypes, RunFlawed DEF Trunks
<1>6. CASE /\ lone' = lone /\ work[o].stage \in Laid /\ stage \in Laid \ {"trunk"}
           /\ work[o].stage # "trunk"
  <2>1. LoneFits(lone, work[o], database, allowed, trunking, cable, stale)
            => LoneFits(lone, w, database', allowed', trunking', cable, stale)
    BY <1>2, <1>6 DEF LoneFits, Laid, Trunks
  <2> QED
    BY <1>2, <1>3, <1>4, <1>6, <2>1, RunTypes, RunGoesOn DEF Trunks
<1> QED
  BY <1>5, <1>6

\* Steps 2 and 3, after which a request without a trunk to stitch promises none.
LEMMA RunOthers ==
  ASSUME ProvisionIInv, NEW o \in ProvisionRequest, OtherSteps(o)
  PROVE  ProvisionIInv'
<1>1. PICK failed \in BOOLEAN :
          /\ RaisesUnless(~failed)
          /\ IF work[o].stitch
             THEN /\ ToStage(o, "resume")
                  /\ IF failed THEN Flawed(o) ELSE UNCHANGED lone
                  /\ UNCHANGED held
             ELSE Finish(o, "provision", failed)
  BY DEF OtherSteps
<1>2. /\ work[o].stage = "others" /\ UNCHANGED <<database, Trunks, Cabling, provisionRequests>>
  BY DEF OtherSteps, AtStage
<1>3. provisionFaults' \in 0..MaxProvisionFaults
  <2>1. (~failed) \in BOOLEAN
    OBVIOUS
  <2> QED
    BY <1>1, <2>1, RunFaults
<1>4. CASE work[o].stitch
  <2>1. "resume" \in ProvisionStages \ {"idle"}
    BY RunStages
  <2>2. ToStage(o, "resume") /\ UNCHANGED held /\ (Flawed(o) \/ lone' = lone)
    BY <1>1, <1>4
  <2> QED
    BY <1>2, <1>3, <2>1, <2>2, RunToStage DEF Laid
<1>5. CASE ~work[o].stitch
  <2>1. Finish(o, "provision", failed)
    BY <1>1, <1>5
  <2>2. ASSUME NEW l \in LoneType, l.done = "provision", l.run.stitch = work[o].stitch
        PROVE  DoneFits(l, database', allowed', trunking', cable)
    BY <1>5, <2>2 DEF DoneFits
  <2> QED
    BY <1>2, <1>3, <2>1, <2>2, RunTypes, RunEnds DEF Trunks
<1> QED
  BY <1>4, <1>5

\* The session of step 1, a new one, or none: then the request ends with a failure.
LEMMA RunResumes ==
  ASSUME ProvisionIInv, NEW o \in ProvisionRequest, Resume(o)
  PROVE  ProvisionIInv'
<1> DEFINE stage == IF hinted THEN "confirm" ELSE "discover"
           x == [work[o] EXCEPT !.stage = stage, !.todo = Role]
<1>1. /\ work[o].stage = "resume" /\ work[o] \in WorkType
      /\ work \in [ProvisionRequest -> WorkType]
      /\ UNCHANGED <<database, Trunks, Cabling, provisionRequests>>
  BY RunTypes DEF Resume, AtStage
<1>2. LineFreeForRun \in BOOLEAN
  BY DEF LineFreeForRun
<1>3. \/ OnSession(o, x) /\ lone' = lone
      \/ RaisesUnless(LineFreeForRun) /\ work' = [work EXCEPT ![o] = x] /\ UNCHANGED <<held, lone>>
      \/ RaisesUnless(LineFreeForRun) /\ Finish(o, "provision", TRUE)
  BY DEF Resume
<1>4. stage \in {"confirm", "discover"}
  OBVIOUS
<1> HIDE DEF stage
<1>5. /\ x \in WorkType /\ x.stage = stage /\ x.session = work[o].session
      /\ x.vlan = work[o].vlan /\ x.uplinks = work[o].uplinks /\ x.todo = Role
  BY <1>1, <1>4, RunStages DEF WorkType
<1> HIDE DEF x
<1>6. LoneFits(lone, work[o], database, allowed, trunking, cable, stale)
          => LoneFits(lone, x, database', allowed', trunking', cable, stale)
  BY <1>1, <1>4, <1>5 DEF LoneFits, Laid, Trunks
<1>7. CASE OnSession(o, x) /\ lone' = lone
  BY <1>1, <1>4, <1>5, <1>6, <1>7, RunTypes, RunOnSessionMoves DEF Trunks
<1>8. CASE RaisesUnless(LineFreeForRun) /\ work' = [work EXCEPT ![o] = x] /\ UNCHANGED <<held, lone>>
  <2>1. provisionFaults' \in 0..MaxProvisionFaults /\ held' = [held EXCEPT ![o] = OpenOf(x)]
    BY <1>2, <1>5, <1>8, RunFaults, RunSameSession
  <2> QED
    BY <1>1, <1>4, <1>5, <1>6, <1>8, <2>1, RunTypes, RunGoesOn DEF Trunks
<1>9. CASE RaisesUnless(LineFreeForRun) /\ Finish(o, "provision", TRUE)
  BY <1>1, <1>2, <1>9, RunFaults, RunTypes, RunEnds DEF Trunks
<1> QED
  BY <1>3, <1>7, <1>8, <1>9

\* The ports are switch ports, or the lack of one.
LEMMA RunPorts ==
  ASSUME ProvisionIInv
  PROVE  /\ \A p \in Port : p \in AnyPort /\ p # Nowhere
         /\ \A r \in Role : setting[r] \in AnyPort /\ cable[r] \in Port
         /\ CdpEntries \subseteq Port
<1>1. cable \in [Role -> Port] /\ stale \subseteq Port /\ setting \in UplinkSettings
  BY RunTypes
<1>2. Router \in Role
  BY DEF Role
<1> QED
  BY <1>1, <1>2, ProvisionAssumption DEF AnyPort, CdpEntries

\* A peer is located on the port that the MAC table or CDP has it on: the one it is plugged
\* into, as long as CDP has kept nothing of the router.
LEMMA RunLocates ==
  ASSUME ProvisionIInv, NEW o \in ProvisionRequest, work[o].stage \in {"confirm", "discover"},
         NEW r \in Role, NEW p \in Port, stale = {} => p = cable[r],
         Locate(o, r, p), UNCHANGED <<database, held, Trunks, Cabling, provisionRequests>>
  PROVE  ProvisionIInv'
<1> DEFINE w == [work[o] EXCEPT !.stage = "discover",
                                !.uplinks = [work[o].uplinks EXCEPT ![r] = p],
                                !.todo = work[o].todo \ {r}]
           l == [lone EXCEPT !.located = lone.located \cup {r}]
<1>1. /\ work[o] \in WorkType /\ work \in [ProvisionRequest -> WorkType] /\ lone \in LoneType
      /\ cable \in [Role -> Port] /\ work[o].stage # "idle"
  BY RunTypes
<1>2. work[o].uplinks \in [Role -> AnyPort] /\ p \in AnyPort
  BY <1>1, RunPorts DEF WorkType
<1>3. [work[o].uplinks EXCEPT ![r] = p] \in [Role -> AnyPort] /\ work[o].todo \subseteq Role
  BY <1>2 DEF ProvisionIInv, RequestsFit, RequestFits
<1>4. /\ w \in WorkType /\ w.stage = "discover" /\ w.session = work[o].session
      /\ w.vlan = work[o].vlan /\ w.uplinks = [work[o].uplinks EXCEPT ![r] = p]
      /\ w.todo \subseteq Role
  BY <1>1, <1>3, RunStages DEF WorkType
<1>5. work' = [work EXCEPT ![o] = w]
  BY <1>1 DEF Locate
<1> HIDE DEF w
<1>6. provisionFaults' \in 0..MaxProvisionFaults /\ held' = [held EXCEPT ![o] = OpenOf(w)]
  BY <1>4, RunFaults, RunSameSession DEF Locate
<1>7. lone' = IF IsLone(o) THEN l ELSE lone
  BY DEF Locate
<1>8. /\ l \in LoneType /\ l.who = lone.who /\ l.done = lone.done
      /\ l.located = lone.located \cup {r} /\ (l.still <=> lone.still)
      /\ (l.seen <=> lone.seen)
  BY <1>1, LoneLocates
<1> HIDE DEF l
<1>9. w.uplinks[r] = p /\ \A q \in Role \ {r} : w.uplinks[q] = work[o].uplinks[q]
  BY <1>2, <1>4
<1>10. CASE IsLone(o)
  <2>1. LoneFits(lone, work[o], database, allowed, trunking, cable, stale)
            => LoneFits(l, w, database', allowed', trunking', cable, stale)
    <3> SUFFICES ASSUME LoneFits(lone, work[o], database, allowed, trunking, cable, stale)
                 PROVE  LoneFits(l, w, database, allowed, trunking, cable, stale)
      BY DEF Trunks
    <3>1. lone.located \subseteq Role
      BY <1>1 DEF LoneType
    <3>2. l.still => stale = {} /\ \A q \in l.located : w.uplinks[q] = cable[q]
      BY <1>8, <1>9, <3>1 DEF LoneFits
    <3>3. w.vlan \in database
      BY <1>4 DEF LoneFits, Laid
    <3>4. ~l.seen
      BY <1>8 DEF LoneFits
    <3> QED
      BY <1>4, <3>2, <3>3, <3>4 DEF LoneFits
  <2> QED
    BY <1>1, <1>4, <1>5, <1>6, <1>7, <1>8, <1>10, <2>1, RunTypes, RunLearns DEF Trunks
<1>11. CASE ~IsLone(o)
  BY <1>1, <1>4, <1>5, <1>6, <1>7, <1>11, RunTypes, RunGoesOn DEF Trunks
<1> QED
  BY <1>10, <1>11

\* The configured port of a peer is confirmed by what CDP lists.
LEMMA RunConfirms ==
  ASSUME ProvisionIInv, NEW o \in ProvisionRequest, ConfirmUplink(o)
  PROVE  ProvisionIInv'
<1>1. /\ work[o].stage = "confirm"
      /\ UNCHANGED <<database, held, Trunks, Cabling, provisionRequests>>
  BY DEF ConfirmUplink, AtStage
<1>2. CASE \E p \in CdpEntries : Locate(o, Router, p)
  <2>1. PICK p \in CdpEntries : Locate(o, Router, p)
    BY <1>2
  <2>2. p \in Port /\ (stale = {} => p = cable[Router]) /\ Router \in Role
    BY RunPorts DEF CdpEntries, Role
  <2> QED
    BY <1>1, <2>1, <2>2, RunLocates
<1>3. CASE CallAnswers /\ ToStage(o, "discover") /\ UNCHANGED lone
  <2>1. "discover" \in ProvisionStages \ {"idle"} /\ "discover" \in Laid \ {"trunk"}
        /\ "confirm" \in Laid
    BY RunStages DEF Laid
  <2> QED
    BY <1>1, <1>3, <2>1, RunFaults, RunToStage
<1> QED
  BY <1>2, <1>3 DEF ConfirmUplink

\* The peers that are not found get their configured ports; those that are keep theirs.
LEMMA RunDiscovers ==
  ASSUME ProvisionIInv, NEW o \in ProvisionRequest, Discover(o)
  PROVE  ProvisionIInv'
<1>1. /\ work[o].stage = "discover" /\ work[o] \in WorkType
      /\ work \in [ProvisionRequest -> WorkType]
      /\ UNCHANGED <<database, held, Trunks, Cabling, provisionRequests>>
  BY RunTypes DEF Discover, AtStage
<1>2. work[o].todo \subseteq Role /\ work[o].uplinks \in [Role -> AnyPort]
  BY <1>1 DEF WorkType, ProvisionIInv, RequestsFit, RequestFits
<1>3. CASE /\ CallAnswers /\ UNCHANGED lone
           /\ work' = [work EXCEPT ![o].stage = "table",
                 ![o].uplinks = [r \in Role |-> IF @[r] = Nowhere THEN setting[r] ELSE @[r]]]
  <2> DEFINE uplinks == [r \in Role |-> IF work[o].uplinks[r] = Nowhere THEN setting[r]
                                       ELSE work[o].uplinks[r]]
             w == [work[o] EXCEPT !.stage = "table", !.uplinks = uplinks]
  <2>1. /\ uplinks \in [Role -> AnyPort]
        /\ \A r \in Role : work[o].uplinks[r] # Nowhere => uplinks[r] = work[o].uplinks[r]
    BY <1>2, RunPorts
  <2>2. work' = [work EXCEPT ![o] = w]
    BY <1>1, <1>3
  <2> HIDE DEF uplinks
  <2>3. /\ w \in WorkType /\ w.stage = "table" /\ w.session = work[o].session
        /\ w.vlan = work[o].vlan /\ w.uplinks = uplinks
    BY <1>1, <2>1, RunStages DEF WorkType
  <2> HIDE DEF w
  <2>4. provisionFaults' \in 0..MaxProvisionFaults /\ held' = [held EXCEPT ![o] = OpenOf(w)]
    BY <1>1, <1>3, <2>3, RunFaults, RunSameSession
  <2>5. lone.located \subseteq Role
    BY RunTypes DEF LoneType
  <2>6. LoneFits(lone, work[o], database, allowed, trunking, cable, stale)
            => LoneFits(lone, w, database', allowed', trunking', cable, stale)
    <3> SUFFICES ASSUME LoneFits(lone, work[o], database, allowed, trunking, cable, stale)
                 PROVE  LoneFits(lone, w, database, allowed, trunking, cable, stale)
      BY <1>1 DEF Trunks
    <3>1. lone.still => \A r \in lone.located : w.uplinks[r] = cable[r]
      BY <2>1, <2>3, <2>5, RunPorts DEF LoneFits
    <3> QED
      BY <1>1, <2>3, <3>1 DEF LoneFits, Laid
  <2> QED
    BY <1>1, <1>3, <2>2, <2>3, <2>4, <2>6, RunTypes, RunGoesOn DEF Trunks
<1>4. CASE \E r \in work[o].todo :
             \/ r = Router /\ \E p \in CdpEntries : Locate(o, r, p)
             \/ work[o].session = "live" /\ Locate(o, r, cable[r])
             \/ Miss(o, r)
  <2>1. PICK r \in work[o].todo :
             \/ r = Router /\ \E p \in CdpEntries : Locate(o, r, p)
             \/ work[o].session = "live" /\ Locate(o, r, cable[r])
             \/ Miss(o, r)
    BY <1>4
  <2>2. CASE r = Router /\ \E p \in CdpEntries : Locate(o, r, p)
    <3>1. PICK p \in CdpEntries : Locate(o, Router, p)
      BY <2>2
    <3>2. p \in Port /\ (stale = {} => p = cable[Router]) /\ Router \in Role
      BY RunPorts DEF CdpEntries, Role
    <3> QED
      BY <1>1, <3>1, <3>2, RunLocates
  <2>3. CASE Locate(o, r, cable[r])
    <3>1. r \in Role /\ cable[r] \in Port
      BY <1>2, RunPorts
    <3> QED
      BY <1>1, <2>3, <3>1, RunLocates
  <2>4. CASE Miss(o, r)
    <3> DEFINE w == [work[o] EXCEPT !.todo = work[o].todo \ {r}]
    <3>1. /\ w \in WorkType /\ w.stage = "discover" /\ w.session = work[o].session
          /\ w.vlan = work[o].vlan /\ w.uplinks = work[o].uplinks
          /\ w.todo \subseteq Role
      BY <1>1, <1>2 DEF WorkType
    <3>2. work' = [work EXCEPT ![o] = w]
      BY <1>1, <2>4 DEF Miss
    <3> HIDE DEF w
    <3>3. provisionFaults' \in 0..MaxProvisionFaults /\ held' = [held EXCEPT ![o] = OpenOf(w)]
      BY <1>1, <2>4, <3>1, RunFaults, RunSameSession DEF Miss
    <3>4. LoneFits(lone, work[o], database, allowed, trunking, cable, stale)
              => LoneFits(lone, w, database', allowed', trunking', cable, stale)
      BY <1>1, <3>1 DEF LoneFits, Laid, Trunks
    <3> QED
      BY <1>1, <2>4, <3>1, <3>2, <3>3, <3>4, RunTypes, RunGoesOn DEF Trunks, Miss
  <2> QED
    BY <2>1, <2>2, <2>3, <2>4
<1> QED
  BY <1>1, <1>3, <1>4 DEF Discover

\* The interface table: a name that it does not list is reported.
LEMMA RunChecksPorts ==
  ASSUME ProvisionIInv, NEW o \in ProvisionRequest, CheckPorts(o)
  PROVE  ProvisionIInv'
<1> DEFINE there == {r \in Role : work[o].uplinks[r] \in Port}
           StandsAt(todo) == [work[o] EXCEPT !.stage = "trunk", !.todo = todo]
           l == [lone EXCEPT !.seen = TRUE]
<1>1. /\ work[o].stage = "table" /\ work[o] \in WorkType
      /\ work \in [ProvisionRequest -> WorkType] /\ lone \in LoneType
      /\ UNCHANGED <<database, Trunks, Cabling, provisionRequests>>
  BY RunTypes DEF CheckPorts, AtStage
<1>2. CanWrite(o) \in BOOLEAN
  BY DEF CanWrite
<1>3. \/ /\ OnSession(o, StandsAt(there))
         /\ \/ there # Role /\ Flawed(o)
            \/ there = Role /\ IsLone(o) /\ lone' = l
            \/ ~IsLone(o) /\ lone' = lone
      \/ /\ RaisesUnless(CanWrite(o)) /\ UNCHANGED <<held, lone>>
         /\ work' = [work EXCEPT ![o] = StandsAt(Role)]
  BY <1>1 DEF CheckPorts
<1>4. ASSUME NEW todo \in SUBSET Role
      PROVE  /\ StandsAt(todo) \in WorkType /\ StandsAt(todo).stage = "trunk" /\ StandsAt(todo).todo = todo
             /\ StandsAt(todo).session = work[o].session /\ StandsAt(todo).vlan = work[o].vlan
             /\ StandsAt(todo).uplinks = work[o].uplinks
  BY <1>1, RunStages DEF WorkType
<1> HIDE DEF StandsAt
<1>5. l \in LoneType /\ l.who = lone.who /\ l.done = lone.done /\ l.located = lone.located
      /\ (l.still <=> lone.still)
  BY <1>1, LoneSees
<1> HIDE DEF l
<1>6. there \in SUBSET Role /\ Role \in SUBSET Role
  OBVIOUS
<1>7. CASE /\ OnSession(o, StandsAt(there))
           /\ \/ there # Role /\ Flawed(o)
              \/ there = Role /\ IsLone(o) /\ lone' = l
              \/ ~IsLone(o) /\ lone' = lone
  <2>1. CASE there # Role /\ Flawed(o)
    BY <1>1, <1>4, <1>6, <1>7, <2>1, RunTypes, RunOnSessionMoves DEF Trunks
  <2>2. CASE there = Role /\ IsLone(o) /\ lone' = l
    <3>1. \A r \in Role : work[o].uplinks[r] \in Port
      BY <2>2
    <3> HIDE DEF there
    <3>2. LoneFits(lone, work[o], database, allowed, trunking, cable, stale)
              => LoneFits(l, StandsAt(there), database', allowed', trunking', cable, stale)
      BY <1>1, <1>4, <1>5, <1>6, <2>2, <3>1 DEF LoneFits, Laid, Trunks
    <3> QED
      BY <1>1, <1>4, <1>5, <1>6, <1>7, <2>2, <3>2, RunTypes, RunOnSessionMoves DEF Trunks
  <2>3. CASE ~IsLone(o) /\ lone' = lone
    BY <1>1, <1>4, <1>6, <1>7, <2>3, RunTypes, RunOnSessionMoves DEF Trunks
  <2> QED
    BY <1>7, <2>1, <2>2, <2>3
<1>8. CASE /\ RaisesUnless(CanWrite(o)) /\ UNCHANGED <<held, lone>>
           /\ work' = [work EXCEPT ![o] = StandsAt(Role)]
  <2>1. provisionFaults' \in 0..MaxProvisionFaults /\ held' = [held EXCEPT ![o] = OpenOf(StandsAt(Role))]
    BY <1>2, <1>4, <1>6, <1>8, RunFaults, RunSameSession
  <2>2. LoneFits(lone, work[o], database, allowed, trunking, cable, stale)
            => LoneFits(lone, StandsAt(Role), database', allowed', trunking', cable, stale)
    BY <1>1, <1>4, <1>6 DEF LoneFits, Laid, Trunks
  <2> QED
    BY <1>1, <1>4, <1>6, <1>8, <2>1, <2>2, RunTypes, RunGoesOn DEF Trunks
<1> QED
  BY <1>3, <1>7, <1>8

\* Trunking a port adds to what it carries.
LEMMA RunTrunkPort ==
  ASSUME ProvisionIInv, NEW o \in ProvisionRequest, work[o].vlan \in Vlan, NEW p,
         TrunkPort(o, p) \/ UNCHANGED Trunks
  PROVE  /\ allowed' \in [Port -> SUBSET Vlan] /\ trunking' \subseteq Port
         /\ down' \subseteq Port
         /\ trunking \subseteq trunking' /\ \A q \in Port : allowed[q] \subseteq allowed'[q]
         /\ TrunkPort(o, p) /\ p \in Port => p \in trunking' /\ work[o].vlan \in allowed'[p]
<1>1. /\ allowed \in [Port -> SUBSET Vlan] /\ trunking \subseteq Port /\ down \subseteq Port
  BY RunTypes
<1>2. CASE TrunkPort(o, p) /\ p \in Port
  <2>1. /\ allowed' = [allowed EXCEPT ![p] = allowed[p] \cup {work[o].vlan}]
        /\ trunking' = trunking \cup {p} /\ down' \subseteq down \cup {p}
    BY <1>2 DEF TrunkPort
  <2>2. allowed[p] \cup {work[o].vlan} \in SUBSET Vlan
    BY <1>1, <1>2
  <2> QED
    BY <1>1, <1>2, <2>1, <2>2
<1>3. CASE UNCHANGED Trunks /\ ~(TrunkPort(o, p) /\ p \in Port)
  BY <1>1, <1>3 DEF Trunks
<1> QED
  BY <1>2, <1>3 DEF TrunkPort

\* The trunks, one peer after the other: the last one ends the request.
LEMMA RunTrunks ==
  ASSUME ProvisionIInv, NEW o \in ProvisionRequest, Trunk(o)
  PROVE  ProvisionIInv'
<1>1. /\ work[o].stage = "trunk" /\ work[o] \in WorkType /\ work[o].vlan \in Vlan
      /\ work \in [ProvisionRequest -> WorkType]
      /\ UNCHANGED <<database, Cabling, provisionRequests>>
  BY RunTypes DEF Trunk, AtStage, ProvisionIInv, RequestsFit, RequestFits
<1>2. CanWrite(o) \in BOOLEAN
  BY DEF CanWrite
<1>3. CASE work[o].todo = {} /\ CallAnswers /\ Finish(o, "provision", FALSE) /\ UNCHANGED Trunks
  <2>1. ASSUME NEW l \in LoneType, l.done = "provision",
               l.run.vlan = work[o].vlan, l.run.uplinks = work[o].uplinks,
               l.still = lone.still, l.located = lone.located, l.seen = lone.seen,
               LoneFits(lone, work[o], database, allowed, trunking, cable, stale)
        PROVE  DoneFits(l, database, allowed, trunking, cable)
    <3>1. l.located \subseteq Role
      BY <2>1 DEF LoneType
    <3>2. work[o].vlan \in database
      BY <1>1, <2>1 DEF LoneFits, Laid
    <3>3. \A r \in Role : work[o].uplinks[r] \in Port =>
             work[o].uplinks[r] \in trunking /\ work[o].vlan \in allowed[work[o].uplinks[r]]
      BY <1>1, <1>3, <2>1 DEF LoneFits
    <3>4. l.still => \A r \in l.located : work[o].uplinks[r] = cable[r] /\ cable[r] \in Port
      BY <2>1, <3>1, RunPorts DEF LoneFits
    <3>5. l.seen => \A r \in Role : work[o].uplinks[r] \in Port
      BY <1>1, <2>1 DEF LoneFits
    <3>6. l.still => \A r \in l.located : cable[r] \in trunking /\ l.run.vlan \in allowed[cable[r]]
      BY <2>1, <3>1, <3>3, <3>4
    <3>7. l.seen => \A r \in Role : l.run.uplinks[r] \in trunking
                                    /\ l.run.vlan \in allowed[l.run.uplinks[r]]
      BY <2>1, <3>3, <3>5
    <3> QED
      BY <2>1, <3>2, <3>6, <3>7 DEF DoneFits
  <2>2. ASSUME NEW l \in LoneType, l.done = "provision",
               l.run.vlan = work[o].vlan, l.run.uplinks = work[o].uplinks,
               l.still = lone.still, l.located = lone.located, l.seen = lone.seen,
               LoneFits(lone, work[o], database, allowed, trunking, cable, stale)
        PROVE  DoneFits(l, database', allowed', trunking', cable)
    BY <1>1, <1>3, <2>1, <2>2 DEF Trunks
  <2> QED
    BY <1>1, <1>3, <2>2, RunFaults, RunTypes, RunEnds DEF Trunks
<1>4. ASSUME NEW r \in work[o].todo, OnSession(o, [work[o] EXCEPT !.todo = work[o].todo \ {r}]),
             TrunkPort(o, work[o].uplinks[r]), lone' = lone
      PROVE  ProvisionIInv'
  <2> DEFINE x == [work[o] EXCEPT !.todo = work[o].todo \ {r}]
  <2>1. /\ x \in WorkType /\ x.stage = "trunk" /\ x.vlan = work[o].vlan
        /\ x.uplinks = work[o].uplinks /\ x.todo = work[o].todo \ {r}
    BY <1>1 DEF WorkType
  <2>2. OnSession(o, x)
    BY <1>4
  <2> HIDE DEF x
  <2>3. /\ allowed' \in [Port -> SUBSET Vlan] /\ trunking' \subseteq Port
        /\ down' \subseteq Port
        /\ trunking \subseteq trunking' /\ \A q \in Port : allowed[q] \subseteq allowed'[q]
        /\ work[o].uplinks[r] \in Port => /\ work[o].uplinks[r] \in trunking'
                                          /\ work[o].vlan \in allowed'[work[o].uplinks[r]]
    BY <1>1, <1>4, RunTrunkPort
  <2>4. LoneFits(lone, work[o], database, allowed, trunking, cable, stale)
            => LoneFits(lone, x, database', allowed', trunking', cable, stale)
    <3> SUFFICES ASSUME LoneFits(lone, work[o], database, allowed, trunking, cable, stale)
                 PROVE  LoneFits(lone, x, database, allowed', trunking', cable, stale)
      BY <1>1
    <3>1. \A q \in Role \ x.todo : x.uplinks[q] \in Port =>
             x.uplinks[q] \in trunking' /\ x.vlan \in allowed'[x.uplinks[q]]
      BY <1>1, <2>1, <2>3 DEF LoneFits
    <3>2. lone.seen => \A q \in Role : x.uplinks[q] \in Port
      BY <1>1, <2>1 DEF LoneFits
    <3> QED
      BY <1>1, <2>1, <3>1, <3>2 DEF LoneFits, Laid
  <2> QED
    BY <1>1, <1>4, <2>1, <2>2, <2>3, <2>4, RunTypes, RunOnSessionMoves
<1>5. ASSUME NEW r \in work[o].todo, RaisesUnless(CanWrite(o)), Flawed(o), UNCHANGED held,
             TrunkPort(o, work[o].uplinks[r]) \/ UNCHANGED Trunks,
             work' = [work EXCEPT ![o] = [work[o] EXCEPT !.todo = work[o].todo \ {r}]]
      PROVE  ProvisionIInv'
  <2> DEFINE w == [work[o] EXCEPT !.todo = work[o].todo \ {r}]
  <2>1. /\ w \in WorkType /\ w.stage = "trunk" /\ w.vlan = work[o].vlan
        /\ w.session = work[o].session
    BY <1>1 DEF WorkType
  <2>2. work' = [work EXCEPT ![o] = w]
    BY <1>5
  <2> HIDE DEF w
  <2>3. /\ allowed' \in [Port -> SUBSET Vlan] /\ trunking' \subseteq Port
        /\ down' \subseteq Port
    BY <1>1, <1>5, RunTrunkPort
  <2>4. provisionFaults' \in 0..MaxProvisionFaults /\ held' = [held EXCEPT ![o] = OpenOf(w)]
    BY <1>2, <1>5, <2>1, RunFaults, RunSameSession
  <2> QED
    BY <1>1, <1>5, <2>1, <2>2, <2>3, <2>4, RunTypes, RunFlawed
<1>6. CASE \E r \in work[o].todo :
             \/ /\ OnSession(o, [work[o] EXCEPT !.todo = work[o].todo \ {r}])
                /\ TrunkPort(o, work[o].uplinks[r])
                /\ lone' = lone
             \/ /\ RaisesUnless(CanWrite(o))
                /\ TrunkPort(o, work[o].uplinks[r]) \/ UNCHANGED Trunks
                /\ work' = [work EXCEPT ![o] = [work[o] EXCEPT !.todo = work[o].todo \ {r}]]
                /\ Flawed(o)
                /\ UNCHANGED held
  BY <1>4, <1>5, <1>6
<1> QED
  BY <1>1, <1>3, <1>6 DEF Trunk

\* A de-provision opens its session, or fails.
LEMMA RunOpens ==
  ASSUME ProvisionIInv, NEW o \in ProvisionRequest, OpenSession(o)
  PROVE  ProvisionIInv'
<1> DEFINE x == [work[o] EXCEPT !.stage = "look"]
<1>1. /\ work[o].stage = "open" /\ work[o] \in WorkType
      /\ UNCHANGED <<database, Trunks, Cabling, provisionRequests>>
  BY RunTypes DEF OpenSession, AtStage
<1>2. LineFreeForRun \in BOOLEAN
  BY DEF LineFreeForRun
<1>3. x \in WorkType /\ x.stage = "look" /\ x.vlan = work[o].vlan
  BY <1>1, RunStages DEF WorkType
<1>4. \/ OnSession(o, x) /\ lone' = lone
      \/ RaisesUnless(LineFreeForRun) /\ Finish(o, "deprovision", TRUE)
  BY DEF OpenSession
<1> HIDE DEF x
<1>5. CASE OnSession(o, x) /\ lone' = lone
  <2>1. LoneFits(lone, work[o], database, allowed, trunking, cable, stale)
            => LoneFits(lone, x, database', allowed', trunking', cable, stale)
    <3> SUFFICES ASSUME LoneFits(lone, work[o], database, allowed, trunking, cable, stale)
                 PROVE  LoneFits(lone, x, database, allowed, trunking, cable, stale)
      BY <1>1 DEF Trunks
    <3>1. lone.still => stale = {} /\ \A r \in lone.located : x.uplinks[r] = cable[r]
      <4>1. x.uplinks = work[o].uplinks
        BY <1>1 DEF WorkType, x
      <4> QED
        BY <4>1 DEF LoneFits
    <3> QED
      BY <1>1, <1>3, <3>1 DEF LoneFits, Laid
  <2> QED
    BY <1>1, <1>3, <1>5, <2>1, RunTypes, RunOnSessionMoves DEF Trunks
<1>6. CASE RaisesUnless(LineFreeForRun) /\ Finish(o, "deprovision", TRUE)
  BY <1>1, <1>2, <1>6, RunFaults, RunTypes, RunEnds DEF Trunks
<1> QED
  BY <1>4, <1>5, <1>6

\* The table of trunks, read while the VLAN exists, lists every trunk that allows it.
LEMMA RunLooks ==
  ASSUME ProvisionIInv, NEW o \in ProvisionRequest, LookForTrunks(o)
  PROVE  ProvisionIInv'
<1> DEFINE StandsAt(todo) == [work[o] EXCEPT !.stage = "delete", !.todo = todo]
           l == [lone EXCEPT !.seen = TRUE, !.dark = down]
           configured == {setting[r] : r \in Role}
<1>1. /\ work[o].stage = "look" /\ work[o] \in WorkType
      /\ work \in [ProvisionRequest -> WorkType] /\ lone \in LoneType /\ down \subseteq Port
      /\ UNCHANGED <<database, Trunks, Cabling, provisionRequests>>
  BY RunTypes DEF LookForTrunks, AtStage
<1>2. \/ /\ OnSession(o, StandsAt(Carrying(work[o].vlan)))
         /\ \/ IsLone(o) /\ lone' = l
            \/ ~IsLone(o) /\ lone' = lone
      \/ /\ \E possible \in BOOLEAN : RaisesUnless(possible)
         /\ UNCHANGED <<held, lone>>
         /\ work' = [work EXCEPT ![o] = StandsAt(configured)]
  <2>1. (work[o].session = "live") \in BOOLEAN
    OBVIOUS
  <2> QED
    BY <1>1, <2>1 DEF LookForTrunks
<1>3. ASSUME NEW todo \in SUBSET AnyPort
      PROVE  /\ StandsAt(todo) \in WorkType /\ StandsAt(todo).stage = "delete" /\ StandsAt(todo).todo = todo
             /\ StandsAt(todo).session = work[o].session /\ StandsAt(todo).vlan = work[o].vlan
             /\ StandsAt(todo).uplinks = work[o].uplinks
  BY <1>1, RunStages DEF WorkType
<1> HIDE DEF StandsAt
<1>4. l \in LoneType /\ l.who = lone.who /\ l.done = lone.done /\ l.located = lone.located
      /\ (l.still <=> lone.still) /\ (l.present <=> lone.present) /\ l.dark = down
  BY <1>1, LoneLooks
<1> HIDE DEF l
<1>5. Carrying(work[o].vlan) \in SUBSET AnyPort /\ configured \in SUBSET AnyPort
  BY RunTypes, RunPorts DEF Carrying, Carries
<1> HIDE DEF configured
<1>6. CASE /\ OnSession(o, StandsAt(Carrying(work[o].vlan)))
           /\ \/ IsLone(o) /\ lone' = l
              \/ ~IsLone(o) /\ lone' = lone
  <2>1. CASE IsLone(o) /\ lone' = l
    <3>1. LoneFits(lone, work[o], database, allowed, trunking, cable, stale)
              => LoneFits(l, StandsAt(Carrying(work[o].vlan)), database', allowed', trunking', cable, stale)
      <4> SUFFICES ASSUME LoneFits(lone, work[o], database, allowed, trunking, cable, stale)
                   PROVE  LoneFits(l, StandsAt(Carrying(work[o].vlan)), database, allowed, trunking,
                                   cable, stale)
        BY <1>1 DEF Trunks
      <4>1. lone.present => work[o].vlan \in database
        BY <1>1 DEF LoneFits
      <4>2. lone.present =>
                \A p \in trunking \ (Carrying(work[o].vlan) \cup down) : work[o].vlan \notin allowed[p]
        BY <4>1 DEF Carrying, Carries
      <4> QED
        BY <1>1, <1>3, <1>4, <1>5, <4>2 DEF LoneFits, Laid
    <3> QED
      BY <1>1, <1>3, <1>4, <1>5, <1>6, <2>1, <3>1, RunTypes, RunOnSessionMoves DEF Trunks
  <2>2. CASE ~IsLone(o) /\ lone' = lone
    BY <1>1, <1>3, <1>5, <1>6, <2>2, RunTypes, RunOnSessionMoves DEF Trunks
  <2> QED
    BY <1>6, <2>1, <2>2
<1>7. CASE /\ \E possible \in BOOLEAN : RaisesUnless(possible)
           /\ UNCHANGED <<held, lone>>
           /\ work' = [work EXCEPT ![o] = StandsAt(configured)]
  <2>1. /\ provisionFaults' \in 0..MaxProvisionFaults
        /\ held' = [held EXCEPT ![o] = OpenOf(StandsAt(configured))]
    BY <1>3, <1>5, <1>7, RunFaults, RunSameSession
  <2>2. LoneFits(lone, work[o], database, allowed, trunking, cable, stale)
            => LoneFits(lone, StandsAt(configured), database', allowed', trunking', cable, stale)
    BY <1>1, <1>3, <1>5 DEF LoneFits, Laid, Trunks
  <2> QED
    BY <1>1, <1>3, <1>5, <1>7, <2>1, <2>2, RunTypes, RunGoesOn DEF Trunks
<1> QED
  BY <1>2, <1>6, <1>7

\* The VLAN goes after its trunks were read.
LEMMA RunDeletesVlan ==
  ASSUME ProvisionIInv, NEW o \in ProvisionRequest, DeleteVlanOf(o)
  PROVE  ProvisionIInv'
<1> DEFINE x == [work[o] EXCEPT !.stage = "untrunk"]
           fewer == database \ {work[o].vlan}
<1>1. /\ work[o].stage = "delete" /\ work[o] \in WorkType
      /\ UNCHANGED <<Trunks, Cabling, provisionRequests>>
  BY RunTypes DEF DeleteVlanOf, AtStage
<1>2. CanWrite(o) \in BOOLEAN
  BY DEF CanWrite
<1>3. /\ x \in WorkType /\ x.stage = "untrunk" /\ x.vlan = work[o].vlan
      /\ x.uplinks = work[o].uplinks /\ x.todo = work[o].todo
  BY <1>1, RunStages DEF WorkType
<1>4. /\ database' \in {database, fewer}
      /\ \/ OnSession(o, x) /\ lone' = lone
         \/ RaisesUnless(CanWrite(o)) /\ Finish(o, "deprovision", TRUE)
  BY DEF DeleteVlanOf
<1>5. database' \subseteq Vlan
  BY <1>4, RunTypes
<1> HIDE DEF x
<1>6. CASE OnSession(o, x) /\ lone' = lone
  <2>1. LoneFits(lone, work[o], database, allowed, trunking, cable, stale)
            => LoneFits(lone, x, database', allowed', trunking', cable, stale)
    BY <1>1, <1>3 DEF LoneFits, Laid, Trunks
  <2> QED
    BY <1>1, <1>3, <1>5, <1>6, <2>1, RunTypes, RunOnSessionMoves DEF Trunks
<1>7. CASE RaisesUnless(CanWrite(o)) /\ Finish(o, "deprovision", TRUE)
  BY <1>1, <1>2, <1>5, <1>7, RunFaults, RunTypes, RunEnds DEF Trunks
<1> QED
  BY <1>4, <1>6, <1>7

\* One trunk after the other: what is not outstanding does not allow the VLAN.
LEMMA RunUntrunks ==
  ASSUME ProvisionIInv, NEW o \in ProvisionRequest, Untrunk(o)
  PROVE  ProvisionIInv'
<1> DEFINE less(p) == [q \in Port |-> IF q = p THEN allowed[q] \ {work[o].vlan} ELSE allowed[q]]
           rest(p) == [work[o] EXCEPT !.todo = work[o].todo \ {p}]
<1>1. /\ work[o].stage = "untrunk" /\ work[o] \in WorkType
      /\ work \in [ProvisionRequest -> WorkType] /\ trunking \subseteq Port
      /\ UNCHANGED <<database, trunking, down, Cabling, provisionRequests>>
  BY RunTypes DEF Untrunk, AtStage
<1>2. CanWrite(o) \in BOOLEAN
  BY DEF CanWrite
<1>3. \/ work[o].todo = {} /\ CallAnswers /\ Finish(o, "deprovision", FALSE) /\ UNCHANGED allowed
      \/ \E p \in work[o].todo :
             \/ OnSession(o, rest(p)) /\ allowed' = less(p) /\ lone' = lone
             \/ /\ RaisesUnless(CanWrite(o)) /\ Flawed(o) /\ UNCHANGED held
                /\ allowed' \in {allowed, less(p)}
                /\ work' = [work EXCEPT ![o] = rest(p)]
  BY DEF Untrunk
<1>4. ASSUME NEW p
      PROVE  /\ rest(p) \in WorkType /\ rest(p).stage = "untrunk" /\ rest(p).vlan = work[o].vlan
             /\ rest(p).uplinks = work[o].uplinks /\ rest(p).todo = work[o].todo \ {p}
             /\ rest(p).session = work[o].session
  BY <1>1 DEF WorkType
<1>5. ASSUME NEW p
      PROVE  /\ less(p) \in [Port -> SUBSET Vlan]
             /\ \A q \in Port : less(p)[q] \subseteq allowed[q]
             /\ p \in Port => work[o].vlan \notin less(p)[p]
  BY RunTypes
<1>6. allowed \in [Port -> SUBSET Vlan]
  BY RunTypes
<1> HIDE DEF less, rest
<1>7. CASE work[o].todo = {} /\ CallAnswers /\ Finish(o, "deprovision", FALSE) /\ UNCHANGED allowed
  <2>1. ASSUME NEW l \in LoneType, l.done = "deprovision", l.run.vlan = work[o].vlan,
               l.present = lone.present, l.seen = lone.seen, l.dark = lone.dark,
               LoneFits(lone, work[o], database, allowed, trunking, cable, stale)
        PROVE  DoneFits(l, database', allowed', trunking', cable)
    BY <1>1, <1>7, <2>1 DEF DoneFits, LoneFits
  <2> QED
    BY <1>1, <1>7, <2>1, RunFaults, RunTypes, RunEnds
<1>8. ASSUME NEW p \in work[o].todo, OnSession(o, rest(p)), allowed' = less(p), lone' = lone
      PROVE  ProvisionIInv'
  <2>1. LoneFits(lone, work[o], database, allowed, trunking, cable, stale)
            => LoneFits(lone, rest(p), database', allowed', trunking', cable, stale)
    <3> SUFFICES ASSUME LoneFits(lone, work[o], database, allowed, trunking, cable, stale)
                 PROVE  LoneFits(lone, rest(p), database, less(p), trunking, cable, stale)
      BY <1>1, <1>8
    <3>1. lone.seen /\ lone.present =>
              \A q \in trunking \ (rest(p).todo \cup lone.dark) : work[o].vlan \notin less(p)[q]
      BY <1>1, <1>4, <1>5 DEF LoneFits
    <3> QED
      BY <1>1, <1>4, <3>1 DEF LoneFits, Laid
  <2> QED
    BY <1>1, <1>4, <1>5, <1>8, <2>1, RunTypes, RunOnSessionMoves
<1>9. ASSUME NEW p \in work[o].todo, RaisesUnless(CanWrite(o)), Flawed(o), UNCHANGED held,
             allowed' \in {allowed, less(p)}, work' = [work EXCEPT ![o] = rest(p)]
      PROVE  ProvisionIInv'
  <2>1. /\ provisionFaults' \in 0..MaxProvisionFaults
        /\ held' = [held EXCEPT ![o] = OpenOf(rest(p))]
    BY <1>2, <1>4, <1>9, RunFaults, RunSameSession
  <2>2. allowed' \in [Port -> SUBSET Vlan]
    BY <1>5, <1>6, <1>9
  <2> QED
    BY <1>1, <1>4, <1>9, <2>1, <2>2, RunTypes, RunFlawed
<1> QED
  BY <1>3, <1>7, <1>8, <1>9

\* A session that dies is no longer open.
LEMMA RunLosesSession ==
  ASSUME ProvisionIInv, NEW o \in ProvisionRequest, SessionDies(o)
  PROVE  ProvisionIInv'
<1> DEFINE w == [work[o] EXCEPT !.session = "dead"]
<1>1. /\ work[o] \in WorkType /\ work \in [ProvisionRequest -> WorkType]
      /\ work[o].session = "live" /\ RequestFits(work[o], held[o])
      /\ UNCHANGED <<database, Trunks, Cabling, lone, provisionRequests>>
  BY RunTypes DEF SessionDies, ProvisionIInv, RequestsFit
<1>2. /\ w \in WorkType /\ w.stage = work[o].stage /\ w.vlan = work[o].vlan
      /\ w.uplinks = work[o].uplinks /\ w.todo = work[o].todo /\ w.session = "dead"
  BY <1>1 DEF WorkType
<1>3. work' = [work EXCEPT ![o] = w]
  BY <1>1 DEF SessionDies
<1> HIDE DEF w
<1>4. /\ OpenOf(w) = 0 /\ OpenOf(work[o]) = 1 /\ work[o].stage # "idle"
      /\ (w.stage \in {"confirm", "discover"} => w.todo \subseteq Role)
  BY <1>1, <1>2 DEF OpenOf, RequestFits
<1>5. held' = [held EXCEPT ![o] = OpenOf(w)]
  <2>1. held[o] = 1
    BY <1>1, <1>4 DEF RequestFits
  <2> QED
    BY <1>4, <2>1 DEF SessionDies
<1>6. LoneFits(lone, work[o], database, allowed, trunking, cable, stale)
          => LoneFits(lone, w, database', allowed', trunking', cable, stale)
  BY <1>1, <1>2 DEF LoneFits, Trunks
<1>7. provisionFaults' \in 0..MaxProvisionFaults
  BY RunFaults DEF SessionDies
<1> QED
  BY <1>1, <1>2, <1>3, <1>4, <1>5, <1>6, <1>7, RunTypes, RunGoesOn DEF Trunks

\* Every step keeps the invariant.
LEMMA ProvisionStepKeeps == ProvisionIInv /\ [ProvisionNext]_provisionVars => ProvisionIInv'
<1> SUFFICES ASSUME ProvisionIInv, [ProvisionNext]_provisionVars
             PROVE  ProvisionIInv'
  OBVIOUS
<1>1. ASSUME NEW o \in ProvisionRequest, ProvisionStep(o)
      PROVE  ProvisionIInv'
  BY <1>1, RunSetupConnect, RunWritesVlans, RunOthers, RunResumes, RunConfirms, RunDiscovers,
     RunChecksPorts, RunTrunks, RunOpens, RunLooks, RunDeletesVlan, RunUntrunks, RunLosesSession
  DEF ProvisionStep
<1>2. ASSUME NEW o \in ProvisionRequest, NEW v \in Vlan,
             \/ \E replace, stitch \in BOOLEAN : BeginRun(o, "setup", v, replace, stitch)
             \/ BeginRun(o, "open", v, FALSE, FALSE)
      PROVE  ProvisionIInv'
  BY <1>2, RunBegins
<1> QED
  BY <1>1, <1>2, RunAround DEF ProvisionNext

\* StandsAt first no request is under way.
LEMMA ProvisionStarts == ProvisionInit => ProvisionIInv
<1> SUFFICES ASSUME ProvisionInit PROVE ProvisionIInv
  OBVIOUS
<1>1. /\ work \in [ProvisionRequest -> WorkType] /\ held \in [ProvisionRequest -> 0..2]
      /\ lone \in LoneType /\ lone.who = {} /\ lone.done = "none"
      /\ \A o \in ProvisionRequest : work[o] = NoWork /\ held[o] = 0
  BY NoWorkFits, NoLoneFits DEF ProvisionInit
<1>2. /\ provisionRequests \in 0..MaxProvisionRequests
      /\ provisionFaults \in 0..MaxProvisionFaults /\ moves \in 0..MaxMoves
  BY ProvisionAssumption DEF ProvisionInit
<1>3. /\ database \subseteq Vlan /\ allowed \in [Port -> SUBSET Vlan] /\ trunking \subseteq Port
      /\ down \subseteq Port /\ cable \in [Role -> Port] /\ stale \subseteq Port
      /\ setting \in UplinkSettings /\ hinted \in BOOLEAN
  BY ProvisionAssumption DEF ProvisionInit
<1>4. ProvisionTypeOK
  BY <1>1, <1>2, <1>3 DEF ProvisionTypeOK, LoneType
<1>5. \A o \in ProvisionRequest : RequestFits(work[o], held[o])
  BY <1>1, NoWorkFits DEF RequestFits
<1>6. LoneKept
  BY <1>1 DEF LoneKept
<1> QED
  BY <1>4, <1>5, <1>6 DEF ProvisionIInv, RequestsFit

\* The invariant holds in every state.
LEMMA ProvisionInvariant == ProvisionSpec => []ProvisionIInv
  BY ProvisionStarts, ProvisionStepKeeps, PTL DEF ProvisionSpec

\* The switch, the cabling and the requests keep their types.
THEOREM ProvisionTypes == ProvisionSpec => []ProvisionTypeOK
<1>1. ProvisionIInv => ProvisionTypeOK
  BY DEF ProvisionIInv
<1> QED
  BY <1>1, ProvisionInvariant, PTL

\* A session of the switch is open only while its request is under way, whatever fails.
THEOREM ProvisionGivesSessionsBack == ProvisionSpec => []SessionsGivenBack
<1>1. ProvisionIInv => SessionsGivenBack
  BY DEF ProvisionIInv, RequestsFit, RequestFits, SessionsGivenBack, AtStage
<1> QED
  BY <1>1, ProvisionInvariant, PTL

\* A provision without a failure leaves the segment carried on the ports of the peers.
THEOREM ProvisionTrunksReach == ProvisionSpec => []TrunksReachPeers
<1>1. ProvisionIInv => TrunksReachPeers
  <2> SUFFICES ASSUME ProvisionIInv, lone.done = "provision", lone.run.stitch, lone.still
               PROVE  /\ \A r \in lone.located : cable[r] \in Carries(lone.run.vlan)
                      /\ lone.seen => \A r \in Role : lone.run.uplinks[r] \in Carries(lone.run.vlan)
    BY DEF TrunksReachPeers
  <2>1. DoneFits(lone, database, allowed, trunking, cable)
    BY DEF ProvisionIInv, LoneKept
  <2> QED
    BY <2>1 DEF DoneFits, Carries
<1> QED
  BY <1>1, ProvisionInvariant, PTL

\* A de-provision without a failure leaves its VLAN in the allowed list of no trunk whose link
\* was up when it read the table.
THEOREM ProvisionTeardownUntrunks == ProvisionSpec => []TeardownUntrunks
<1>1. ProvisionIInv => TeardownUntrunks
  BY DEF ProvisionIInv, LoneKept, DoneFits, TeardownUntrunks
<1> QED
  BY <1>1, ProvisionInvariant, PTL

=============================================================================
