-------------------------- MODULE KillSwitchProofs --------------------------
(***************************************************************************)
(* Theorems about KillSwitch, for any threads, switches and ports.         *)
(*                                                                         *)
(* The safety properties speak of a response that is under way, and what   *)
(* makes them true was decided earlier: who was trusted when the scan      *)
(* began, and the mode when it had read every table.  The invariant says   *)
(* of every call, at every stage, that what it carries still bears that    *)
(* out, that a response holds the lock of its device while it may have a   *)
(* session, and that the registry has every MAC that was promised, unless  *)
(* something could not be read.                                            *)
(***************************************************************************)
EXTENDS KillSwitch, Sequences, TLAPS

PortStages == {"lookup", "lock", "connect", "command", "hangup", "log"}
LockStages == {"connect", "command", "hangup"}

\* What the call c of thread w carries, under the lock table lk and the mode md.
CallFits(w, c, lk, md, mr) ==
    /\ c.stage \in PortStages => c.port \in Port
    /\ (w \notin Operator /\ c.stage \in LockStages) => lk[DeviceOf[c.port]] = w
    /\ w \in Scanner =>
          /\ (c.stage = "scan" /\ md = "armed") => c.armedSince
          /\ (c.stage # "scan" /\ c.armed) => c.armedSince
          /\ c.stage \in PortStages => c.armed /\ c.port \in Infrastructure
          /\ ~mr => /\ c.stage = "scan" => c.vouched \subseteq c.trusted
                    /\ \A p \in c.found : Seen(p) \notin c.vouched
                    /\ c.stage \in PortStages => Seen(c.port) \notin c.vouched

RegistryFits ==
    ~misread => /\ registry.readable => promised \subseteq registry.macs
                /\ saving.file = "registry" =>
                      promised \subseteq saving.macs /\ saving.added \subseteq saving.macs
                /\ saving.file # "registry" => saving.added = {}

SwitchIInv ==
    /\ TypeOK
    /\ RegistryFits
    /\ \A w \in Worker : CallFits(w, call[w], lock, mode, misread)

-----------------------------------------------------------------------------

\* An idle thread carries nothing.
LEMMA NoCallFits ==
  /\ NoCall \in Call
  /\ \A w, lk, md, mr : CallFits(w, NoCall, lk, md, mr)
<1>1. NoProbe \in [Device -> {"todo", "open", "done"}]
  BY DEF NoProbe
<1>2. NoCall \in Call
  BY <1>1 DEF NoCall, Call, Stages
<1> QED
  BY <1>2 DEF NoCall, CallFits, PortStages, LockStages

\* The invariant holds at the start.
LEMMA SwitchInit == Init => SwitchIInv
<1> SUFFICES ASSUME Init
             PROVE  SwitchIInv
  OBVIOUS
<1>1. call \in [Worker -> Call] /\ \A w \in Worker : CallFits(w, call[w], lock, mode, misread)
  BY NoCallFits DEF Init
<1>2. /\ lock \in [Device -> Worker \cup {None}]
      /\ leaked \in [Device -> SUBSET {"response", "operator"}]
      /\ portUp \in [Port -> BOOLEAN]
  BY DEF Init
<1>3. registry \in [readable : BOOLEAN, macs : SUBSET Mac] /\ saving \in Save
  BY DEF Init, NoSave, Save
<1>4. calls \in 0 .. MaxCalls
  BY KillSwitchAssumption DEF Init
<1>5. mode \in {"learning", "armed", "unreadable"} /\ promised \subseteq Mac
      /\ misread \in BOOLEAN /\ isolated \subseteq LogKey
  BY DEF Init
<1>6. TypeOK
  BY <1>1, <1>2, <1>3, <1>4, <1>5 DEF TypeOK
<1>7. RegistryFits
  BY DEF Init, RegistryFits, NoSave
<1> QED
  BY <1>1, <1>6, <1>7 DEF SwitchIInv

-----------------------------------------------------------------------------

\* A step of one thread that takes no lock, reads no file and sets no history.
LEMMA CallStep ==
  ASSUME SwitchIInv, NEW w \in Worker, NEW new \in Call,
         call' = [call EXCEPT ![w] = new],
         CallFits(w, new, lock, mode, misread),
         UNCHANGED <<lock, leaked, portUp, calls, misread, isolated, adminVars>>
  PROVE  SwitchIInv'
<1>1. call' \in [Worker -> Call] /\ \A v \in Worker : call'[v] = IF v = w THEN new ELSE call[v]
  BY DEF SwitchIInv, TypeOK
<1>2. \A v \in Worker : CallFits(v, call'[v], lock, mode, misread)
  BY <1>1 DEF SwitchIInv
<1>3. TypeOK'
  BY <1>1 DEF SwitchIInv, TypeOK, adminVars
<1>4. RegistryFits'
  BY DEF SwitchIInv, RegistryFits, adminVars
<1> QED
  BY <1>2, <1>3, <1>4 DEF SwitchIInv, adminVars

\* A step of the session of one thread, which takes or leaves a lock of its own only.
LEMMA SessionChange ==
  ASSUME SwitchIInv, NEW w \in Worker, NEW new \in Call,
         call' = [call EXCEPT ![w] = new],
         CallFits(w, new, lock', mode, misread),
         lock' \in [Device -> Worker \cup {None}],
         \A v \in Worker \ {w}, d \in Device : lock[d] = v => lock'[d] = v,
         leaked' \in [Device -> SUBSET {"response", "operator"}],
         portUp' \in [Port -> BOOLEAN],
         isolated' \subseteq LogKey,
         UNCHANGED <<calls, misread, adminVars>>
  PROVE  SwitchIInv'
<1>1. call' \in [Worker -> Call] /\ \A v \in Worker : call'[v] = IF v = w THEN new ELSE call[v]
  BY DEF SwitchIInv, TypeOK
<1>2. ASSUME NEW v \in Worker
      PROVE  CallFits(v, call'[v], lock', mode, misread)
  <2>1. CASE v = w
    BY <1>1, <2>1
  <2>2. CASE v # w
    <3>1. call'[v] = call[v] /\ CallFits(v, call[v], lock, mode, misread)
      BY <1>1, <2>2 DEF SwitchIInv
    <3>2. call[v].stage \in LockStages => DeviceOf[call[v].port] \in Device
      BY <3>1, KillSwitchAssumption DEF CallFits, LockStages, PortStages
    <3> QED
      BY <2>2, <3>1, <3>2 DEF CallFits
  <2> QED
    BY <2>1, <2>2
<1>3. TypeOK'
  BY <1>1 DEF SwitchIInv, TypeOK, adminVars
<1>4. RegistryFits'
  BY DEF SwitchIInv, RegistryFits, adminVars
<1> QED
  BY <1>2, <1>3, <1>4 DEF SwitchIInv, adminVars

\* What the invariant says of one call, and where its session runs.
LEMMA CallKnown ==
  ASSUME SwitchIInv, NEW w \in Worker
  PROVE  /\ call[w] \in Call
         /\ CallFits(w, call[w], lock, mode, misread)
         /\ call[w].stage \in PortStages =>
               DeviceIn(w) \in Device /\ KeyOf(w) \in LogKey
<1>1. call[w] \in Call /\ CallFits(w, call[w], lock, mode, misread)
  BY DEF SwitchIInv, TypeOK
<1> QED
  BY <1>1, KillSwitchAssumption DEF CallFits, DeviceIn, KeyOf, LogKey

\* A thread that moves to another stage of its call.
LEMMA Staged ==
  ASSUME SwitchIInv, NEW w \in Worker, NEW stage \in Stages
  PROVE  /\ [call[w] EXCEPT !.stage = stage] \in Call
         /\ [call EXCEPT ![w].stage = stage]
               = [call EXCEPT ![w] = [call[w] EXCEPT !.stage = stage]]
<1>1. call[w] \in Call /\ call \in [Worker -> Call]
  BY DEF SwitchIInv, TypeOK
<1> QED
  BY <1>1 DEF Call

\* A call that goes back to the loop of its scan, or to its caller, carries on as it was.
LEMMA ReturnedFits ==
  ASSUME SwitchIInv, NEW w \in Worker, call[w].stage \notin {"idle", "scan"}
  PROVE  \E new \in Call : /\ Returned(w) = [call EXCEPT ![w] = new]
                           /\ CallFits(w, new, lock, mode, misread)
<1>1. CASE w \in Scanner
  <2> DEFINE new == [call[w] EXCEPT !.stage = "loop", !.port = None]
  <2>1. new \in Call
    BY ZenonT(60), CallKnown DEF Call, Stages
  <2>2. CallFits(w, new, lock, mode, misread)
    BY CallKnown DEF CallFits, Call, PortStages, LockStages
  <2>3. Returned(w) = [call EXCEPT ![w] = new]
    BY <1>1 DEF Returned, SwitchIInv, TypeOK
  <2> QED
    BY <2>1, <2>2, <2>3
<1>2. CASE w \notin Scanner
  BY <1>2, NoCallFits DEF Returned
<1> QED
  BY <1>1, <1>2

-----------------------------------------------------------------------------
(***************************************************************************)
(* The steps of a scan.                                                    *)
(***************************************************************************)

LEMMA StartScanKeeps ==
  ASSUME SwitchIInv, NEW s \in Scanner, NEW fails \in BOOLEAN, StartScan(s, fails)
  PROVE  SwitchIInv'
<1> DEFINE new == [NoCall EXCEPT !.stage = "scan",
                                 !.trusted = TrustedMacs(fails),
                                 !.probe = [d \in Device |-> "todo"],
                                 !.vouched = promised,
                                 !.armedSince = (mode = "armed")]
<1>1. s \in Worker /\ call' = [call EXCEPT ![s] = new]
  BY DEF StartScan, Worker
<1>2. Inventory \subseteq Mac
  BY KillSwitchAssumption DEF Inventory, Mac
<1>3. TrustedMacs(fails) \subseteq Mac
  BY <1>2 DEF TrustedMacs, SwitchIInv, TypeOK
<1>4. promised \subseteq Mac /\ misread \in BOOLEAN /\ registry.readable \in BOOLEAN
  BY DEF SwitchIInv, TypeOK
<1>5. misread' = (misread \/ fails \/ ~registry.readable) /\ misread' \in BOOLEAN
  BY <1>4 DEF StartScan
<1>6. ~misread' => promised \subseteq TrustedMacs(fails)
  BY <1>4, <1>5 DEF SwitchIInv, RegistryFits, TrustedMacs
<1>7. (mode = "armed") \in BOOLEAN
  OBVIOUS
<1>8. [d \in Device |-> "todo"] \in [Device -> {"todo", "open", "done"}]
  OBVIOUS
<1>9. new \in Call
  BY <1>3, <1>4, <1>7, <1>8, NoCallFits DEF NoCall, Call, Stages
<1>10. CallFits(s, new, lock, mode, misread')
  BY <1>6 DEF CallFits, NoCall, PortStages, LockStages
<1> HIDE DEF new
<1>11. call' \in [Worker -> Call]
       /\ \A v \in Worker : call'[v] = IF v = s THEN new ELSE call[v]
  BY <1>1, <1>9 DEF SwitchIInv, TypeOK
<1>12. \A v \in Worker : CallFits(v, call[v], lock, mode, misread')
  BY <1>4, <1>5 DEF SwitchIInv, CallFits
<1>13. calls' \in 0 .. MaxCalls
  BY KillSwitchAssumption DEF StartScan, Count, SwitchIInv, TypeOK
<1>14. TypeOK'
  BY <1>5, <1>11, <1>13 DEF StartScan, SwitchIInv, TypeOK, adminVars
<1>15. RegistryFits'
  BY <1>4, <1>5 DEF StartScan, SwitchIInv, RegistryFits, adminVars
<1>16. \A v \in Worker : CallFits(v, call'[v], lock, mode, misread')
  BY <1>10, <1>11, <1>12
<1> QED
  BY <1>14, <1>15, <1>16 DEF SwitchIInv, StartScan, adminVars

LEMMA ScanStepKeeps ==
  ASSUME SwitchIInv, NEW s \in Scanner, ScanStep(s)
  PROVE  SwitchIInv'
<1> s \in Worker
  BY DEF Worker
<1> USE CallKnown
<1>1. ASSUME NEW d \in Device, ProbeConnect(s, d)
      PROVE  SwitchIInv'
  <2>1. PICK result \in {"open", "done"} : call' = [call EXCEPT ![s].probe[d] = result]
    BY <1>1 DEF ProbeConnect
  <2> DEFINE new == [call[s] EXCEPT !.probe[d] = result]
  <2>2. call' = [call EXCEPT ![s] = new] /\ new \in Call
    BY ZenonT(60), <2>1 DEF SwitchIInv, TypeOK, Call
  <2>3. CallFits(s, new, lock, mode, misread)
    BY DEF CallFits, Call
  <2> QED
    BY <1>1, <2>2, <2>3, CallStep DEF ProbeConnect
<1>2. ASSUME NEW d \in Device, ProbeRead(s, d)
      PROVE  SwitchIInv'
  <2>1. PICK table \in SUBSET Port :
           call' = [call EXCEPT ![s].probe[d] = "done",
                                ![s].found = @ \cup {p \in table :
                                                        Seen(p) \notin call[s].trusted}]
    BY <1>2 DEF ProbeRead
  <2> DEFINE rogues == {p \in table : Seen(p) \notin call[s].trusted}
             new == [call[s] EXCEPT !.probe[d] = "done", !.found = @ \cup rogues]
  <2>2. call' = [call EXCEPT ![s] = new] /\ new \in Call
    BY ZenonT(60), <2>1 DEF SwitchIInv, TypeOK, Call
  <2>3. call[s].stage = "scan"
    BY <1>2 DEF ProbeRead
  <2>4. CallFits(s, new, lock, mode, misread)
    BY <2>3 DEF CallFits, Call, PortStages, LockStages
  <2> QED
    BY <1>2, <2>2, <2>4, CallStep DEF ProbeRead
<1>3. ASSUME ReadArmed(s)
      PROVE  SwitchIInv'
  <2> DEFINE new == [call[s] EXCEPT !.stage = "loop", !.armed = (mode = "armed")]
  <2>1. \A b \in BOOLEAN : [call[s] EXCEPT !.stage = "loop", !.armed = b] \in Call
    BY ZenonT(60) DEF Call, Stages
  <2>2. call' = [call EXCEPT ![s] = new] /\ new \in Call
    <3>1. (mode = "armed") \in BOOLEAN
      OBVIOUS
    <3>2. new \in Call
      BY <2>1, <3>1
    <3> QED
      BY <1>3, <3>2 DEF ReadArmed, SwitchIInv, TypeOK
  <2>3. CallFits(s, new, lock, mode, misread)
    BY <1>3 DEF ReadArmed, CallFits, Call, PortStages, LockStages
  <2> QED
    BY <1>3, <2>2, <2>3, CallStep DEF ReadArmed
<1>4. ASSUME NEW p \in Port, Enforce(s, p)
      PROVE  SwitchIInv'
  <2> DEFINE new == [call[s] EXCEPT !.stage = "lookup", !.port = p, !.found = @ \ {p}]
  <2>1. call' = [call EXCEPT ![s] = new] /\ new \in Call
    BY <1>4 DEF Enforce, SwitchIInv, TypeOK, Call, Stages
  <2>2. CallFits(s, new, lock, mode, misread)
    BY <1>4 DEF Enforce, CallFits, Call, PortStages, LockStages
  <2> QED
    BY <1>4, <2>1, <2>2, CallStep DEF Enforce
<1>5. ASSUME NEW p \in Port, Report(s, p)
      PROVE  SwitchIInv'
  <2> DEFINE new == [call[s] EXCEPT !.stage = "record", !.found = @ \ {p}]
  <2>1. call' = [call EXCEPT ![s] = new] /\ new \in Call
    BY <1>5 DEF Report, SwitchIInv, TypeOK, Call, Stages
  <2>2. CallFits(s, new, lock, mode, misread)
    BY <1>5 DEF Report, CallFits, Call, PortStages, LockStages
  <2> QED
    BY <1>5, <2>1, <2>2, CallStep DEF Report
<1>6. ASSUME EndScan(s)
      PROVE  SwitchIInv'
  BY <1>6, NoCallFits, CallStep DEF EndScan
<1> QED
  BY <1>1, <1>2, <1>3, <1>4, <1>5, <1>6 DEF ScanStep

-----------------------------------------------------------------------------
(***************************************************************************)
(* The steps of a response, an operator's call and the administrator.      *)
(***************************************************************************)

\* The end of a session: the response leaves its lock, and nothing else is disturbed.
LEMMA OverKeeps ==
  ASSUME SwitchIInv, NEW w \in Worker, NEW action,
         call[w].stage \in LockStages,
         Over(w, action),
         leaked' \in [Device -> SUBSET {"response", "operator"}],
         portUp' \in [Port -> BOOLEAN],
         isolated' \subseteq LogKey,
         UNCHANGED <<calls, misread, adminVars>>
  PROVE  SwitchIInv'
<1> USE CallKnown
<1>1. CASE w \in Operator
  <2>1. call' = [call EXCEPT ![w] = NoCall] /\ lock' = lock
    BY <1>1 DEF Over
  <2>2. lock' \in [Device -> Worker \cup {None}]
    BY <2>1 DEF SwitchIInv, TypeOK
  <2> QED
    BY <2>1, <2>2, NoCallFits, SessionChange
<1>2. CASE w \notin Operator
  <2> DEFINE new == [call[w] EXCEPT !.stage = "log"]
  <2>1. call' = [call EXCEPT ![w] = new] /\ new \in Call
    BY <1>2, Staged DEF Over, Stages
  <2>2. lock' = [lock EXCEPT ![DeviceIn(w)] = None] /\ lock[DeviceIn(w)] = w
    BY <1>2 DEF Over, CallFits, DeviceIn
  <2>3. /\ lock' \in [Device -> Worker \cup {None}]
        /\ \A v \in Worker \ {w}, d \in Device : lock[d] = v => lock'[d] = v
    BY <2>2 DEF SwitchIInv, TypeOK
  <2>4. CallFits(w, new, lock', mode, misread)
    BY DEF CallFits, Call, PortStages, LockStages
  <2> QED
    BY <2>1, <2>3, <2>4, SessionChange
<1> QED
  BY <1>1, <1>2

\* What a command does to the port, and to the history.
LEMMA ApplyTypes ==
  ASSUME SwitchIInv, NEW w \in Worker, call[w].stage = "command", Apply(w)
  PROVE  portUp' \in [Port -> BOOLEAN] /\ isolated' \subseteq LogKey
BY ZenonT(60), CallKnown DEF Apply, PortStages, Call, SwitchIInv, TypeOK

LEMMA SessionStepKeeps ==
  ASSUME SwitchIInv, NEW w \in Worker, SessionStep(w)
  PROVE  SwitchIInv'
<1> USE CallKnown
<1> lock \in [Device -> Worker \cup {None}]
    /\ leaked \in [Device -> SUBSET {"response", "operator"}]
    /\ portUp \in [Port -> BOOLEAN] /\ isolated \subseteq LogKey
  BY DEF SwitchIInv, TypeOK
<1>1. ASSUME NotInInventory(w) \/ Logged(w)
      PROVE  SwitchIInv'
  <2>1. PICK new \in Call : /\ call' = [call EXCEPT ![w] = new]
                            /\ CallFits(w, new, lock, mode, misread)
    BY <1>1, ReturnedFits DEF NotInInventory, Logged
  <2> QED
    BY <1>1, <2>1, CallStep DEF NotInInventory, Logged
<1>2. ASSUME Lookup(w)
      PROVE  SwitchIInv'
  <2> DEFINE new == [call[w] EXCEPT !.stage = "lock"]
  <2>1. call' = [call EXCEPT ![w] = new] /\ new \in Call
    BY <1>2, Staged DEF Lookup, Stages
  <2>2. CallFits(w, new, lock, mode, misread)
    BY <1>2 DEF Lookup, CallFits, Call, PortStages, LockStages
  <2> QED
    BY <1>2, <2>1, <2>2, CallStep DEF Lookup
<1>3. ASSUME Acquire(w)
      PROVE  SwitchIInv'
  <2> DEFINE new == [call[w] EXCEPT !.stage = "connect"]
  <2>1. call' = [call EXCEPT ![w] = new] /\ new \in Call
    BY <1>3, Staged DEF Acquire, Stages
  <2>2. DeviceIn(w) \in Device /\ lock' = [lock EXCEPT ![DeviceIn(w)] = w]
        /\ lock[DeviceIn(w)] = None
    BY <1>3 DEF Acquire, PortStages
  <2>3. \A v \in Worker : v # None
    BY KillSwitchAssumption DEF Worker
  <2>4. /\ lock' \in [Device -> Worker \cup {None}]
        /\ \A v \in Worker \ {w}, d \in Device : lock[d] = v => lock'[d] = v
    BY <2>2, <2>3
  <2>5. CallFits(w, new, lock', mode, misread)
    BY <1>3, <2>2 DEF Acquire, CallFits, Call, PortStages, LockStages, DeviceIn
  <2> QED
    BY <1>3, <2>1, <2>4, <2>5, SessionChange DEF Acquire
<1>4. ASSUME Connect(w)
      PROVE  SwitchIInv'
  <2> DEFINE new == [call[w] EXCEPT !.stage = "command"]
  <2>1. call' = [call EXCEPT ![w] = new] /\ new \in Call
    BY <1>4, Staged DEF Connect, Stages
  <2>2. CallFits(w, new, lock, mode, misread)
    BY <1>4 DEF Connect, CallFits, Call, PortStages, LockStages
  <2> QED
    BY <1>4, <2>1, <2>2, CallStep DEF Connect
<1>5. ASSUME ConnectFails(w)
      PROVE  SwitchIInv'
  BY <1>5, OverKeeps DEF ConnectFails, LockStages
<1>6. ASSUME Command(w)
      PROVE  SwitchIInv'
  <2> DEFINE new == [call[w] EXCEPT !.stage = "hangup"]
  <2>1. call' = [call EXCEPT ![w] = new] /\ new \in Call
    BY <1>6, Staged DEF Command, Stages
  <2>2. CallFits(w, new, lock, mode, misread)
    BY <1>6 DEF Command, CallFits, Call, PortStages, LockStages
  <2> QED
    BY <1>6, <2>1, <2>2, ApplyTypes, SessionChange DEF Command
<1>7. ASSUME CommandFails(w)
      PROVE  SwitchIInv'
  <2>1. portUp' \in [Port -> BOOLEAN] /\ isolated' \subseteq LogKey
    BY <1>7, ApplyTypes DEF CommandFails
  <2>2. leaked' \in [Device -> SUBSET {"response", "operator"}]
    BY <1>7 DEF CommandFails
  <2>3. PICK action \in {"attempted_shutdown"} : Over(w, action)
    BY <1>7 DEF CommandFails
  <2> QED
    BY <1>7, <2>1, <2>2, <2>3, OverKeeps DEF CommandFails, LockStages
<1>8. ASSUME Hangup(w)
      PROVE  SwitchIInv'
  BY <1>8, OverKeeps DEF Hangup, LockStages
<1>9. ASSUME LogSteps(w)
      PROVE  SwitchIInv'
  <2>1. isolated' \subseteq LogKey
    BY <1>9 DEF LogSteps
  <2> QED
    BY <1>9, <2>1 DEF LogSteps, SwitchIInv, TypeOK, RegistryFits, adminVars
<1> QED
  BY <1>1, <1>2, <1>3, <1>4, <1>5, <1>6, <1>7, <1>8, <1>9 DEF SessionStep

\* A call begins, within the bound.
LEMMA BeginCall ==
  ASSUME SwitchIInv, NEW w \in Worker, NEW new \in Call,
         call' = [call EXCEPT ![w] = new],
         CallFits(w, new, lock, mode, misread),
         Count,
         UNCHANGED <<lock, leaked, portUp, misread, isolated, adminVars>>
  PROVE  SwitchIInv'
<1>1. call' \in [Worker -> Call] /\ \A v \in Worker : call'[v] = IF v = w THEN new ELSE call[v]
  BY DEF SwitchIInv, TypeOK
<1>2. \A v \in Worker : CallFits(v, call'[v], lock, mode, misread)
  BY <1>1 DEF SwitchIInv
<1>3. calls' \in 0 .. MaxCalls
  BY KillSwitchAssumption DEF Count, SwitchIInv, TypeOK
<1>4. TypeOK'
  BY <1>1, <1>3 DEF SwitchIInv, TypeOK, adminVars
<1>5. RegistryFits'
  BY DEF SwitchIInv, RegistryFits, adminVars
<1> QED
  BY <1>2, <1>4, <1>5 DEF SwitchIInv, adminVars

LEMMA BeginKeeps ==
  ASSUME SwitchIInv,
         \/ \E a \in Alerter, p \in Port : Alert(a, p)
         \/ \E o \in Operator, p \in Port, up \in BOOLEAN : ControlPort(o, p, up)
         \/ \E o \in Operator : ClearThreats(o)
  PROVE  SwitchIInv'
<1>1. ASSUME NEW a \in Alerter, NEW p \in Port, Alert(a, p)
      PROVE  SwitchIInv'
  <2> DEFINE new == [NoCall EXCEPT !.stage = "lookup", !.port = p]
  <2>1. a \in Worker /\ a \notin Scanner
    BY KillSwitchAssumption DEF Worker
  <2>2. new \in Call
    BY NoCallFits DEF NoCall, Call, Stages
  <2>3. CallFits(a, new, lock, mode, misread)
    BY <2>1 DEF CallFits, NoCall, PortStages, LockStages
  <2> QED
    BY <1>1, <2>1, <2>2, <2>3, BeginCall DEF Alert
<1>2. ASSUME NEW o \in Operator, NEW p \in Port, NEW up \in BOOLEAN, ControlPort(o, p, up)
      PROVE  SwitchIInv'
  <2> DEFINE new == [NoCall EXCEPT !.stage = "connect", !.port = p, !.up = up]
  <2>1. o \in Worker /\ o \notin Scanner
    BY KillSwitchAssumption DEF Worker
  <2>2. new \in Call
    BY NoCallFits DEF NoCall, Call, Stages
  <2>3. CallFits(o, new, lock, mode, misread)
    BY <2>1 DEF CallFits, NoCall, PortStages, LockStages
  <2> QED
    BY <1>2, <2>1, <2>2, <2>3, BeginCall DEF ControlPort
<1>3. ASSUME NEW o \in Operator, ClearThreats(o)
      PROVE  SwitchIInv'
  <2> DEFINE new == [NoCall EXCEPT !.stage = "clear"]
  <2>1. o \in Worker /\ o \notin Scanner
    BY KillSwitchAssumption DEF Worker
  <2>2. new \in Call
    BY NoCallFits DEF NoCall, Call, Stages
  <2>3. CallFits(o, new, lock, mode, misread)
    BY <2>1 DEF CallFits, NoCall, PortStages, LockStages
  <2> QED
    BY <1>3, <2>1, <2>2, <2>3, BeginCall DEF ClearThreats
<1> QED
  BY <1>1, <1>2, <1>3

\* Emptying the registry, to fill it with MACs that include every promised one.
LEMMA OpenRegistryKeeps ==
  ASSUME SwitchIInv, NEW macs \in SUBSET Mac, NEW added \in SUBSET macs,
         OpenRegistry(macs, added),
         promised' \subseteq promised,
         registry.readable /\ ~misread => promised' \subseteq macs
  PROVE  SwitchIInv'
<1>1. saving' \in Save
  BY DEF OpenRegistry, NoSave, Save
<1>2. registry' \in [readable : BOOLEAN, macs : SUBSET Mac] /\ ~registry'.readable
  BY DEF OpenRegistry
<1>3. registry.readable \in BOOLEAN /\ misread \in BOOLEAN
  BY DEF SwitchIInv, TypeOK
<1>4. misread' \in BOOLEAN /\ (misread => misread') /\ (~misread' => registry.readable)
  BY <1>3 DEF OpenRegistry
<1>5. calls' \in 0 .. MaxCalls
  BY KillSwitchAssumption DEF OpenRegistry, Count, SwitchIInv, TypeOK
<1>6. TypeOK'
  BY <1>1, <1>2, <1>4, <1>5 DEF OpenRegistry, SwitchIInv, TypeOK
<1>7. saving'.file = "registry" /\ saving'.macs = macs /\ saving'.added = added
  BY DEF OpenRegistry, NoSave
<1>8. RegistryFits'
  BY <1>2, <1>3, <1>4, <1>7 DEF RegistryFits
<1>9. \A v \in Worker : CallFits(v, call[v], lock, mode, misread')
  BY <1>3, <1>4 DEF SwitchIInv, CallFits
<1> QED
  BY <1>6, <1>8, <1>9 DEF SwitchIInv, OpenRegistry

LEMMA AdminKeeps ==
  ASSUME SwitchIInv, AdminStep
  PROVE  SwitchIInv'
<1> registry \in [readable : BOOLEAN, macs : SUBSET Mac] /\ promised \subseteq Mac
    /\ saving \in Save /\ call \in [Worker -> Call]
  BY DEF SwitchIInv, TypeOK
<1>1. ASSUME NEW m \in Mac, AddAuthorized(m)
      PROVE  SwitchIInv'
  <2>1. registry.readable /\ ~misread => promised' \subseteq registry.macs \cup {m}
    BY <1>1 DEF AddAuthorized, SwitchIInv, RegistryFits
  <2> QED
    BY <1>1, <2>1, OpenRegistryKeeps DEF AddAuthorized
<1>2. ASSUME NEW m \in Mac, RemoveAuthorized(m)
      PROVE  SwitchIInv'
  <2>1. registry.readable /\ ~misread => promised' \subseteq registry.macs \ {m}
    BY <1>2 DEF RemoveAuthorized, SwitchIInv, RegistryFits
  <2> QED
    BY <1>2, <2>1, OpenRegistryKeeps DEF RemoveAuthorized
<1>3. ASSUME NEW new \in {"learning", "armed"}, SetMode(new)
      PROVE  SwitchIInv'
  <2>1. saving' \in Save /\ saving'.file = "mode" /\ saving'.added = {}
    BY <1>3 DEF SetMode, NoSave, Save
  <2>2. calls' \in 0 .. MaxCalls
    BY <1>3, KillSwitchAssumption DEF SetMode, Count, SwitchIInv, TypeOK
  <2>3. mode' = "unreadable"
    BY <1>3 DEF SetMode
  <2>4. TypeOK'
    BY <1>3, <2>1, <2>2, <2>3 DEF SetMode, SwitchIInv, TypeOK
  <2>5. RegistryFits'
    BY <1>3, <2>1 DEF SetMode, SwitchIInv, RegistryFits
  <2>6. \A v \in Worker : CallFits(v, call[v], lock, "unreadable", misread)
    BY DEF SwitchIInv, CallFits
  <2> QED
    BY <1>3, <2>3, <2>4, <2>5, <2>6 DEF SetMode, SwitchIInv
<1>4. ASSUME FinishSave, saving.file = "registry"
      PROVE  SwitchIInv'
  <2>1. /\ registry' = [readable |-> TRUE, macs |-> saving.macs]
        /\ promised' = promised \cup saving.added
        /\ saving' = NoSave
        /\ UNCHANGED <<call, lock, leaked, portUp, mode, calls, misread, isolated>>
    BY <1>4 DEF FinishSave
  <2>2. NoSave \in Save
    BY DEF NoSave, Save
  <2>3. TypeOK'
    BY <2>1, <2>2 DEF SwitchIInv, TypeOK, Save
  <2>4. RegistryFits'
    BY <1>4, <2>1 DEF SwitchIInv, RegistryFits, NoSave
  <2> QED
    BY <2>1, <2>3, <2>4 DEF SwitchIInv
<1>5. ASSUME FinishSave, saving.file # "registry"
      PROVE  SwitchIInv'
  <2> DEFINE Later(c) == [c EXCEPT !.armedSince =
                             @ \/ (c.stage = "scan" /\ saving.mode = "armed")]
  <2>1. /\ mode' = saving.mode
        /\ call' = [w \in Worker |-> Later(call[w])]
        /\ promised' = promised \cup saving.added
        /\ saving' = NoSave
        /\ UNCHANGED <<lock, leaked, portUp, registry, calls, misread, isolated>>
    BY <1>5 DEF FinishSave
  <2>2. NoSave \in Save
    BY DEF NoSave, Save
  <2>3. ASSUME NEW w \in Worker
        PROVE  /\ Later(call[w]) \in Call
               /\ CallFits(w, Later(call[w]), lock, saving.mode, misread)
    <3> DEFINE since == call[w].armedSince \/ (call[w].stage = "scan" /\ saving.mode = "armed")
    <3>1. call[w] \in Call /\ call[w].armedSince \in BOOLEAN
      BY DEF Call
    <3>2. since \in BOOLEAN
      BY <3>1
    <3>3. \A b \in BOOLEAN : [call[w] EXCEPT !.armedSince = b] \in Call
      BY <3>1 DEF Call
    <3>4. Later(call[w]) = [call[w] EXCEPT !.armedSince = since]
      OBVIOUS
    <3>5. Later(call[w]) \in Call
      BY <3>2, <3>3, <3>4
    <3>6. CallFits(w, call[w], lock, mode, misread)
      BY DEF SwitchIInv
    <3>7. CallFits(w, Later(call[w]), lock, saving.mode, misread)
      BY <3>1, <3>6 DEF CallFits, Call
    <3> QED
      BY <3>5, <3>7
  <2> HIDE DEF Later
  <2>4. call' \in [Worker -> Call]
        /\ \A w \in Worker : CallFits(w, call'[w], lock, mode', misread)
    BY <2>1, <2>3
  <2>5. mode' \in {"learning", "armed", "unreadable"}
    BY <2>1 DEF Save
  <2>6. promised' \subseteq Mac
    BY <2>1 DEF Save
  <2>7. TypeOK'
    BY <2>1, <2>2, <2>4, <2>5, <2>6 DEF SwitchIInv, TypeOK
  <2>8. RegistryFits'
    BY <1>5, <2>1 DEF SwitchIInv, RegistryFits, NoSave
  <2> QED
    BY <2>1, <2>4, <2>7, <2>8 DEF SwitchIInv
<1> QED
  BY <1>1, <1>2, <1>3, <1>4, <1>5 DEF AdminStep

LEMMA RestartKeeps ==
  ASSUME SwitchIInv, Restart
  PROVE  SwitchIInv'
<1>1. NoSave \in Save /\ NoSave.file # "registry" /\ NoSave.added = {}
  BY DEF NoSave, Save
<1>2. call' \in [Worker -> Call]
      /\ \A w \in Worker : CallFits(w, call'[w], lock', mode, misread)
  BY NoCallFits DEF Restart
<1>3. /\ lock' \in [Device -> Worker \cup {None}]
      /\ leaked' \in [Device -> SUBSET {"response", "operator"}]
      /\ isolated' \subseteq LogKey
  BY DEF Restart, SwitchIInv, TypeOK
<1>4. calls' \in 0 .. MaxCalls
  BY KillSwitchAssumption DEF Restart, Count, SwitchIInv, TypeOK
<1>5. TypeOK'
  BY <1>1, <1>2, <1>3, <1>4 DEF Restart, SwitchIInv, TypeOK
<1>6. RegistryFits'
  BY <1>1 DEF Restart, SwitchIInv, RegistryFits
<1> QED
  BY <1>2, <1>5, <1>6 DEF Restart, SwitchIInv

\* Every step preserves the invariant.
LEMMA SwitchStep == SwitchIInv /\ [Next]_vars => SwitchIInv'
<1> SUFFICES ASSUME SwitchIInv, [Next]_vars
             PROVE  SwitchIInv'
  OBVIOUS
<1>1. ASSUME NEW s \in Scanner, NEW fails \in BOOLEAN, StartScan(s, fails)
      PROVE  SwitchIInv'
  BY <1>1, StartScanKeeps
<1>2. ASSUME NEW s \in Scanner, ScanStep(s)
      PROVE  SwitchIInv'
  BY <1>2, ScanStepKeeps
<1>3. ASSUME NEW w \in Worker, SessionStep(w)
      PROVE  SwitchIInv'
  BY <1>3, SessionStepKeeps
<1>4. ASSUME NEW d \in Device, IdleTimeout(d)
      PROVE  SwitchIInv'
  <2>1. leaked' \in [Device -> SUBSET {"response", "operator"}]
    BY <1>4 DEF IdleTimeout, SwitchIInv, TypeOK
  <2> QED
    BY <1>4, <2>1 DEF IdleTimeout, SwitchIInv, TypeOK, RegistryFits, adminVars
<1>5. CASE AdminStep
  BY <1>5, AdminKeeps
<1>6. CASE Restart
  BY <1>6, RestartKeeps
<1>7. CASE UNCHANGED vars
  BY <1>7 DEF vars, SwitchIInv, TypeOK, RegistryFits, adminVars
<1> QED
  BY <1>1, <1>2, <1>3, <1>4, <1>5, <1>6, <1>7, BeginKeeps DEF Next

-----------------------------------------------------------------------------

\* The variables keep their types: in particular only known modes and spelled MACs are
\* ever saved, and every response that may have shut a port has a key for the log.
THEOREM SwitchTypes == Spec => []TypeOK
<1>1. SwitchIInv => TypeOK
  BY DEF SwitchIInv
<1> QED
  BY <1>1, SwitchInit, SwitchStep, PTL DEF Spec

\* Responses to one switch are mutually exclusive, for any number of scans, alerts,
\* switches and restarts.
THEOREM SwitchResponsesExclusive == Spec => []ResponsesExclusive
<1>1. SwitchIInv => ResponsesExclusive
  <2> SUFFICES ASSUME SwitchIInv, NEW v \in Worker \ Operator, NEW w \in Worker \ Operator,
                      Engaged(v), Engaged(w), DeviceIn(v) = DeviceIn(w)
               PROVE  v = w
    BY DEF ResponsesExclusive
  <2>1. lock[DeviceIn(v)] = v /\ lock[DeviceIn(w)] = w
    BY DEF SwitchIInv, CallFits, Engaged, DeviceIn, LockStages
  <2> QED
    BY <2>1
<1> QED
  BY <1>1, SwitchInit, SwitchStep, PTL DEF Spec

\* A scan never isolates an end-user device, and never a machine that was authorized,
\* in the spelling of the table, before the scan began, unless the trusted MACs could
\* not be read at some point.
THEOREM SwitchAuthorizedSpared == Spec => []AuthorizedSpared
<1>1. SwitchIInv => AuthorizedSpared
  BY DEF SwitchIInv, CallFits, AuthorizedSpared, Responding, Worker, PortStages
<1> QED
  BY <1>1, SwitchInit, SwitchStep, PTL DEF Spec

\* A scan never isolates unless enforcement was armed at some time since it began.
THEOREM SwitchIsolationWasArmed == Spec => []IsolationWasArmed
<1>1. SwitchIInv => IsolationWasArmed
  BY DEF SwitchIInv, CallFits, IsolationWasArmed, Responding, Worker, PortStages
<1> QED
  BY <1>1, SwitchInit, SwitchStep, PTL DEF Spec

-----------------------------------------------------------------------------

\* Every step of detection and response is an operation of the threat log, or leaves it
\* alone, so what is proved of the log on its own holds here.
LEMMA SwitchDrivesThreatLog == Spec => Log!LogSpec
<1>1. Init => Log!LogInit
  BY DEF Init
<1>2. SwitchIInv /\ [Next]_vars => [Log!LogNext]_(Log!logVars)
  <2> SUFFICES ASSUME SwitchIInv, [Next]_vars
               PROVE  [Log!LogNext]_(Log!logVars)
    OBVIOUS
  <2> USE DEF logVars, Log!logVars
  <2>1. ASSUME NEW s \in Scanner, NEW fails \in BOOLEAN, StartScan(s, fails)
        PROVE  UNCHANGED logVars
    BY <2>1 DEF StartScan
  <2>2. ASSUME NEW s \in Scanner, ScanStep(s)
        PROVE  [Log!LogNext]_(Log!logVars)
    <3>1. ASSUME NEW p \in Port, Report(s, p)
          PROVE  Log!LogNext
      BY <3>1 DEF Report, Log!LogNext, Worker, LogKey
    <3> QED
      BY <2>2, <3>1 DEF ScanStep, ProbeConnect, ProbeRead, ReadArmed, Enforce, EndScan
  <2>3. ASSUME NEW w \in Worker, SessionStep(w)
        PROVE  [Log!LogNext]_(Log!logVars)
    <3>1. ASSUME NEW action \in {"port_shutdown", "attempted_shutdown"}, Over(w, action),
                 call[w].stage \in LockStages
          PROVE  [Log!LogNext]_(Log!logVars)
      <4>1. CASE w \in Operator
        BY <3>1, <4>1 DEF Over
      <4>2. CASE w \notin Operator
        <5>1. Log!LogIncident(w, KeyOf(w), action)
          BY <3>1, <4>2 DEF Over
        <5>2. KeyOf(w) \in LogKey
          BY <3>1, CallKnown DEF LockStages, PortStages
        <5> QED
          BY <5>1, <5>2 DEF Log!LogNext, Log!Incidents
      <4> QED
        BY <4>1, <4>2
    <3>2. CASE ConnectFails(w) \/ CommandFails(w) \/ Hangup(w)
      BY <3>1, <3>2 DEF ConnectFails, CommandFails, Hangup, LockStages
    <3>3. CASE LogSteps(w)
      BY <3>3 DEF LogSteps, Log!LogNext
    <3> QED
      BY <2>3, <3>2, <3>3
         DEF SessionStep, NotInInventory, Lookup, Acquire, Connect, Command, Logged
  <2>4. ASSUME \/ \E a \in Alerter, p \in Port : Alert(a, p)
               \/ \E o \in Operator, p \in Port, up \in BOOLEAN : ControlPort(o, p, up)
        PROVE  UNCHANGED logVars
    BY <2>4 DEF Alert, ControlPort
  <2>5. ASSUME NEW o \in Operator, ClearThreats(o)
        PROVE  Log!LogNext
    BY <2>5 DEF ClearThreats, Log!LogNext, Worker
  <2>6. ASSUME NEW d \in Device, IdleTimeout(d)
        PROVE  UNCHANGED logVars
    BY <2>6 DEF IdleTimeout
  <2>7. ASSUME AdminStep
        PROVE  UNCHANGED logVars
    BY <2>7 DEF AdminStep, AddAuthorized, RemoveAuthorized, OpenRegistry, SetMode, FinishSave
  <2>8. ASSUME Restart
        PROVE  [Log!LogNext]_(Log!logVars)
    BY <2>8 DEF Restart, Log!LogNext
  <2>9. CASE UNCHANGED vars
    BY <2>9 DEF vars
  <2> QED
    BY <2>1, <2>2, <2>3, <2>4, <2>5, <2>6, <2>7, <2>8, <2>9 DEF Next
<1> QED
  BY <1>1, <1>2, SwitchInit, SwitchStep, PTL DEF Spec, Log!LogSpec

\* What is proved of the threat log on its own holds for these callers of it.
LogTheorems == INSTANCE ThreatLogProofs WITH Writer <- Worker, Key <- LogKey, NoKey <- None

\* They run it as the theorems about it suppose.
LEMMA SwitchRunsLog == Spec => LogTheorems!LogSpec
<1>1. Log!LogInit => LogTheorems!LogInit
  BY DEF Log!LogInit, LogTheorems!LogInit, Log!Whole, LogTheorems!Whole,
         Log!NoJob, LogTheorems!NoJob, Log!NoRow, LogTheorems!NoRow
<1>2. Log!LogNext => LogTheorems!LogNext
  BY Zenon DEF Log!LogNext, LogTheorems!LogNext,
         Log!Begin, LogTheorems!Begin, Log!Call, LogTheorems!Call, Log!RecordDetection,
         LogTheorems!RecordDetection, Log!LogIncident, LogTheorems!LogIncident,
         Log!ClearThreatLog, LogTheorems!ClearThreatLog, Log!DetectionKnown,
         LogTheorems!DetectionKnown, Log!AlreadyDetected, LogTheorems!AlreadyDetected,
         Log!ReadLog, LogTheorems!ReadLog, Log!Candidates, LogTheorems!Candidates,
         Log!Changed, LogTheorems!Changed, Log!FirstOf, LogTheorems!FirstOf,
         Log!KeysOf, LogTheorems!KeysOf, Log!TruncateLog, LogTheorems!TruncateLog,
         Log!Unreadable, LogTheorems!Unreadable, Log!WriteLog, LogTheorems!WriteLog,
         Log!Flushed, LogTheorems!Flushed, Log!Whole, LogTheorems!Whole, Log!LogStep,
         LogTheorems!LogStep, Log!LogRestart, LogTheorems!LogRestart, Log!Busy,
         LogTheorems!Busy, Log!NoJob, LogTheorems!NoJob, Log!NoRow, LogTheorems!NoRow,
         Log!Detected, LogTheorems!Detected, Log!Incidents, LogTheorems!Incidents
<1>3. UNCHANGED Log!logVars => UNCHANGED LogTheorems!logVars
  BY DEF Log!logVars, LogTheorems!logVars
<1> QED
  BY <1>1, <1>2, <1>3, SwitchDrivesThreatLog, PTL
     DEF Log!LogSpec, LogTheorems!LogSpec

\* Whatever scans, alerts and clearing requests overlap, the Security page lists no
\* device of a port twice as an incident or twice as a detection.
THEOREM SwitchNoDuplicateRows == Spec => []Log!NoDuplicateRows
<1>1. LogTheorems!NoDuplicateRows => Log!NoDuplicateRows
  BY DEF Log!NoDuplicateRows, LogTheorems!NoDuplicateRows,
         Log!ActiveThreats, LogTheorems!ActiveThreats,
         Log!Deduplicated, LogTheorems!Deduplicated,
         Log!Incidents, LogTheorems!Incidents, Log!Detected, LogTheorems!Detected
<1>2. LogTheorems!LogSpec => []LogTheorems!NoDuplicateRows
  BY LogTheorems!ThreatLogNoDuplicateRows
<1> QED
  BY <1>1, <1>2, SwitchRunsLog, PTL

-----------------------------------------------------------------------------
(***************************************************************************)
(* The incidents.  A response past its command owes the log an incident,   *)
(* and until its call to the log has returned it is Unlogged: what is      *)
(* isolated is either listed or still owed.  Since a call replaces the     *)
(* list by what it made of the rows it had read, the same is said of the   *)
(* rows in its hands, and of the file until the call empties it.           *)
(***************************************************************************)

\* What is proved of the threat log: the types of its calls, and that while none was
\* disturbed they come one at a time.
LogFits ==
    /\ Log!LogTypeOK
    /\ \A w \in Worker : job[w].op = "incident" => job[w].row \in [key : LogKey, action : Log!Incidents]
    /\ \A w \in Worker : job[w].stage = "read" => job[w].row \in Log!Row
    /\ ~disturbed => /\ \A v, w \in Log!Busy : v = w
                     /\ \A w \in Worker : job[w].stage = "write" => file.state = "empty"

\* A call to the log is made by a thread that waits for it, and a response writes its own.
JobFits(w) ==
    /\ job[w].stage # "idle" => call[w].stage \in {"log", "record", "clear"}
    /\ call[w].stage = "log" /\ job[w].stage # "idle" =>
          /\ job[w].op = "incident" /\ job[w].row.key = KeyOf(w)
          /\ job[w].stage # "read" => KeyOf(w) \in Log!IncidentKeys(job[w].rows)

\* What is isolated is listed, or still owed.
Pending == {KeyOf(w) : w \in Unlogged}
Covered(rows) == isolated \subseteq Log!IncidentKeys(rows) \cup Pending

LoggedIInv ==
    /\ \A w \in Worker : JobFits(w)
    /\ ~disturbed =>
          /\ (\A w \in Worker : job[w].stage # "write") => Covered(file.rows)
          /\ \A w \in Worker :
                job[w].stage \in {"truncate", "write"} /\ job[w].op # "clear" => Covered(job[w].rows)

\* A change to the log keeps every incident it finds, and an incident adds its own.
LEMMA ChangeKeepsIncidents ==
  ASSUME NEW rows \in Seq(Log!Row), NEW op, NEW row \in Log!Row, NEW new,
         op = "incident" => row.action \in Log!Incidents,
         Log!Changed(rows, op, row, new)
  PROVE  /\ Log!IncidentKeys(rows) \subseteq Log!IncidentKeys(new)
         /\ op = "incident" => row.key \in Log!IncidentKeys(new)
<1>1. rows \in Seq(LogTheorems!Row) /\ row \in LogTheorems!Row
  BY DEF Log!Row, LogTheorems!Row, Log!Incidents, LogTheorems!Incidents, Log!Detected,
         LogTheorems!Detected
<1>2. LogTheorems!Changed(rows, op, row, new)
  BY DEF Log!Changed, LogTheorems!Changed, Log!AlreadyDetected, LogTheorems!AlreadyDetected,
         Log!Detected, LogTheorems!Detected, Log!KeysOf, LogTheorems!KeysOf,
         Log!FirstOf, LogTheorems!FirstOf
<1>3. op = "incident" => row.action \in LogTheorems!Incidents
  BY DEF Log!Incidents, LogTheorems!Incidents
<1>4. \A s : Log!IncidentKeys(s) = LogTheorems!IncidentKeys(s)
  BY DEF Log!IncidentKeys, LogTheorems!IncidentKeys, Log!Incidents, LogTheorems!Incidents
<1> QED
  BY <1>1, <1>2, <1>3, <1>4, LogTheorems!ChangedKeepsIncidents

\* The threat log behaves for these callers as it does on its own.
LEMMA LogFitsAlways == Spec => []LogFits
<1>1. LogTheorems!HistoryIInv => LogFits
  <2> SUFFICES ASSUME LogTheorems!HistoryIInv PROVE LogFits
    OBVIOUS
  <2>1. Log!LogTypeOK
    BY DEF LogTheorems!HistoryIInv, LogTheorems!LogIInv, LogTheorems!LogTypeOK, Log!LogTypeOK,
           LogTheorems!File, Log!File, LogTheorems!LogCall, Log!LogCall, LogTheorems!Row, Log!Row,
           LogTheorems!Incidents, Log!Incidents, LogTheorems!Detected, Log!Detected,
           LogTheorems!NoRow, Log!NoRow
  <2>2. \A w \in Worker : /\ job[w].op = "incident"
                                => job[w].row \in [key : LogKey, action : Log!Incidents]
                          /\ job[w].stage = "read" => job[w].row \in Log!Row
    BY DEF LogTheorems!HistoryIInv, LogTheorems!LogIInv, LogTheorems!RowFits, Log!Row,
           LogTheorems!Incidents, Log!Incidents, LogTheorems!Detected, Log!Detected
  <2>3. ~disturbed => /\ \A v, w \in Log!Busy : v = w
                      /\ \A w \in Worker : job[w].stage = "write" => file.state = "empty"
    BY DEF LogTheorems!HistoryIInv, LogTheorems!HistoryFits, LogTheorems!UpdateFits,
           LogTheorems!Busy, Log!Busy
  <2> QED
    BY <2>1, <2>2, <2>3 DEF LogFits
<1>2. LogTheorems!LogSpec => []LogTheorems!HistoryIInv
  BY LogTheorems!ThreatLogHistory
<1> QED
  BY <1>1, <1>2, SwitchRunsLog, PTL

-----------------------------------------------------------------------------

\* A thread that has no call to the log under way, and takes no part in it.
LEMMA QuietStepCovers ==
  ASSUME SwitchIInv, LoggedIInv, NEW w \in Worker, NEW new,
         call' = [call EXCEPT ![w] = new],
         job[w].stage = "idle",
         w \notin Unlogged,
         isolated' \subseteq isolated \cup Pending',
         UNCHANGED <<file, job, disturbed>>
  PROVE  LoggedIInv'
<1>1. \A v \in Worker : call'[v] = IF v = w THEN new ELSE call[v]
  BY DEF SwitchIInv, TypeOK
<1>2. \A v \in Worker : JobFits(v)'
  BY <1>1 DEF LoggedIInv, JobFits, KeyOf
<1>3. Pending \subseteq Pending'
  <2>1. \A v \in Unlogged : v \in Unlogged' /\ KeyOf(v)' = KeyOf(v)
    BY <1>1 DEF Unlogged, KeyOf
  <2> QED
    BY <2>1 DEF Pending
<1>4. \A rows : Covered(rows) => Covered(rows)'
  BY <1>3 DEF Covered, Log!IncidentKeys
<1> QED
  BY <1>2, <1>4 DEF LoggedIInv

\* The same, for what the invariant says of the stages without a call to the log.
LEMMA StageStepCovers ==
  ASSUME SwitchIInv, LoggedIInv, NEW w \in Worker, NEW new,
         call' = [call EXCEPT ![w] = new],
         call[w].stage \notin {"hangup", "log", "record", "clear"},
         isolated' \subseteq isolated \cup Pending',
         UNCHANGED <<file, job, disturbed>>
  PROVE  LoggedIInv'
<1>1. job[w].stage = "idle" /\ w \notin Unlogged
  BY DEF LoggedIInv, JobFits, Unlogged
<1> QED
  BY <1>1, QuietStepCovers

\* A thread that begins a call to the log: a response still owes it the incident.
LEMMA BeginCovers ==
  ASSUME SwitchIInv, LoggedIInv, LogFits, NEW w \in Worker, NEW new, NEW j,
         call' = [call EXCEPT ![w] = new],
         Log!Begin(w, j),
         j.stage = "read" \/ j.op = "clear",
         j.stage # "write",
         new.stage \in {"log", "record", "clear"},
         new.stage = "log" => j.stage = "read" /\ j.op = "incident" /\ j.row.key = KeyOf(w)',
         w \in Unlogged => new.stage = "log" /\ new.port = call[w].port,
         isolated' \subseteq isolated \cup Pending',
         UNCHANGED file
  PROVE  LoggedIInv'
<1>1. \A v \in Worker : /\ call'[v] = IF v = w THEN new ELSE call[v]
                        /\ job'[v] = IF v = w THEN j ELSE job[v]
  BY DEF SwitchIInv, TypeOK, LogFits, Log!LogTypeOK, Log!Begin
<1>2. \A v \in Worker : JobFits(v)'
  BY <1>1 DEF LoggedIInv, JobFits, KeyOf
<1>3. Pending \subseteq Pending'
  <2>1. \A v \in Unlogged : v \in Unlogged' /\ KeyOf(v)' = KeyOf(v)
    BY <1>1 DEF Unlogged, KeyOf
  <2> QED
    BY <2>1 DEF Pending
<1>4. \A rows : Covered(rows) => Covered(rows)'
  BY <1>3 DEF Covered, Log!IncidentKeys
<1>5. job[w].stage = "idle" /\ (~disturbed' => ~disturbed)
  BY DEF Log!Begin
<1> QED
  BY <1>1, <1>2, <1>4, <1>5 DEF LoggedIInv

-----------------------------------------------------------------------------

\* A scan's steps, of which only a report makes a call to the log.
LEMMA ScanCovers ==
  ASSUME SwitchIInv, LoggedIInv, LogFits, NEW s \in Scanner,
         (\E fails \in BOOLEAN : StartScan(s, fails)) \/ ScanStep(s)
  PROVE  LoggedIInv'
<1>1. s \in Worker
  BY DEF Worker
<1>2. call \in [Worker -> Call]
  BY DEF SwitchIInv, TypeOK
<1>3. ASSUME NEW p \in Port, Report(s, p)
      PROVE  LoggedIInv'
  <2> DEFINE new == [call[s] EXCEPT !.stage = "record", !.found = @ \ {p}]
             j == Log!Call("detect", "read", [key |-> [port |-> p, mac |-> "seen"],
                                              action |-> Log!Detected])
  <2>1. call' = [call EXCEPT ![s] = new] /\ new.stage = "record"
    BY <1>1, <1>2, <1>3 DEF Report, Call
  <2>2. Log!Begin(s, j) /\ j.stage = "read"
    BY <1>3 DEF Report, Log!RecordDetection, Log!Call
  <2>3. UNCHANGED <<file, isolated>>
    BY <1>3 DEF Report, Log!RecordDetection
  <2>4. s \notin Unlogged
    BY <1>3 DEF Report, Unlogged
  <2> HIDE DEF new, j
  <2> QED
    BY <1>1, <2>1, <2>2, <2>3, <2>4, BeginCovers
<1>4. ASSUME call[s].stage \in {"idle", "scan", "loop"},
             \E new : call' = [call EXCEPT ![s] = new],
             UNCHANGED <<isolated, logVars>>
      PROVE  LoggedIInv'
  BY <1>1, <1>4, StageStepCovers DEF logVars
<1>5. ASSUME NEW fails \in BOOLEAN, StartScan(s, fails)
      PROVE  LoggedIInv'
  BY <1>4, <1>5 DEF StartScan
<1>6. ASSUME NEW d \in Device, ProbeConnect(s, d) \/ ProbeRead(s, d)
      PROVE  LoggedIInv'
  <2>1. \A result : [call EXCEPT ![s].probe[d] = result]
                       = [call EXCEPT ![s] = [call[s] EXCEPT !.probe[d] = result]]
    BY <1>1, <1>2
  <2>2. \E new : call' = [call EXCEPT ![s] = new]
    BY <1>6, <2>1 DEF ProbeConnect, ProbeRead
  <2> QED
    BY <1>4, <1>6, <2>2 DEF ProbeConnect, ProbeRead
<1>7. ASSUME ReadArmed(s)
      PROVE  LoggedIInv'
  BY <1>4, <1>7 DEF ReadArmed
<1>8. ASSUME NEW p \in Port, Enforce(s, p)
      PROVE  LoggedIInv'
  BY <1>4, <1>8 DEF Enforce
<1>9. ASSUME EndScan(s)
      PROVE  LoggedIInv'
  BY <1>4, <1>9 DEF EndScan
<1> QED
  BY <1>3, <1>5, <1>6, <1>7, <1>8, <1>9 DEF ScanStep

\* The end of a session, from which a response goes on to log its incident.
LEMMA OverCovers ==
  ASSUME SwitchIInv, LoggedIInv, LogFits, NEW w \in Worker, NEW action,
         call[w].stage \in LockStages,
         Over(w, action),
         isolated' \subseteq isolated \cup (IF w \in Operator THEN {} ELSE {KeyOf(w)})
  PROVE  LoggedIInv'
<1>1. call \in [Worker -> Call] /\ job \in [Worker -> Log!LogCall]
  BY DEF SwitchIInv, TypeOK, LogFits, Log!LogTypeOK
<1>2. job[w].stage = "idle"
  BY DEF LoggedIInv, JobFits, LockStages
<1>3. CASE w \in Operator
  BY <1>2, <1>3, QuietStepCovers DEF Over, Unlogged, logVars
<1>4. CASE w \notin Operator
  <2> DEFINE new == [call[w] EXCEPT !.stage = "log"]
             j == Log!Call("incident", "read", [key |-> KeyOf(w), action |-> action])
  <2>1. call' = [call EXCEPT ![w] = new] /\ new.stage = "log" /\ new.port = call[w].port
    BY <1>1, <1>4 DEF Over, Call
  <2>2. Log!Begin(w, j) /\ file' = file
    BY <1>4 DEF Over, Log!LogIncident
  <2>3. j.stage = "read" /\ j.op = "incident" /\ j.row.key = KeyOf(w)
    BY DEF Log!Call
  <2> HIDE DEF new, j
  <2>4. call'[w] = new /\ job'[w] = j
    BY <1>1, <2>1, <2>2 DEF Log!Begin
  <2>5. KeyOf(w)' = KeyOf(w) /\ w \in Unlogged'
    BY <1>4, <2>1, <2>3, <2>4 DEF KeyOf, Unlogged
  <2>6. isolated' \subseteq isolated \cup Pending'
    BY <1>4, <2>5 DEF Pending
  <2> QED
    BY <2>1, <2>2, <2>3, <2>5, <2>6, BeginCovers
<1> QED
  BY <1>3, <1>4

\* The other steps of a session: a command makes the response owe what it isolates.
LEMMA SessionCovers ==
  ASSUME SwitchIInv, LoggedIInv, LogFits, NEW w \in Worker, SessionStep(w), ~LogSteps(w)
  PROVE  LoggedIInv'
<1>1. call \in [Worker -> Call]
  BY DEF SwitchIInv, TypeOK
<1>2. ASSUME NotInInventory(w)
      PROVE  LoggedIInv'
  <2>1. \E new : call' = [call EXCEPT ![w] = new]
    BY <1>1, <1>2 DEF NotInInventory, Returned
  <2> QED
    BY <1>2, <2>1, StageStepCovers DEF NotInInventory, logVars
<1>3. ASSUME Lookup(w) \/ Acquire(w) \/ Connect(w)
      PROVE  LoggedIInv'
  <2>1. \E new : call' = [call EXCEPT ![w] = new]
    BY <1>1, <1>3 DEF Lookup, Acquire, Connect
  <2> QED
    BY <1>3, <2>1, StageStepCovers DEF Lookup, Acquire, Connect, logVars
<1>4. ASSUME ConnectFails(w)
      PROVE  LoggedIInv'
  BY <1>4, OverCovers DEF ConnectFails, LockStages
<1>5. ASSUME Hangup(w)
      PROVE  LoggedIInv'
  BY <1>5, OverCovers DEF Hangup, LockStages
<1>6. ASSUME CommandFails(w)
      PROVE  LoggedIInv'
  <2>1. isolated' \subseteq isolated \cup (IF w \in Operator THEN {} ELSE {KeyOf(w)})
    BY <1>6 DEF CommandFails, Apply
  <2> QED
    BY <1>6, <2>1, OverCovers DEF CommandFails, LockStages
<1>7. ASSUME Command(w)
      PROVE  LoggedIInv'
  <2> DEFINE new == [call[w] EXCEPT !.stage = "hangup"]
  <2>1. call' = [call EXCEPT ![w] = new] /\ new.stage = "hangup" /\ new.port = call[w].port
    BY <1>1, <1>7 DEF Command, Call
  <2> HIDE DEF new
  <2>2. call'[w] = new
    BY <1>1, <2>1
  <2>3. KeyOf(w)' = KeyOf(w) /\ (w \notin Operator => w \in Unlogged')
    BY <2>1, <2>2 DEF KeyOf, Unlogged
  <2>4. isolated' \subseteq isolated \cup Pending'
    BY <1>7, <2>3 DEF Command, Apply, Pending
  <2> QED
    BY <1>7, <2>1, <2>4, StageStepCovers DEF Command, logVars
<1>8. ASSUME Logged(w)
      PROVE  LoggedIInv'
  <2>1. \E new : call' = [call EXCEPT ![w] = new]
    BY <1>1, <1>8 DEF Logged, Returned
  <2>2. job[w].stage = "idle" /\ w \notin Unlogged
    BY <1>8 DEF Logged, Unlogged
  <2> QED
    BY <1>8, <2>1, <2>2, QuietStepCovers DEF Logged, logVars
<1> QED
  BY <1>2, <1>3, <1>4, <1>5, <1>6, <1>7, <1>8 DEF SessionStep

\* A call to the log: the rows it reads are covered, so are the rows it makes of them,
\* and so is the file it writes.
LEMMA LogStepsCover ==
  ASSUME SwitchIInv, LoggedIInv, LogFits, NEW w \in Worker, LogSteps(w)
  PROVE  LoggedIInv'
<1>1. /\ call' = call
      /\ job \in [Worker -> Log!LogCall]
      /\ \A v \in Worker : KeyOf(v)' = KeyOf(v)
  BY DEF LogSteps, LogFits, Log!LogTypeOK, KeyOf
<1>2. job[w].stage # "idle" /\ disturbed' = disturbed
  BY DEF LogSteps, Log!LogStep, Log!DetectionKnown, Log!ReadLog, Log!TruncateLog, Log!WriteLog
<1>3. \A v \in Worker : v # w => job'[v] = job[v]
  BY <1>1 DEF LogSteps, Log!LogStep, Log!DetectionKnown, Log!ReadLog, Log!TruncateLog,
              Log!WriteLog
<1>4. ~disturbed => \A v \in Worker : v # w => job[v].stage = "idle"
  BY <1>2 DEF LogFits, Log!Busy
<1>5. ASSUME JobFits(w)'
      PROVE  \A v \in Worker : JobFits(v)'
  BY <1>1, <1>3, <1>5 DEF LoggedIInv, JobFits
<1>6. \A v \in Unlogged : v # w => v \in Unlogged'
  BY <1>1, <1>3 DEF Unlogged
<1>7. \A v \in Unlogged : v # w => KeyOf(v) \in Pending'
  <2> SUFFICES ASSUME NEW v \in Unlogged, v # w
               PROVE  KeyOf(v) \in Pending'
    OBVIOUS
  <2>1. KeyOf(v)' \in Pending'
    BY <1>6 DEF Pending
  <2>2. v \in Worker
    BY DEF Unlogged
  <2> QED
    BY <1>1, <2>1, <2>2
<1>8. JobFits(w)
  BY DEF LoggedIInv
<1>9. ASSUME Log!DetectionKnown(w)
      PROVE  LoggedIInv'
  <2>1. job'[w] = Log!NoJob /\ file' = file /\ isolated' = isolated
    BY <1>1, <1>9 DEF Log!DetectionKnown, LogSteps
  <2>2. w \notin Unlogged
    BY <1>8, <1>9 DEF Log!DetectionKnown, JobFits, Unlogged
  <2>3. Pending \subseteq Pending'
    BY <1>7, <2>2 DEF Pending
  <2>4. \A rows : Covered(rows) => Covered(rows)'
    BY <2>1, <2>3 DEF Covered, Log!IncidentKeys
  <2>5. JobFits(w)'
    BY <2>1 DEF JobFits, Log!NoJob
  <2>6. job[w].stage = "read" /\ job'[w].stage = "idle"
    BY <1>9, <2>1 DEF Log!DetectionKnown, Log!NoJob
  <2> QED
    BY <1>2, <1>3, <1>5, <2>1, <2>4, <2>5, <2>6 DEF LoggedIInv
<1>10. ASSUME Log!ReadLog(w)
       PROVE  LoggedIInv'
  <2>1. PICK new \in Log!Candidates(file.rows, job[w].row) :
           /\ Log!Changed(file.rows, job[w].op, job[w].row, new)
           /\ job' = [job EXCEPT ![w].stage = "truncate", ![w].rows = new]
    BY <1>10 DEF Log!ReadLog
  <2>2. /\ job[w].stage = "read" /\ job'[w].stage = "truncate"
        /\ job'[w].op = job[w].op /\ job'[w].row = job[w].row /\ job'[w].rows = new
    BY <1>1, <1>10, <2>1 DEF Log!ReadLog, Log!LogCall
  <2>3. file' = file /\ isolated' = isolated /\ job[w].op # "clear"
    BY <1>10, <2>1, <2>2 DEF Log!ReadLog, LogSteps, Log!Changed
  <2>4. /\ Log!IncidentKeys(file.rows) \subseteq Log!IncidentKeys(new)
        /\ job[w].op = "incident" => job[w].row.key \in Log!IncidentKeys(new)
    <3>1. file.rows \in Seq(Log!Row) /\ job[w].row \in Log!Row
          /\ (job[w].op = "incident" => job[w].row.action \in Log!Incidents)
      BY <2>2 DEF LogFits, Log!LogTypeOK, Log!File
    <3> QED
      BY <2>1, <3>1, ChangeKeepsIncidents
  <2>5. Pending' = Pending
    BY <1>1, <1>3, <2>2 DEF Pending, Unlogged
  <2>6. \A rows : Covered(rows) => Covered(rows)'
    BY <2>3, <2>5 DEF Covered, Log!IncidentKeys
  <2>7. JobFits(w)'
    BY <1>1, <1>8, <2>2, <2>4 DEF JobFits, Log!IncidentKeys
  <2>8. ~disturbed => Covered(file.rows) /\ Covered(new)
    BY <1>4, <2>2, <2>4 DEF LoggedIInv, Covered
  <2> QED
    BY <1>2, <1>4, <1>3, <1>5, <2>2, <2>3, <2>6, <2>7, <2>8 DEF LoggedIInv
<1>11. ASSUME Log!TruncateLog(w)
       PROVE  LoggedIInv'
  <2>1. /\ job[w].stage = "truncate" /\ job'[w].stage = "write"
        /\ job'[w].op = job[w].op /\ job'[w].row = job[w].row /\ job'[w].rows = job[w].rows
    BY <1>1, <1>11 DEF Log!TruncateLog, Log!LogCall
  <2>2. isolated' = isolated
    BY <2>1 DEF LogSteps
  <2>3. Pending' = Pending
    BY <1>1, <1>3, <2>1 DEF Pending, Unlogged
  <2>4. \A rows : Covered(rows) => Covered(rows)'
    BY <2>2, <2>3 DEF Covered, Log!IncidentKeys
  <2>5. JobFits(w)'
    BY <1>1, <1>8, <2>1 DEF JobFits, Log!IncidentKeys
  <2> QED
    BY <1>2, <1>3, <1>5, <2>1, <2>4, <2>5 DEF LoggedIInv
<1>12. ASSUME Log!WriteLog(w)
       PROVE  LoggedIInv'
  <2>1. job[w].stage = "write" /\ job'[w] = Log!NoJob
    BY <1>1, <1>12 DEF Log!WriteLog
  <2>2. JobFits(w)'
    BY <2>1 DEF JobFits, Log!NoJob
  <2>3. \A v \in Worker : JobFits(v)'
    BY <1>5, <2>2
  <2>4. ASSUME ~disturbed
        PROVE  Covered(file.rows)'
    <3>1. file' = Log!Whole(job[w].rows)
      BY <1>12, <2>1, <2>4 DEF LogFits, Log!WriteLog, Log!Flushed
    <3>2. CASE job[w].op = "clear"
      <4>1. w \notin Unlogged
        BY <1>8, <2>1, <3>2 DEF JobFits, Unlogged
      <4>2. isolated' \subseteq Pending
        BY <2>1, <3>2 DEF LogSteps, Log!NoJob, Pending
      <4>3. Pending \subseteq Pending'
        BY <1>7, <4>1 DEF Pending
      <4> QED
        BY <4>2, <4>3 DEF Covered
    <3>3. CASE job[w].op # "clear"
      <4>1. isolated' = isolated /\ Covered(job[w].rows)
        BY <2>1, <2>4, <3>3 DEF LogSteps, LoggedIInv
      <4>2. w \in Unlogged => KeyOf(w) \in Log!IncidentKeys(job[w].rows)
        BY <1>8, <2>1 DEF JobFits, Unlogged
      <4>3. Pending \subseteq Pending' \cup Log!IncidentKeys(job[w].rows)
        BY <1>7, <4>2 DEF Pending
      <4>4. Log!IncidentKeys(file.rows)' = Log!IncidentKeys(job[w].rows)
        BY <3>1 DEF Log!Whole, Log!IncidentKeys
      <4> QED
        BY <4>1, <4>3, <4>4 DEF Covered
    <3> QED
      BY <3>2, <3>3
  <2>5. ~disturbed => \A v \in Worker : job'[v].stage = "idle"
    BY <1>3, <1>4, <2>1 DEF Log!NoJob
  <2> QED
    BY <1>2, <2>3, <2>4, <2>5 DEF LoggedIInv
<1> QED
  BY <1>9, <1>10, <1>11, <1>12 DEF LogSteps, Log!LogStep

-----------------------------------------------------------------------------

\* A save of the mode notes in every scan that enforcement was armed, and nothing else.
LEMMA AdminCovers ==
  ASSUME SwitchIInv, LoggedIInv, AdminStep
  PROVE  LoggedIInv'
<1>1. /\ UNCHANGED <<file, job, disturbed, isolated>>
      /\ \A w \in Worker : /\ call'[w].stage = call[w].stage
                           /\ call'[w].port = call[w].port
  <2>1. CASE FinishSave
    <3>1. UNCHANGED <<file, job, disturbed, isolated>>
      BY <2>1 DEF FinishSave, logVars
    <3>2. ASSUME NEW w \in Worker
          PROVE  call'[w].stage = call[w].stage /\ call'[w].port = call[w].port
      <4>1. call[w] \in Call
        BY DEF SwitchIInv, TypeOK
      <4>2. \A since : /\ [call[w] EXCEPT !.armedSince = since].stage = call[w].stage
                       /\ [call[w] EXCEPT !.armedSince = since].port = call[w].port
        BY <4>1 DEF Call
      <4>3. call' = call \/ \E since : call'[w] = [call[w] EXCEPT !.armedSince = since]
        BY <2>1 DEF FinishSave
      <4> QED
        BY <4>2, <4>3
    <3> QED
      BY <3>1, <3>2
  <2>2. CASE ~FinishSave
    BY <2>2 DEF AdminStep, AddAuthorized, RemoveAuthorized, OpenRegistry, SetMode, logVars
  <2> QED
    BY <2>1, <2>2
<1>2. \A w \in Worker : KeyOf(w)' = KeyOf(w)
  BY <1>1 DEF KeyOf
<1>3. \A w \in Worker : JobFits(w)'
  BY <1>1, <1>2 DEF LoggedIInv, JobFits, Log!IncidentKeys
<1>4. Unlogged' = Unlogged
  BY <1>1 DEF Unlogged
<1>5. Unlogged \subseteq Worker
  BY DEF Unlogged
<1>6. Pending \subseteq Pending'
  BY <1>2, <1>4, <1>5 DEF Pending
<1>7. \A rows : Covered(rows) => Covered(rows)'
  BY <1>1, <1>6 DEF Covered, Log!IncidentKeys
<1> QED
  BY <1>1, <1>3, <1>7 DEF LoggedIInv

\* A restart forgets the calls under way, and what they owed; a file that one of them had
\* emptied is a disturbance.
LEMMA RestartCovers ==
  ASSUME LoggedIInv, LogFits, Restart
  PROVE  LoggedIInv'
<1>1. /\ isolated' = isolated \ Pending
      /\ file' = file
      /\ \A w \in Worker : job'[w].stage = "idle"
      /\ ~disturbed' => ~disturbed /\ \A w \in Worker : job[w].stage # "write"
  <2>1. isolated' = isolated \ Pending
    BY DEF Restart, Pending
  <2>2. CASE Log!Busy = {}
    BY <2>1, <2>2 DEF Restart, logVars, Log!Busy
  <2>3. CASE Log!Busy # {}
    <3>1. /\ file' = file
          /\ \A w \in Worker : job'[w].stage = "idle"
      BY <2>3 DEF Restart, Log!LogRestart, Log!NoJob
    <3>2. disturbed' = (disturbed \/ \E w \in Worker : job[w].stage = "write")
      BY <2>3 DEF Restart, Log!LogRestart
    <3> QED
      BY <2>1, <3>1, <3>2
  <2> QED
    BY <2>2, <2>3
<1>2. \A w \in Worker : JobFits(w)'
  BY <1>1 DEF JobFits
<1>3. Covered(file.rows) => Covered(file.rows)'
  BY <1>1 DEF Covered, Log!IncidentKeys
<1> QED
  BY <1>1, <1>2, <1>3 DEF LoggedIInv

LEMMA LoggedInit == Init => LoggedIInv
<1> SUFFICES ASSUME Init PROVE LoggedIInv
  OBVIOUS
<1>1. \A w \in Worker : job[w].stage = "idle"
  BY DEF Init, Log!LogInit, Log!NoJob
<1>2. isolated = {}
  BY DEF Init
<1> QED
  BY <1>1, <1>2 DEF LoggedIInv, JobFits, Covered

\* Every step keeps what is isolated listed, or owed.
LEMMA LoggedStep == SwitchIInv /\ LogFits /\ LoggedIInv /\ [Next]_vars => LoggedIInv'
<1> SUFFICES ASSUME SwitchIInv, LogFits, LoggedIInv, [Next]_vars
             PROVE  LoggedIInv'
  OBVIOUS
<1>1. ASSUME NEW s \in Scanner, (\E fails \in BOOLEAN : StartScan(s, fails)) \/ ScanStep(s)
      PROVE  LoggedIInv'
  BY <1>1, ScanCovers
<1>2. ASSUME NEW a \in Alerter, NEW p \in Port, Alert(a, p)
      PROVE  LoggedIInv'
  BY <1>2, StageStepCovers DEF Alert, Worker, logVars
<1>3. ASSUME NEW o \in Operator, NEW p \in Port, NEW up \in BOOLEAN, ControlPort(o, p, up)
      PROVE  LoggedIInv'
  BY <1>3, StageStepCovers DEF ControlPort, Worker, logVars
<1>4. ASSUME NEW o \in Operator, ClearThreats(o)
      PROVE  LoggedIInv'
  <2> DEFINE new == [NoCall EXCEPT !.stage = "clear"]
             j == Log!Call("clear", "truncate", Log!NoRow)
  <2>1. o \in Worker /\ o \notin Unlogged
    BY DEF Worker, Unlogged
  <2>2. call' = [call EXCEPT ![o] = new] /\ new.stage = "clear"
    BY <1>4 DEF ClearThreats, NoCall
  <2>3. Log!Begin(o, j) /\ j.op = "clear" /\ j.stage # "write"
    BY <1>4 DEF ClearThreats, Log!ClearThreatLog, Log!Call
  <2>4. UNCHANGED <<file, isolated>>
    BY <1>4 DEF ClearThreats, Log!ClearThreatLog
  <2> HIDE DEF new, j
  <2> QED
    BY <2>1, <2>2, <2>3, <2>4, BeginCovers
<1>5. ASSUME NEW w \in Worker, SessionStep(w)
      PROVE  LoggedIInv'
  BY <1>5, SessionCovers, LogStepsCover
<1>6. ASSUME UNCHANGED <<call, isolated, logVars>>
      PROVE  LoggedIInv'
  BY <1>6 DEF logVars, LoggedIInv, JobFits, Covered, Pending, Unlogged, KeyOf, Log!IncidentKeys
<1>7. CASE (\E d \in Device : IdleTimeout(d)) \/ UNCHANGED vars
  BY <1>6, <1>7 DEF IdleTimeout, vars
<1> QED
  BY <1>1, <1>2, <1>3, <1>4, <1>5, <1>7, AdminCovers, RestartCovers DEF Next

\* A port that a response shut, or may have shut before its command raised, is in the log
\* as an incident once the response has returned, unless calls to the log overlapped or
\* the process stopped in the middle of a write: for any number of scans, alerts, clearing
\* requests and restarts.
THEOREM SwitchIsolationsLogged == Spec => []IsolationsLogged
<1>1. LogFits /\ LoggedIInv => IsolationsLogged
  <2> SUFFICES ASSUME LoggedIInv, ~disturbed, Log!Busy = {}, NEW k \in isolated,
                      k \notin Log!IncidentKeys(file.rows)
               PROVE  \E w \in Unlogged : KeyOf(w) = k
    BY DEF IsolationsLogged
  <2>1. Covered(file.rows)
    BY DEF LoggedIInv, Log!Busy
  <2> QED
    BY <2>1 DEF Covered, Pending
<1> QED
  BY <1>1, SwitchInit, SwitchStep, LoggedInit, LoggedStep, LogFitsAlways, PTL DEF Spec

=============================================================================
