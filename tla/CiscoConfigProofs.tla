------------------------- MODULE CiscoConfigProofs -------------------------
(***************************************************************************)
(* Theorems about CiscoConfig, for every set of ports and VLANs, every     *)
(* bound and every size of batch.                                          *)
(*                                                                         *)
(* The batches are cut with Max and Min over sets of line numbers: the     *)
(* first lemmas show that these exist, the next what the batches and the   *)
(* configurations they lead to are made of, and that sending the batches   *)
(* in turn does what the lines do as a whole.  From that, in the second    *)
(* half, what a call that reports success has done to the device.          *)
(***************************************************************************)
EXTENDS CiscoConfig, WellFoundedInduction, TLAPS

-----------------------------------------------------------------------------
(***************************************************************************)
(* Line numbers.                                                           *)
(***************************************************************************)

LEMMA LeastExists ==
  ASSUME NEW S, S \subseteq Nat, S # {}
  PROVE  \E x \in S : \A y \in S : x <= y
<1> DEFINE R == {p \in Nat \X Nat : p[1] < p[2]}
<1>1. IsWellFoundedOn(R, Nat)
  BY NatLessThanWellFounded DEF OpToRel
<1>2. PICK x \in S : \A y \in S : ~(<<y, x>> \in R)
  BY <1>1, WFMin
<1>3. \A y \in S : ~(y < x)
  BY <1>2
<1> QED
  BY <1>3

LEMMA MinIsLeast ==
  ASSUME NEW S, S \subseteq Nat, S # {}
  PROVE  Min(S) \in S /\ \A y \in S : Min(S) <= y
BY LeastExists DEF Min

LEMMA MaxIsGreatest ==
  ASSUME NEW n \in Nat, NEW S, S \subseteq 0 .. n, S # {}
  PROVE  Max(S) \in S /\ \A y \in S : y <= Max(S)
<1> DEFINE T == {n - x : x \in S}
<1>1. T \subseteq Nat /\ T # {}
  <2>1. \A x \in S : n - x \in Nat
    OBVIOUS
  <2> QED
    BY <2>1
<1>2. PICK t \in T : \A y \in T : t <= y
  BY <1>1, LeastExists
<1>3. PICK x \in S : t = n - x
  BY <1>2
<1>4. \A y \in S : x >= y
  <2> TAKE y \in S
  <2>1. n - x <= n - y
    BY <1>2, <1>3
  <2>2. x \in Nat /\ y \in Nat
    OBVIOUS
  <2> QED
    BY <2>1, <2>2
<1>5. \E z \in S : \A y \in S : z >= y
  BY <1>3, <1>4
<1>6. Max(S) \in S /\ \A y \in S : Max(S) >= y
  BY <1>5 DEF Max
<1> QED
  BY <1>6

-----------------------------------------------------------------------------
(***************************************************************************)
(* Command lines, batches and configurations.                              *)
(***************************************************************************)

LEMMA LinesKnown ==
  /\ \A p \in Port : Interface(p) \in Line
  /\ \A what \in PortWhat \cup Vlan \cup {"none"}, to \in Value : Sub(what, to) \in Line
  /\ Exit \in Line
  /\ \A v \in Vlan : MakeVlan(v) \in Line /\ NoVlan(v) \in Line
  /\ NoOpLine \in Line
BY DEF Interface, Sub, Exit, MakeVlan, NoVlan, NoOpLine, Line, Value, Default

LEMMA ClearPortsKnown ==
  ASSUME NEW ports \in PortList
  PROVE  ClearPorts(ports) \in Seq(Line)
<1>1. PICK n \in 0 .. MaxPorts : ports \in [1 .. n -> Port]
  BY DEF PortList
<1>2. n \in Nat /\ Len(ports) = n
  BY <1>1, CiscoAssumption
<1> DEFINE line(i) == CASE i % 3 = 1 -> Interface(ports[(i + 2) \div 3])
                        [] i % 3 = 2 -> Sub("access", Default)
                        [] i % 3 = 0 -> Exit
<1>3. ASSUME NEW i \in 1 .. 3 * n PROVE line(i) \in Line
  <2>1. CASE i % 3 = 1
    <3>1. (i + 2) \div 3 \in 1 .. n
      BY <1>2, <2>1
    <3>2. ports[(i + 2) \div 3] \in Port
      BY <3>1, <1>1
    <3> QED
      BY <2>1, <3>2, LinesKnown
  <2>2. CASE i % 3 = 2
    <3>1. Sub("access", Default) \in Line
      BY LinesKnown DEF PortWhat, Value, Default
    <3>2. line(i) = Sub("access", Default)
      BY <2>2
    <3> QED
      BY <3>1, <3>2
  <2>3. CASE i % 3 = 0
    <3>1. line(i) = Exit
      BY <2>3
    <3> QED
      BY <3>1, LinesKnown
  <2>4. i % 3 \in 0 .. 2
    BY <1>2
  <2> QED
    BY <2>1, <2>2, <2>3, <2>4
<1>4. ClearPorts(ports) = [i \in 1 .. 3 * n |-> line(i)]
  BY <1>2 DEF ClearPorts
<1> HIDE DEF line
<1>5. ClearPorts(ports) \in [1 .. 3 * n -> Line]
  BY <1>3, <1>4
<1>6. 3 * n \in Nat
  BY <1>2
<1> QED
  BY <1>5, <1>6

\* What every call sends is a sequence of command lines, and not an empty one.
LEMMA CommandsKnown ==
  ASSUME NEW r \in Request
  PROVE  Commands(r) \in Seq(Line) /\ Commands(r) # << >>
<1> USE DEF PortWhat, Value, Default
<1>1. CASE r.op = "delete_vlan"
  <2>1. r.ports \in PortList /\ r.vlan \in Vlan
    BY <1>1 DEF Request
  <2>2. ClearPorts(r.ports) \in Seq(Line) /\ NoVlan(r.vlan) \in Line
    BY <2>1, ClearPortsKnown, LinesKnown
  <2>3. Commands(r) = Append(ClearPorts(r.ports), NoVlan(r.vlan))
    BY <1>1 DEF Commands, DeleteVlan
  <2> QED
    BY <2>2, <2>3
<1>2. CASE r.op = "create_vlan"
  <2>1. r.vlan \in Vlan
    BY <1>2 DEF Request
  <2>2. Commands(r) = <<MakeVlan(r.vlan), NoOpLine, Exit>>
    BY <1>2 DEF Commands, CreateVlan
  <2> QED
    BY <2>1, <2>2, LinesKnown
<1>3. CASE r.op \in {"enable_port", "disable_port", "configure_port_security"}
  <2>1. Interface(r.ports[1]) \in Line
    BY <1>3, LinesKnown DEF Request
  <2>2. /\ Sub("state", Default) \in Line /\ Sub("state", "down") \in Line
        /\ Sub("description", "enabled") \in Line /\ Sub("description", "disabled") \in Line
        /\ Sub("mode", "access") \in Line /\ Sub("port-security", "on") \in Line
        /\ Sub("sticky", "on") \in Line /\ NoOpLine \in Line
    BY LinesKnown
  <2>3. CASE r.op = "enable_port"
    BY <2>1, <2>2, <2>3 DEF Commands, EnablePort
  <2>4. CASE r.op = "disable_port"
    BY <2>1, <2>2, <2>4 DEF Commands, DisablePort
  <2>5. CASE r.op = "configure_port_security"
    BY <2>1, <2>2, <2>5 DEF Commands, ConfigurePortSecurity
  <2> QED
    BY <1>3, <2>3, <2>4, <2>5
<1>4. CASE r.op \in {"assign_vlan_to_port", "configure_uplink_trunk",
                     "remove_vlan_from_trunk"}
  <2>1. Interface(r.ports[1]) \in Line /\ r.vlan \in Vlan
    BY <1>4, LinesKnown DEF Request
  <2>2. /\ Sub("state", Default) \in Line /\ Sub("mode", "access") \in Line
        /\ Sub("mode", "trunk") \in Line /\ NoOpLine \in Line
        /\ Sub("access", r.vlan) \in Line /\ Sub(r.vlan, Default) \in Line
        /\ Sub(r.vlan, "removed") \in Line
    BY <2>1, LinesKnown
  <2>3. CASE r.op = "assign_vlan_to_port"
    BY <2>1, <2>2, <2>3 DEF Commands, AssignVlan
  <2>4. CASE r.op = "configure_uplink_trunk"
    BY <2>1, <2>2, <2>4 DEF Commands, ConfigureUplinkTrunk
  <2>5. CASE r.op = "remove_vlan_from_trunk"
    BY <2>1, <2>2, <2>5 DEF Commands, RemoveVlanFromTrunk
  <2> QED
    BY <1>4, <2>3, <2>4, <2>5
<1> QED
  BY <1>1, <1>2, <1>3, <1>4 DEF Request

\* Cutting a call into batches moves on, never past its end, and makes up no line.
LEMMA BatchKnown ==
  ASSUME NEW lines \in Seq(Line), NEW i \in DOMAIN lines
  PROVE  /\ Batch(lines, i) \in Seq(Line)
         /\ Following(lines, i) \in (i + 1) .. (Len(lines) + 1)
<1> DEFINE f == Following(lines, i)
           b == BlockOf(lines, i)
           K == {1} \cup {k \in 1 .. i : lines[k].line = "interface"}
<1>1. DOMAIN lines = 1 .. Len(lines) /\ Len(lines) \in Nat /\ i \in 1 .. Len(lines)
  OBVIOUS
<1>2. f \in (i + 1) .. (Len(lines) + 1)
  <2> DEFINE S == {Len(lines) + 1} \cup {k \in Starts(lines) : k > i}
  <2>1. S \subseteq (i + 1) .. (Len(lines) + 1) /\ S # {}
    BY <1>1 DEF Starts
  <2>2. S \subseteq Nat
    BY <2>1, <1>1
  <2>3. Min(S) \in S
    BY <2>1, <2>2, MinIsLeast
  <2> QED
    BY <2>1, <2>3 DEF Following
<1>3. b \in DOMAIN lines
  <2>1. K \subseteq 0 .. i /\ K # {} /\ i \in Nat
    BY <1>1
  <2>2. Max(K) \in K
    BY <2>1, MaxIsGreatest
  <2>3. K \subseteq DOMAIN lines
    BY <1>1
  <2> QED
    BY <2>2, <2>3 DEF BlockOf
<1> HIDE DEF f, b
<1>4. SubSeq(lines, i, f - 1) \in Seq(Line)
  BY <1>1, <1>2
<1>5. <<lines[b]>> \in Seq(Line)
  BY <1>3
<1>6. <<lines[b]>> \o SubSeq(lines, i, f - 1) \in Seq(Line)
  BY <1>4, <1>5
<1>7. Batch(lines, i) = IF i = b THEN SubSeq(lines, i, f - 1)
                        ELSE <<lines[b]>> \o SubSeq(lines, i, f - 1)
  BY DEF Batch, f, b
<1> QED
  BY <1>2, <1>4, <1>6, <1>7 DEF f

LEMMA LastWrittenKnown ==
  ASSUME NEW lines \in Seq(Line), NEW x \in Touched(lines)
  PROVE  LastWritten(lines, x) \in Value
<1>1. Writers(lines, x) \subseteq DOMAIN lines /\ Writers(lines, x) # {}
  BY DEF Touched, Writers
<1>2. Writers(lines, x) \subseteq 0 .. Len(lines) /\ Len(lines) \in Nat
  BY <1>1
<1>3. Max(Writers(lines, x)) \in Writers(lines, x)
  BY <1>1, <1>2, MaxIsGreatest
<1>4. lines[Max(Writers(lines, x))] \in Line
  BY <1>1, <1>3
<1> QED
  BY <1>4 DEF LastWritten, Line

LEMMA AppliedKnown ==
  ASSUME NEW config \in [Setting -> Value], NEW lines \in Seq(Line)
  PROVE  Applied(config, lines) \in [Setting -> Value]
BY LastWrittenKnown DEF Applied

-----------------------------------------------------------------------------
(***************************************************************************)
(* The types, and the mark of the enable check.  Neither fact needs        *)
(* strengthening: their conjunction is inductive.                          *)
(***************************************************************************)

ConfigIInv == TypeOK /\ ConfirmedIsPrivileged

\* What a call may become, and who may hold the driver then.
CallTyped(c) == /\ c \in Call
                /\ c.stage # "idle" => c.request \in Request /\ driver.held

LEMMA NoCallTyped == CallTyped(NoCall)
BY DEF CallTyped, NoCall, Call, NoRequest, Stages

LEMMA LinesTyped ==
  ASSUME ConfigIInv, call.stage # "idle"
  PROVE  call.request \in Request /\ Lines \in Seq(Line) /\ Lines # << >>
BY CommandsKnown DEF ConfigIInv, TypeOK, Lines

LEMMA FaultTyped ==
  ASSUME ConfigIInv, Fault
  PROVE  count' \in [runs : 0 .. MaxRuns, calls : 0 .. MaxCalls, faults : 0 .. MaxFaults]
<1>1. count \in [runs : 0 .. MaxRuns, calls : 0 .. MaxCalls, faults : 0 .. MaxFaults]
  BY DEF ConfigIInv, TypeOK
<1>2. CASE Answers
  <2>1. count.faults + 1 \in 0 .. MaxFaults
    BY <1>1, <1>2, CiscoAssumption DEF Fault
  <2> QED
    BY <1>1, <1>2, <2>1 DEF Fault
<1> QED
  BY <1>1, <1>2 DEF Fault

LEMMA SucceedTyped ==
  ASSUME ConfigIInv, call.stage # "idle", NEW settings, settings \subseteq Setting,
         NEW saved \in {"live", "due", "saved"}, NEW seen \in BOOLEAN,
         Succeed(settings, saved, seen)
  PROVE  call' = NoCall /\ promised' \subseteq Promise
<1>1. Lines \in Seq(Line)
  BY LinesTyped
<1>2. ASSUME NEW x \in settings \cap Touched(Lines)
      PROVE  [setting |-> x, to |-> LastWritten(Lines, x), saved |-> saved,
              seen |-> seen] \in Promise
  BY <1>1, LastWrittenKnown DEF Promise
<1> QED
  BY <1>2 DEF Succeed, ConfigIInv, TypeOK

LEMMA StagedTyped ==
  ASSUME ConfigIInv, call.stage # "idle", NEW stage \in Stages
  PROVE  /\ CallTyped([call EXCEPT !.stage = stage])
         /\ CallTyped([call EXCEPT !.stage = stage, !.raised = TRUE])
         /\ CallTyped([call EXCEPT !.stage = stage, !.next = 1, !.resent = TRUE])
<1>1. call \in Call /\ call.request \in Request /\ driver.held
  BY DEF ConfigIInv, TypeOK
<1>2. [call EXCEPT !.stage = stage] \in Call
  BY <1>1 DEF Call
<1>3. [call EXCEPT !.stage = stage, !.raised = TRUE] \in Call
  BY <1>1 DEF Call
<1>4. [call EXCEPT !.stage = stage, !.next = 1, !.resent = TRUE] \in Call
  <2>1. \A c \in Call : [c EXCEPT !.next = 1] \in Call
    BY DEF Call
  <2>2. \A c \in Call : [c EXCEPT !.resent = TRUE] \in Call
    BY DEF Call
  <2> QED
    BY <1>2, <2>1, <2>2
<1>5. [call EXCEPT !.stage = stage].request = call.request
  BY <1>1 DEF Call
<1>6. [call EXCEPT !.stage = stage, !.raised = TRUE].request = call.request
  BY <1>1 DEF Call
<1>7. [call EXCEPT !.stage = stage, !.next = 1, !.resent = TRUE].request = call.request
  BY <1>1 DEF Call
<1> QED
  BY <1>1, <1>2, <1>3, <1>4, <1>5, <1>6, <1>7 DEF CallTyped

LEMMA RaiseTyped ==
  ASSUME ConfigIInv, call.stage # "idle", Raise
  PROVE  CallTyped(call') /\ promised' \subseteq Promise
<1>1. "verify" \in Stages
  BY DEF Stages
<1>2. CallTyped([call EXCEPT !.stage = "verify", !.raised = TRUE])
  BY <1>1, StagedTyped
<1> QED
  BY <1>2, NoCallTyped DEF Raise, ConfigIInv, TypeOK

LEMMA CompleteTyped ==
  ASSUME ConfigIInv, call.stage # "idle", Complete
  PROVE  CallTyped(call') /\ promised' \subseteq Promise
<1>1. CASE env.verify /\ CheckedBy(call.request) # {}
  <2>1. "verify" \in Stages
    BY DEF Stages
  <2>2. CallTyped([call EXCEPT !.stage = "verify"])
    BY <2>1, StagedTyped
  <2> QED
    BY <1>1, <2>2 DEF Complete, ConfigIInv, TypeOK
<1>2. CASE ~(env.verify /\ CheckedBy(call.request) # {})
  BY <1>2, SucceedTyped, NoCallTyped DEF Complete
<1> QED
  BY <1>1, <1>2

LEMMA RunsTyped ==
  ASSUME ConfigIInv, NEW lines \in Seq(Line), Runs(lines)
  PROVE  running' \in [Setting -> Value] /\ changed' \in BOOLEAN
BY AppliedKnown DEF Runs, ConfigIInv, TypeOK

\* What a step that leaves the driver and the session alone still has to show.
LEMMA QuietStep ==
  ASSUME ConfigIInv, UNCHANGED <<session, driver, env>>,
         running' \in [Setting -> Value], startup' \in [Setting -> Value],
         CallTyped(call'), promised' \subseteq Promise, changed' \in BOOLEAN,
         count' \in [runs : 0 .. MaxRuns, calls : 0 .. MaxCalls, faults : 0 .. MaxFaults]
  PROVE  ConfigIInv'
BY DEF ConfigIInv, TypeOK, ConfirmedIsPrivileged, CallTyped, Answers

-----------------------------------------------------------------------------

LEMMA HoldingKeeps ==
  ASSUME ConfigIInv, Holding
  PROVE  ConfigIInv'
<1> USE DEF ConfigIInv, TypeOK
<1>1. ASSUME NEW deferred \in BOOLEAN, Open(deferred)
      PROVE  ConfigIInv'
  <2>1. count.runs + 1 \in 0 .. MaxRuns
    BY <1>1, CiscoAssumption DEF Open
  <2>2. count' \in [runs : 0 .. MaxRuns, calls : 0 .. MaxCalls, faults : 0 .. MaxFaults]
    BY <1>1, <2>1 DEF Open
  <2>3. driver' = [held |-> TRUE, confirmed |-> FALSE, unsaved |-> FALSE, deferred |-> deferred]
    BY <1>1 DEF Open, NoDriver
  <2>4. session' \in [link : {"none", "up", "dead"}, privileged : BOOLEAN]
    BY <1>1 DEF Open, Connected
  <2>5. driver' \in [held : BOOLEAN, confirmed : BOOLEAN, unsaved : BOOLEAN,
                     deferred : BOOLEAN]
        /\ driver'.held /\ ~driver'.confirmed
    BY <2>3
  <2>6. UNCHANGED <<running, startup, env, call, promised>> /\ changed' = FALSE
    BY <1>1 DEF Open
  <2>7. TypeOK'
    BY <2>2, <2>4, <2>5, <2>6
  <2> QED
    BY <2>5, <2>7 DEF ConfirmedIsPrivileged
<1>2. CASE EnsureConnected
  <2>1. session' \in [link : {"none", "up", "dead"}, privileged : BOOLEAN]
    <3>1. Connected \in [link : {"none", "up", "dead"}, privileged : BOOLEAN]
      BY DEF Connected
    <3>2. [link |-> "none", privileged |-> FALSE]
             \in [link : {"none", "up", "dead"}, privileged : BOOLEAN]
      OBVIOUS
    <3> QED
      BY <1>2, <3>1, <3>2 DEF EnsureConnected
  <2>2. /\ driver' \in [held : BOOLEAN, confirmed : BOOLEAN, unsaved : BOOLEAN,
                        deferred : BOOLEAN]
        /\ driver'.held = driver.held /\ ~driver'.confirmed
    BY <1>2 DEF EnsureConnected, Reconnected
  <2> QED
    BY <1>2, <2>1, <2>2 DEF EnsureConnected, ConfirmedIsPrivileged
<1>3. ASSUME NEW saved \in {"live", "saved"}, Closed(saved), call.stage = "idle",
             startup' \in [Setting -> Value], changed' \in BOOLEAN,
             count' \in [runs : 0 .. MaxRuns, calls : 0 .. MaxCalls, faults : 0 .. MaxFaults]
      PROVE  ConfigIInv'
  <2>1. ASSUME NEW e \in promised
        PROVE  (IF e.saved = "due" THEN [e EXCEPT !.saved = saved] ELSE e) \in Promise
    <3>1. e \in Promise
      OBVIOUS
    <3> QED
      BY <3>1 DEF Promise
  <2>2. promised' \subseteq Promise
    BY <1>3, <2>1 DEF Closed
  <2>3. /\ driver' \in [held : BOOLEAN, confirmed : BOOLEAN, unsaved : BOOLEAN,
                        deferred : BOOLEAN]
        /\ ~driver'.confirmed
    BY <1>3 DEF Closed, NoDriver
  <2> QED
    BY <1>3, <2>2, <2>3 DEF Closed, ConfirmedIsPrivileged
<1>4. CASE CloseNothingUnsaved
  BY <1>3, <1>4 DEF CloseNothingUnsaved
<1>5. CASE CloseSaved
  BY <1>3, <1>5 DEF CloseSaved
<1>6. CASE CloseUnsaved
  <2>1. startup' \in [Setting -> Value]
    BY <1>6 DEF CloseUnsaved
  <2>2. count' \in [runs : 0 .. MaxRuns, calls : 0 .. MaxCalls, faults : 0 .. MaxFaults]
    BY <1>6, FaultTyped DEF CloseUnsaved
  <2> QED
    BY <1>3, <1>6, <2>1, <2>2 DEF CloseUnsaved
<1> QED
  BY <1>1, <1>2, <1>4, <1>5, <1>6 DEF Holding

LEMMA BeginKeeps ==
  ASSUME ConfigIInv, NEW r \in Request, Begin(r)
  PROVE  ConfigIInv'
<1>1. count.calls + 1 \in 0 .. MaxCalls
  BY CiscoAssumption DEF Begin, ConfigIInv, TypeOK
<1>2. count' \in [runs : 0 .. MaxRuns, calls : 0 .. MaxCalls, faults : 0 .. MaxFaults]
  BY <1>1 DEF Begin, ConfigIInv, TypeOK
<1>3. CallTyped(call')
  <2>1. \A stage \in {"send", "enable"} :
           [NoCall EXCEPT !.stage = stage, !.request = r] \in Call
    <3>1. NoCall \in Call
      BY NoCallTyped DEF CallTyped
    <3>2. {"send", "enable"} \subseteq Stages
      BY DEF Stages
    <3> QED
      BY <3>1, <3>2 DEF Call
  <2>2. PICK stage \in {"send", "enable"} :
           call' = [NoCall EXCEPT !.stage = stage, !.request = r]
    BY DEF Begin
  <2>3. call'.request = r /\ driver.held
    BY <2>2 DEF Begin, NoCall
  <2> QED
    BY <2>1, <2>2, <2>3 DEF CallTyped
<1>4. promised' \subseteq Promise /\ running' \in [Setting -> Value]
      /\ startup' \in [Setting -> Value] /\ changed' \in BOOLEAN
      /\ UNCHANGED <<session, driver, env>>
  BY DEF Begin, ConfigIInv, TypeOK
<1> QED
  BY <1>2, <1>3, <1>4, QuietStep

LEMMA SendingKeeps ==
  ASSUME ConfigIInv, SendBatch \/ SendFails
  PROVE  ConfigIInv'
<1>1. /\ call.stage = "send" /\ call.next <= Len(Lines)
      /\ UNCHANGED <<startup, session, driver, env>>
  BY DEF SendBatch, SendFails
<1>2. Lines \in Seq(Line)
  BY <1>1, LinesTyped
<1>3. call.next \in DOMAIN Lines
  <2>1. call.next \in Nat \ {0}
    BY DEF ConfigIInv, TypeOK, Call
  <2> QED
    BY <1>1, <1>2, <2>1
<1>4. /\ Batch(Lines, call.next) \in Seq(Line)
      /\ Following(Lines, call.next) \in Nat \ {0}
  <2>1. /\ Batch(Lines, call.next) \in Seq(Line)
        /\ Following(Lines, call.next) \in (call.next + 1) .. (Len(Lines) + 1)
    BY <1>2, <1>3, BatchKnown
  <2>2. call.next \in Nat \ {0} /\ Len(Lines) \in Nat
    BY <1>2, <1>3
  <2> QED
    BY <2>1, <2>2
<1>5. startup' \in [Setting -> Value]
  BY <1>1 DEF ConfigIInv, TypeOK
<1>6. CASE SendBatch
  <2>1. running' \in [Setting -> Value] /\ changed' \in BOOLEAN
    BY <1>4, <1>6, RunsTyped DEF SendBatch
  <2>2. call' = [call EXCEPT !.next = Following(Lines, call.next)]
    BY <1>6 DEF SendBatch
  <2>3. CallTyped(call')
    BY <1>4, <2>2 DEF CallTyped, ConfigIInv, TypeOK, Call
  <2> QED
    BY <1>1, <1>5, <1>6, <2>1, <2>3, QuietStep DEF SendBatch, ConfigIInv, TypeOK
<1>7. CASE SendFails
  <2>1. PICK n \in 0 .. Len(Batch(Lines, call.next)) :
           Runs(SubSeq(Batch(Lines, call.next), 1, n))
    <3>1. Len(Batch(Lines, call.next)) \in Nat
      BY <1>4
    <3> QED
      BY <1>7, <3>1 DEF SendFails
  <2>2. SubSeq(Batch(Lines, call.next), 1, n) \in Seq(Line)
    BY <1>4
  <2>3. running' \in [Setting -> Value] /\ changed' \in BOOLEAN
    BY <2>1, <2>2, RunsTyped
  <2>4. CallTyped(call') /\ promised' \subseteq Promise
    <3>1. CASE call.resent
      BY <1>1, <1>7, <3>1, RaiseTyped DEF SendFails
    <3>2. CASE ~call.resent
      <4>1. "check" \in Stages
        BY DEF Stages
      <4>2. CallTyped([call EXCEPT !.stage = "check"])
        BY <1>1, <4>1, StagedTyped
      <4> QED
        BY <1>7, <3>2, <4>2 DEF SendFails, ConfigIInv, TypeOK
    <3> QED
      BY <3>1, <3>2
  <2>5. count' \in [runs : 0 .. MaxRuns, calls : 0 .. MaxCalls, faults : 0 .. MaxFaults]
    BY <1>7, FaultTyped DEF SendFails
  <2> QED
    BY <1>1, <1>5, <2>3, <2>4, <2>5, QuietStep
<1> QED
  BY <1>6, <1>7

\* The steps of a call between its batches, which the switch's configuration only changes in
\* by being saved.
LEMMA SettlingKeeps ==
  ASSUME ConfigIInv,
         \/ EnableFails \/ CheckFails \/ Sent \/ Defer \/ Save \/ SaveFails \/ VerifyFails
  PROVE  ConfigIInv'
<1>1. running' \in [Setting -> Value] /\ startup' \in [Setting -> Value]
      /\ changed' \in BOOLEAN /\ UNCHANGED <<session, env>>
  BY DEF EnableFails, CheckFails, Sent, Defer, Save, SaveFails, VerifyFails, ConfigIInv, TypeOK
<1>2. count' \in [runs : 0 .. MaxRuns, calls : 0 .. MaxCalls, faults : 0 .. MaxFaults]
  <2>1. UNCHANGED count \/ Fault
    BY DEF EnableFails, CheckFails, Sent, Defer, Save, SaveFails, VerifyFails
  <2>2. CASE UNCHANGED count
    BY <2>2 DEF ConfigIInv, TypeOK
  <2> QED
    BY <2>1, <2>2, FaultTyped
<1>3. call.stage # "idle"
  BY DEF EnableFails, CheckFails, Sent, Defer, Save, SaveFails, VerifyFails
<1>4. CallTyped(call') /\ promised' \subseteq Promise
  <2>1. CASE EnableFails \/ SaveFails
    BY <1>3, <2>1, RaiseTyped DEF EnableFails, SaveFails
  <2>2. CASE Defer \/ Save
    BY <1>3, <2>2, CompleteTyped DEF Defer, Save
  <2>3. CASE CheckFails
    <3>1. "send" \in Stages
      BY DEF Stages
    <3> QED
      BY <1>3, <2>3, <3>1, StagedTyped DEF CheckFails, Resend, ConfigIInv, TypeOK
  <2>4. CASE Sent
    <3>1. "save" \in Stages
      BY DEF Stages
    <3> QED
      BY <1>3, <2>4, <3>1, StagedTyped DEF Sent, ToSave, ConfigIInv, TypeOK
  <2>5. CASE VerifyFails
    <3>1. CASE call.raised
      BY <2>5, <3>1, NoCallTyped DEF VerifyFails, ConfigIInv, TypeOK
    <3>2. CASE ~call.raised
      <4>1. \E saved \in {"due", "saved"} : Succeed(Setting, saved, TRUE)
        BY <2>5, <3>2 DEF VerifyFails
      <4> QED
        BY <1>3, <4>1, SucceedTyped, NoCallTyped
    <3> QED
      BY <3>1, <3>2
  <2> QED
    BY <2>1, <2>2, <2>3, <2>4, <2>5
<1>5. CASE ~Defer
  <2>1. UNCHANGED driver
    BY <1>5 DEF EnableFails, CheckFails, Sent, Save, SaveFails, VerifyFails
  <2> QED
    BY <1>1, <1>2, <1>4, <2>1, QuietStep
<1>6. CASE Defer
  <2>1. /\ driver' \in [held : BOOLEAN, confirmed : BOOLEAN, unsaved : BOOLEAN,
                        deferred : BOOLEAN]
        /\ driver'.held = driver.held /\ driver'.confirmed = driver.confirmed
    BY <1>6 DEF Defer, ConfigIInv, TypeOK
  <2> QED
    BY <1>1, <1>2, <1>4, <2>1 DEF ConfigIInv, TypeOK, ConfirmedIsPrivileged, CallTyped, Answers
<1> QED
  BY <1>5, <1>6

\* The steps that prove enable mode to the driver.
LEMMA ReadingKeeps ==
  ASSUME ConfigIInv, Enable \/ Check \/ Verify
  PROVE  ConfigIInv'
<1>1. /\ call.stage # "idle"
      /\ session' \in [link : {"none", "up", "dead"}, privileged : BOOLEAN]
      /\ session'.privileged
      /\ UNCHANGED <<running, startup, env, changed, count>>
  BY DEF Enable, Check, Verify, ConfigIInv, TypeOK
<1>2. /\ driver' \in [held : BOOLEAN, confirmed : BOOLEAN, unsaved : BOOLEAN,
                      deferred : BOOLEAN]
      /\ driver'.held = driver.held
  BY DEF Enable, Check, Verify, ConfigIInv, TypeOK
<1>3. CallTyped(call') /\ promised' \subseteq Promise
  <2>1. CASE Enable
    <3>1. "send" \in Stages
      BY DEF Stages
    <3> QED
      BY <1>1, <2>1, <3>1, StagedTyped DEF Enable, ConfigIInv, TypeOK
  <2>2. CASE Check
    <3>1. "send" \in Stages /\ "save" \in Stages
      BY DEF Stages
    <3>2. CallTyped(ToSave) /\ CallTyped(Resend)
      BY <1>1, <3>1, StagedTyped DEF ToSave, Resend
    <3> QED
      BY <2>2, <3>2 DEF Check, ConfigIInv, TypeOK
  <2>3. CASE Verify
    <3>1. \/ call' = NoCall /\ UNCHANGED promised
          \/ \E seen \in BOOLEAN : Succeed(CheckedBy(call.request), "live", seen)
          \/ \E saved \in {"due", "saved"} : Succeed(Setting, saved, TRUE)
      <4>1. Confirms(running, call.request) \in BOOLEAN
        BY DEF Confirms
      <4> QED
        BY <2>3, <4>1 DEF Verify
    <3>2. CheckedBy(call.request) \subseteq Setting
      <4>1. call.request \in Request
        BY <1>1 DEF ConfigIInv, TypeOK
      <4> QED
        BY <4>1 DEF CheckedBy, Request, Setting, PortWhat
    <3>3. CASE call' = NoCall /\ UNCHANGED promised
      BY <3>3, NoCallTyped DEF ConfigIInv, TypeOK
    <3>4. CASE \E seen \in BOOLEAN : Succeed(CheckedBy(call.request), "live", seen)
      BY <1>1, <3>2, <3>4, SucceedTyped, NoCallTyped
    <3>5. CASE \E saved \in {"due", "saved"} : Succeed(Setting, saved, TRUE)
      BY <1>1, <3>5, SucceedTyped, NoCallTyped
    <3> QED
      BY <3>1, <3>3, <3>4, <3>5
  <2> QED
    BY <2>1, <2>2, <2>3
<1> QED
  BY <1>1, <1>2, <1>3 DEF ConfigIInv, TypeOK, ConfirmedIsPrivileged, CallTyped

LEMMA SwitchKeeps ==
  ASSUME ConfigIInv, Drop \/ Reload
  PROVE  ConfigIInv'
<1>1. CASE Drop
  <2>1. count' \in [runs : 0 .. MaxRuns, calls : 0 .. MaxCalls, faults : 0 .. MaxFaults]
    BY <1>1, FaultTyped DEF Drop
  <2>2. /\ session' \in [link : {"none", "up", "dead"}, privileged : BOOLEAN]
        /\ session'.link = "dead"
    BY <1>1 DEF Drop, ConfigIInv, TypeOK
  <2> QED
    BY <1>1, <2>1, <2>2 DEF Drop, ConfigIInv, TypeOK, ConfirmedIsPrivileged, Answers
<1>2. CASE Reload
  <2>1. count.faults + 1 \in 0 .. MaxFaults
    BY <1>2, CiscoAssumption DEF Reload, ConfigIInv, TypeOK
  <2>2. count' \in [runs : 0 .. MaxRuns, calls : 0 .. MaxCalls, faults : 0 .. MaxFaults]
    BY <1>2, <2>1 DEF Reload, ConfigIInv, TypeOK
  <2>3. /\ session' \in [link : {"none", "up", "dead"}, privileged : BOOLEAN]
        /\ session'.link # "up"
    BY <1>2 DEF Reload, ConfigIInv, TypeOK, Answers
  <2>4. CallTyped(call')
    BY <1>2 DEF Reload, CallTyped, ConfigIInv, TypeOK, Call
  <2>5. UNCHANGED <<startup, driver, env>> /\ running' = startup /\ changed' = FALSE
        /\ promised' \subseteq promised
    BY <1>2 DEF Reload
  <2> QED
    BY <2>2, <2>3, <2>4, <2>5
       DEF ConfigIInv, TypeOK, ConfirmedIsPrivileged, CallTyped, Answers
<1> QED
  BY <1>1, <1>2

LEMMA ConfigInit == Init => ConfigIInv
<1> SUFFICES ASSUME Init PROVE ConfigIInv
  OBVIOUS
<1>1. Factory \in [Setting -> Value]
  BY DEF Factory, Value, Default
<1>2. CallTyped(NoCall)
  BY NoCallTyped
<1>3. count \in [runs : 0 .. MaxRuns, calls : 0 .. MaxCalls, faults : 0 .. MaxFaults]
  BY CiscoAssumption DEF Init
<1>4. /\ driver \in [held : BOOLEAN, confirmed : BOOLEAN, unsaved : BOOLEAN, deferred : BOOLEAN]
      /\ session \in [link : {"none", "up", "dead"}, privileged : BOOLEAN]
      /\ session.link = "none"
  BY DEF Init, NoDriver
<1> QED
  BY <1>1, <1>2, <1>3, <1>4
     DEF Init, ConfigIInv, TypeOK, ConfirmedIsPrivileged, CallTyped, Answers

LEMMA ConfigStep == ConfigIInv /\ [Next]_vars => ConfigIInv'
<1> SUFFICES ASSUME ConfigIInv, [Next]_vars PROVE ConfigIInv'
  OBVIOUS
<1>1. CASE Holding
  BY <1>1, HoldingKeeps
<1>2. CASE Writing
  <2>1. CASE SendBatch \/ SendFails
    BY <2>1, SendingKeeps
  <2>2. CASE Enable \/ Check \/ Verify
    BY <2>2, ReadingKeeps
  <2>3. CASE EnableFails \/ CheckFails \/ Sent \/ Defer \/ Save \/ SaveFails \/ VerifyFails
    BY <2>3, SettlingKeeps
  <2> QED
    BY <1>2, <2>1, <2>2, <2>3 DEF Writing
<1>3. ASSUME NEW r \in Request, Begin(r) PROVE ConfigIInv'
  BY <1>3, BeginKeeps
<1>4. CASE Drop \/ Reload
  BY <1>4, SwitchKeeps
<1>5. CASE UNCHANGED vars
  BY <1>5 DEF vars, ConfigIInv, TypeOK, ConfirmedIsPrivileged, Answers
<1> QED
  BY <1>1, <1>2, <1>3, <1>4, <1>5 DEF Next

\* The settings, the session, the driver object and the call under way stay what they are
\* declared to be, and no call is under way on a driver that nobody holds.
THEOREM ConfigTypes == Spec => []TypeOK
<1>1. ConfigIInv => TypeOK
  BY DEF ConfigIInv
<1> QED
  BY <1>1, ConfigInit, ConfigStep, PTL DEF Spec

\* A session that skips the check of enable mode is in enable mode, whatever sessions were
\* lost and reopened under the driver object that remembers the check.
THEOREM EnableMarkSound == Spec => []ConfirmedIsPrivileged
<1>1. ConfigIInv => ConfirmedIsPrivileged
  BY DEF ConfigIInv
<1> QED
  BY <1>1, ConfigInit, ConfigStep, PTL DEF Spec

-----------------------------------------------------------------------------
(***************************************************************************)
(* Sending the batches in turn does what the lines do as a whole, although *)
(* each batch starts from no interface at all: a sub-command stands under  *)
(* the header of its block in the batch, as it does in the lines, as long  *)
(* as none follows an exit of that block.                                  *)
(***************************************************************************)

ExitsLast(lines) ==
    \A i, j \in DOMAIN lines :
        lines[j].line = "exit" /\ lines[i].line = "sub" /\ j < i
            => \E k \in j .. i : lines[k].line = "interface"

\* The configuration has what the first n lines wrote.
Done(config, lines, n) ==
    \A i \in 1 .. n :
        /\ Written(lines, i) \in Setting
        /\ \A j \in 1 .. n : i < j => Written(lines, j) # Written(lines, i)
        => config[Written(lines, i)] = lines[i].to

LEMMA EnteredIs ==
  ASSUME NEW lines \in Seq(Line), NEW i \in DOMAIN lines, NEW b \in 1 .. i,
         \A k \in (b + 1) .. i : lines[k].line \notin {"interface", "exit"}
  PROVE  /\ lines[b].line \in {"interface", "exit"} => Entered(lines, i) = lines[b].at
         /\ b = 1 /\ lines[b].line \notin {"interface", "exit"} => Entered(lines, i) = None
<1> DEFINE S == {0} \cup {j \in 1 .. i : lines[j].line \in {"interface", "exit"}}
<1>1. i \in Nat /\ S \subseteq 0 .. i /\ S # {}
  OBVIOUS
<1>2. Max(S) \in S /\ \A y \in S : y <= Max(S)
  BY <1>1, MaxIsGreatest
<1>3. Entered(lines, i) = IF Max(S) = 0 THEN None ELSE lines[Max(S)].at
  BY DEF Entered
<1>4. \A y \in S : y <= b
  BY <1>1
<1>5. CASE lines[b].line \in {"interface", "exit"}
  <2>1. b \in S
    BY <1>5
  <2>2. Max(S) = b
    BY <1>1, <1>2, <1>4, <2>1
  <2> HIDE DEF S
  <2> QED
    BY <1>3, <1>5, <2>2
<1>6. CASE b = 1 /\ lines[b].line \notin {"interface", "exit"}
  <2>1. S = {0}
    BY <1>1, <1>4, <1>6
  <2> HIDE DEF S
  <2>2. Max(S) = 0
    BY <1>2, <2>1
  <2> QED
    BY <1>3, <1>6, <2>2
<1> QED
  BY <1>5, <1>6

\* The line that opens a block, and the lines that belong to it.
LEMMA BlockIs ==
  ASSUME NEW lines \in Seq(Line), NEW i \in DOMAIN lines
  PROVE  /\ BlockOf(lines, i) \in 1 .. i
         /\ BlockOf(lines, i) = 1 \/ lines[BlockOf(lines, i)].line = "interface"
         /\ \A k \in (BlockOf(lines, i) + 1) .. i : lines[k].line # "interface"
<1> DEFINE S == {1} \cup {k \in 1 .. i : lines[k].line = "interface"}
<1>1. i \in Nat /\ S \subseteq 0 .. i /\ S # {}
  OBVIOUS
<1>2. Max(S) \in S /\ \A y \in S : y <= Max(S)
  BY <1>1, MaxIsGreatest
<1> DEFINE b == Max(S)
<1>3. BlockOf(lines, i) = b
  BY DEF BlockOf
<1>4. b \in 1 .. i /\ (b = 1 \/ lines[b].line = "interface")
  BY <1>1, <1>2
<1>5. \A k \in 1 .. i : lines[k].line = "interface" => k <= b
  BY <1>2
<1> HIDE DEF b
<1> QED
  BY <1>1, <1>3, <1>4, <1>5

LEMMA BlockUnique ==
  ASSUME NEW lines \in Seq(Line), NEW i \in DOMAIN lines, NEW b \in 1 .. i,
         b = 1 \/ lines[b].line = "interface",
         \A k \in (b + 1) .. i : lines[k].line # "interface"
  PROVE  BlockOf(lines, i) = b
<1> DEFINE c == BlockOf(lines, i)
<1>1. /\ c \in 1 .. i
      /\ c = 1 \/ lines[c].line = "interface"
      /\ \A k \in (c + 1) .. i : lines[k].line # "interface"
  BY BlockIs
<1> HIDE DEF c
<1>2. ~(b < c)
  BY <1>1
<1>3. ~(c < b)
  BY <1>1
<1> QED
  BY <1>1, <1>2, <1>3 DEF c

\* A batch ends before the next one starts, in the block it starts in.
LEMMA FollowingIs ==
  ASSUME NEW lines \in Seq(Line), NEW i \in DOMAIN lines
  PROVE  /\ Following(lines, i) \in (i + 1) .. (Len(lines) + 1)
         /\ Following(lines, i) \in Starts(lines) \cup {Len(lines) + 1}
         /\ \A k \in i .. (Following(lines, i) - 1) : BlockOf(lines, k) = BlockOf(lines, i)
<1> DEFINE f == Following(lines, i)
           S == {Len(lines) + 1} \cup {k \in Starts(lines) : k > i}
<1>1. DOMAIN lines = 1 .. Len(lines) /\ Len(lines) \in Nat /\ i \in 1 .. Len(lines)
  OBVIOUS
<1>2. S \subseteq Nat /\ S # {}
  BY <1>1 DEF Starts
<1>3. f \in S /\ \A y \in S : f <= y
  BY <1>2, MinIsLeast DEF Following
<1>4. f \in (i + 1) .. (Len(lines) + 1)
  BY BatchKnown
<1> HIDE DEF f
<1>5. ASSUME NEW k \in (i + 1) .. (f - 1)
      PROVE  lines[k].line # "interface"
  <2> SUFFICES ASSUME lines[k].line = "interface" PROVE FALSE
    OBVIOUS
  <2>1. k \in DOMAIN lines /\ k > i
    BY <1>1, <1>4
  <2>2. BlockOf(lines, k) = k
    BY <2>1, BlockUnique
  <2>3. k \in Starts(lines)
    BY <2>1, <2>2 DEF Starts
  <2>4. f <= k
    BY <1>3, <2>1, <2>3
  <2> QED
    BY <1>1, <1>4, <2>4
<1>6. ASSUME NEW k \in i .. (f - 1)
      PROVE  BlockOf(lines, k) = BlockOf(lines, i)
  <2> DEFINE b == BlockOf(lines, i)
  <2>1. /\ b \in 1 .. i
        /\ b = 1 \/ lines[b].line = "interface"
        /\ \A m \in (b + 1) .. i : lines[m].line # "interface"
    BY BlockIs
  <2> HIDE DEF b
  <2>2. k \in DOMAIN lines /\ b \in 1 .. k
    BY <1>1, <1>4, <2>1
  <2>3. \A m \in (b + 1) .. k : lines[m].line # "interface"
    BY <1>1, <1>4, <1>5, <2>1
  <2>4. BlockOf(lines, k) = b
    BY <2>1, <2>2, <2>3, BlockUnique
  <2> QED
    BY <2>4 DEF b
<1> QED
  BY <1>3, <1>4, <1>6 DEF f

\* Where line k of the lines stands in the batch that starts at line i.
Place(lines, i, k) == IF i = BlockOf(lines, i) THEN k - i + 1 ELSE k - i + 2

\* A batch is a stretch of the lines, under the header of its block.
LEMMA BatchIs ==
  ASSUME NEW lines \in Seq(Line), NEW i \in Starts(lines)
  PROVE  /\ Batch(lines, i) \in Seq(Line)
         /\ Batch(lines, i)[1] = lines[BlockOf(lines, i)]
         /\ \A k \in i .. (Following(lines, i) - 1) :
               /\ Place(lines, i, k) \in 1 .. Len(Batch(lines, i))
               /\ Batch(lines, i)[Place(lines, i, k)] = lines[k]
         /\ \A p \in 1 .. Len(Batch(lines, i)) :
               \/ \E k \in i .. (Following(lines, i) - 1) : p = Place(lines, i, k)
               \/ p = 1 /\ lines[BlockOf(lines, i)].line = "interface"
         /\ Place(lines, i, Following(lines, i) - 1) = Len(Batch(lines, i))
<1> DEFINE f == Following(lines, i)
           b == BlockOf(lines, i)
           batch == Batch(lines, i)
           sent == SubSeq(lines, i, f - 1)
<1>1. i \in DOMAIN lines /\ i \in 1 .. Len(lines) /\ Len(lines) \in Nat
  BY DEF Starts
<1>2. batch \in Seq(Line) /\ f \in (i + 1) .. (Len(lines) + 1)
  BY <1>1, BatchKnown
<1>3. b \in 1 .. i /\ (i # b => lines[b].line = "interface")
  BY <1>1, BlockIs DEF Starts
<1>4. batch = IF i = b THEN sent ELSE <<lines[b]>> \o sent
  BY DEF Batch
<1> HIDE DEF f, b, batch
<1>5. /\ sent \in Seq(Line) /\ Len(sent) = f - i
      /\ \A n \in 1 .. (f - i) : sent[n] = lines[i + n - 1]
  BY <1>1, <1>2
<1> HIDE DEF sent
<1>6. CASE i = b
  <2>1. \A k : Place(lines, i, k) = k - i + 1
    BY <1>6 DEF Place, b
  <2>2. batch = sent
    BY <1>4, <1>6
  <2>3. ASSUME NEW k \in i .. (f - 1)
        PROVE  k - i + 1 \in 1 .. Len(batch) /\ batch[k - i + 1] = lines[k]
    <3>1. k - i + 1 \in 1 .. (f - i) /\ i + (k - i + 1) - 1 = k
      BY <1>1, <1>2
    <3> QED
      BY <1>5, <2>2, <3>1
  <2>4. ASSUME NEW p \in 1 .. Len(batch)
        PROVE  \E k \in i .. (f - 1) : p = k - i + 1
    <3>1. p \in 1 .. (f - i) /\ i \in Nat /\ f \in Nat
      BY <1>1, <1>2, <1>5, <2>2
    <3>2. p + i - 1 \in i .. (f - 1) /\ p = (p + i - 1) - i + 1
      BY <3>1
    <3> QED
      BY <3>2
  <2>5. batch[1] = lines[b] /\ (f - 1) - i + 1 = Len(batch)
    BY <1>1, <1>2, <1>5, <1>6, <2>2
  <2> QED
    BY <1>2, <2>1, <2>3, <2>4, <2>5 DEF f, b, batch
<1>7. CASE i # b
  <2>1. \A k : Place(lines, i, k) = k - i + 2
    BY <1>7 DEF Place, b
  <2>2. batch = <<lines[b]>> \o sent
    BY <1>4, <1>7
  <2>3. /\ Len(batch) = f - i + 1
        /\ batch[1] = lines[b]
        /\ \A n \in 1 .. (f - i) : batch[n + 1] = sent[n]
    BY <1>1, <1>2, <1>5, <2>2
  <2>4. ASSUME NEW k \in i .. (f - 1)
        PROVE  k - i + 2 \in 1 .. Len(batch) /\ batch[k - i + 2] = lines[k]
    <3>1. i \in Nat /\ f \in Nat
      BY <1>1, <1>2
    <3>2. /\ k - i + 1 \in 1 .. (f - i)
          /\ i + (k - i + 1) - 1 = k
          /\ (k - i + 1) + 1 = k - i + 2
          /\ k - i + 2 \in 1 .. (f - i + 1)
      BY <3>1
    <3> QED
      BY <1>5, <2>3, <3>2
  <2>5. ASSUME NEW p \in 1 .. Len(batch), p # 1
        PROVE  \E k \in i .. (f - 1) : p = k - i + 2
    <3>1. p + i - 2 \in i .. (f - 1) /\ p = (p + i - 2) - i + 2
      BY <1>1, <1>2, <2>3, <2>5
    <3> QED
      BY <3>1
  <2>6. (f - 1) - i + 2 = Len(batch)
    BY <1>1, <1>2, <2>3
  <2> QED
    BY <1>2, <1>3, <1>7, <2>1, <2>3, <2>4, <2>5, <2>6 DEF f, b, batch
<1> QED
  BY <1>6, <1>7

\* A line writes the same setting in its batch as it does among the lines.
LEMMA WrittenSame ==
  ASSUME NEW lines \in Seq(Line), ExitsLast(lines), NEW i \in Starts(lines),
         NEW k \in i .. (Following(lines, i) - 1)
  PROVE  Written(Batch(lines, i), Place(lines, i, k)) = Written(lines, k)
<1> DEFINE f == Following(lines, i)
           b == BlockOf(lines, i)
           batch == Batch(lines, i)
           p == Place(lines, i, k)
<1>1. i \in DOMAIN lines /\ i \in 1 .. Len(lines) /\ Len(lines) \in Nat
  BY DEF Starts
<1>2. f \in (i + 1) .. (Len(lines) + 1) /\ k \in i .. (f - 1) /\ BlockOf(lines, k) = b
  BY <1>1, FollowingIs
<1>3. k \in DOMAIN lines
  BY <1>1, <1>2
<1>4. /\ b \in 1 .. i
      /\ b = 1 \/ lines[b].line = "interface"
      /\ \A m \in (b + 1) .. k : lines[m].line # "interface"
  BY <1>1, <1>2, <1>3, BlockIs
<1>5. /\ batch \in Seq(Line)
      /\ batch[1] = lines[b]
      /\ p \in 1 .. Len(batch) /\ batch[p] = lines[k]
  BY BatchIs
<1>6. \A q \in 2 .. p : \E m \in (b + 1) .. k : batch[q] = lines[m]
  <2> SUFFICES ASSUME NEW q \in 2 .. p
               PROVE  \E m \in (b + 1) .. k : batch[q] = lines[m]
    OBVIOUS
  <2> DEFINE m == IF i = b THEN q + i - 1 ELSE q + i - 2
  <2>1. p = IF i = b THEN k - i + 1 ELSE k - i + 2
    BY DEF Place
  <2> HIDE DEF f, b, batch, p
  <2>2. m \in i .. (f - 1) /\ m \in (b + 1) .. k
    <3>1. i \in Nat /\ f \in Nat /\ b \in Nat /\ k \in Nat /\ b <= i /\ k <= f - 1 /\ i <= k
      BY <1>1, <1>2, <1>4
    <3>2. CASE i = b
      BY <2>1, <3>1, <3>2
    <3>3. CASE i # b
      BY <2>1, <3>1, <3>3
    <3> QED
      BY <3>2, <3>3
  <2>3. Place(lines, i, m) = q
    BY <1>1, <1>2, <2>1 DEF Place, b
  <2>4. batch[q] = lines[m]
    BY <2>2, <2>3, BatchIs DEF f, batch
  <2> QED
    BY <2>2, <2>4
<1> HIDE DEF f, b, batch, p
<1>7. ASSUME lines[k].line # "sub"
      PROVE  Written(batch, p) = Written(lines, k)
  BY <1>5, <1>7 DEF Written
<1>8. ASSUME lines[k].line = "sub"
      PROVE  Written(batch, p) = Written(lines, k)
  <2>1. \A m \in b .. k : lines[m].line # "exit"
    <3> SUFFICES ASSUME NEW m \in b .. k, lines[m].line = "exit"
                 PROVE  FALSE
      OBVIOUS
    <3>1. m < k /\ m \in DOMAIN lines
      BY <1>1, <1>3, <1>4, <1>8
    <3>2. PICK n \in m .. k : lines[n].line = "interface"
      BY <1>3, <1>8, <3>1 DEF ExitsLast
    <3> QED
      BY <1>1, <1>4, <3>1, <3>2
  <2>2. b \in 1 .. k /\ \A m \in (b + 1) .. k : lines[m].line \notin {"interface", "exit"}
    BY <1>1, <1>2, <1>4, <2>1
  <2>3. /\ lines[b].line = "interface" => Entered(lines, k) = lines[b].at
        /\ lines[b].line # "interface" => Entered(lines, k) = None
    BY <1>3, <1>4, <2>1, <2>2, EnteredIs
  <2>4. \A q \in (1 + 1) .. p : batch[q].line \notin {"interface", "exit"}
    BY <1>6, <2>2
  <2>5. p \in DOMAIN batch /\ 1 \in 1 .. p /\ lines[b].line # "exit"
    BY <1>5, <2>1, <2>2
  <2>6. /\ lines[b].line = "interface" => Entered(batch, p) = lines[b].at
        /\ lines[b].line # "interface" => Entered(batch, p) = None
    BY <1>5, <2>4, <2>5, EnteredIs
  <2> QED
    BY <1>5, <2>3, <2>6 DEF Written
<1> QED
  BY <1>7, <1>8 DEF batch, p

-----------------------------------------------------------------------------
(***************************************************************************)
(* What the switch has, when it has run some lines.                        *)
(***************************************************************************)

\* The last line that writes a setting decides; one that no line writes stays as it was.
LEMMA AppliedIs ==
  ASSUME NEW config, NEW lines \in Seq(Line), NEW x \in Setting
  PROVE  /\ (\A i \in 1 .. Len(lines) : Written(lines, i) # x)
               => x \notin Touched(lines) /\ Applied(config, lines)[x] = config[x]
         /\ \A i \in 1 .. Len(lines) :
               Written(lines, i) = x
               /\ (\A j \in 1 .. Len(lines) : i < j => Written(lines, j) # x)
               => /\ x \in Touched(lines)
                  /\ LastWritten(lines, x) = lines[i].to
                  /\ Applied(config, lines)[x] = lines[i].to
<1>1. DOMAIN lines = 1 .. Len(lines) /\ Len(lines) \in Nat
  OBVIOUS
<1>2. Applied(config, lines)[x]
         = IF x \in Touched(lines) THEN LastWritten(lines, x) ELSE config[x]
  BY DEF Applied
<1>3. ASSUME \A i \in 1 .. Len(lines) : Written(lines, i) # x
      PROVE  x \notin Touched(lines)
  BY <1>1, <1>3 DEF Touched, Writers
<1>4. ASSUME NEW i \in 1 .. Len(lines), Written(lines, i) = x,
             \A j \in 1 .. Len(lines) : i < j => Written(lines, j) # x
      PROVE  x \in Touched(lines) /\ LastWritten(lines, x) = lines[i].to
  <2> DEFINE W == Writers(lines, x)
  <2>1. i \in W /\ W \subseteq 0 .. Len(lines) /\ W # {}
    BY <1>1, <1>4 DEF Writers
  <2>2. \A y \in W : y <= i
    BY <1>1, <1>4 DEF Writers
  <2>3. Max(W) \in W /\ \A y \in W : y <= Max(W)
    BY <1>1, <2>1, MaxIsGreatest
  <2>4. Max(W) = i
    BY <1>1, <2>1, <2>2, <2>3
  <2> QED
    BY <2>1, <2>4 DEF Touched, LastWritten
<1> QED
  BY <1>2, <1>3, <1>4

\* What the last line that writes a setting makes of it.
LEMMA LastWriterIs ==
  ASSUME NEW lines \in Seq(Line), NEW x \in Setting, NEW m \in 1 .. Len(lines),
         Written(lines, m) = x,
         \A j \in 1 .. Len(lines) : m < j => Written(lines, j) # x
  PROVE  LastWritten(lines, x) = lines[m].to
<1>1. \A config : \A i \in 1 .. Len(lines) :
         Written(lines, i) = x
         /\ (\A j \in 1 .. Len(lines) : i < j => Written(lines, j) # x)
         => LastWritten(lines, x) = lines[i].to
  BY AppliedIs
<1> QED
  BY <1>1

\* Among the lines that write a setting there is a last one.
LEMMA LastWriterExists ==
  ASSUME NEW lines \in Seq(Line), NEW n \in 0 .. Len(lines), NEW x \in Setting,
         NEW i \in 1 .. n, Written(lines, i) = x
  PROVE  \E m \in 1 .. n : /\ Written(lines, m) = x
                           /\ \A j \in 1 .. n : m < j => Written(lines, j) # x
<1> DEFINE W == {j \in 1 .. n : Written(lines, j) = x}
<1>1. n \in Nat /\ W \subseteq 0 .. n /\ W # {}
  OBVIOUS
<1>2. Max(W) \in W /\ \A y \in W : y <= Max(W)
  BY <1>1, MaxIsGreatest
<1>3. \A j \in 1 .. n : Max(W) < j => j \notin W
  BY <1>1, <1>2
<1> QED
  BY <1>2, <1>3

LEMMA DoneIsLast ==
  ASSUME NEW lines \in Seq(Line), NEW config, Done(config, lines, Len(lines)),
         NEW x \in Touched(lines)
  PROVE  config[x] = LastWritten(lines, x)
<1>1. x \in Setting /\ \E i \in 1 .. Len(lines) : Written(lines, i) = x
  BY DEF Touched, Writers
<1>2. PICK m \in 1 .. Len(lines) :
         Written(lines, m) = x /\ \A j \in 1 .. Len(lines) : m < j => Written(lines, j) # x
  BY <1>1, LastWriterExists
<1> QED
  BY <1>1, <1>2, AppliedIs DEF Done

\* The lines the driver sends: no sub-command after an exit, and a header writes nothing.
Proper(lines) ==
    /\ ExitsLast(lines)
    /\ \A i \in DOMAIN lines : lines[i].line = "interface" => lines[i].what = "none"

LEMMA BatchWrites ==
  ASSUME NEW lines \in Seq(Line), Proper(lines), NEW i \in Starts(lines),
         NEW p \in 1 .. Len(Batch(lines, i)), Written(Batch(lines, i), p) \in Setting
  PROVE  \E k \in i .. (Following(lines, i) - 1) :
            p = Place(lines, i, k) /\ Written(Batch(lines, i), p) = Written(lines, k)
<1>1. CASE \E k \in i .. (Following(lines, i) - 1) : p = Place(lines, i, k)
  BY <1>1, WrittenSame DEF Proper
<1>2. CASE p = 1 /\ lines[BlockOf(lines, i)].line = "interface"
  <2>1. BlockOf(lines, i) \in DOMAIN lines
    <3>1. i \in DOMAIN lines
      BY DEF Starts
    <3> QED
      BY <3>1, BlockIs
  <2>2. Batch(lines, i)[1].what = "none" /\ Batch(lines, i)[1].line = "interface"
    BY <1>2, <2>1, BatchIs DEF Proper
  <2>3. Written(Batch(lines, i), p).what = "none"
    BY <1>2, <2>2 DEF Written
  <2>4. \A x \in Setting : x.what # "none"
    BY CiscoAssumption DEF Setting, PortWhat
  <2> QED
    BY <2>3, <2>4
<1> QED
  BY <1>1, <1>2, BatchIs

\* A batch carries what has been written on to the lines before the next batch.
LEMMA BatchDone ==
  ASSUME NEW lines \in Seq(Line), Proper(lines), NEW i \in Starts(lines),
         NEW config, Done(config, lines, i - 1)
  PROVE  Done(Applied(config, Batch(lines, i)), lines, Following(lines, i) - 1)
<1> DEFINE f == Following(lines, i)
           batch == Batch(lines, i)
           after == Applied(config, batch)
<1>1. i \in DOMAIN lines /\ i \in 1 .. Len(lines) /\ Len(lines) \in Nat
  BY DEF Starts
<1>2. f \in (i + 1) .. (Len(lines) + 1) /\ batch \in Seq(Line)
  BY <1>1, FollowingIs, BatchIs
<1>3. \A p \in 1 .. Len(batch) :
         Written(batch, p) \in Setting
            => \E k \in i .. (f - 1) : p = Place(lines, i, k) /\ Written(batch, p) = Written(lines, k)
  BY BatchWrites
<1>4. \A k \in i .. (f - 1) :
         /\ Place(lines, i, k) \in 1 .. Len(batch)
         /\ batch[Place(lines, i, k)] = lines[k]
         /\ Written(batch, Place(lines, i, k)) = Written(lines, k)
  BY BatchIs, WrittenSame DEF Proper
<1>5. \A j, k \in i .. (f - 1) : Place(lines, i, j) < Place(lines, i, k) => j < k
  BY <1>1, <1>2 DEF Place
<1>6. \A x \in Setting :
         /\ (\A p \in 1 .. Len(batch) : Written(batch, p) # x) => after[x] = config[x]
         /\ \A p \in 1 .. Len(batch) :
               Written(batch, p) = x
               /\ (\A q \in 1 .. Len(batch) : p < q => Written(batch, q) # x)
               => after[x] = batch[p].to
  BY <1>2, AppliedIs
<1> HIDE DEF f, batch, after
<1>7. SUFFICES ASSUME NEW m \in 1 .. (f - 1), Written(lines, m) \in Setting,
                      \A j \in 1 .. (f - 1) : m < j => Written(lines, j) # Written(lines, m)
               PROVE  after[Written(lines, m)] = lines[m].to
  BY DEF Done, f, batch, after
<1>8. m \in Nat /\ i \in Nat /\ f \in Nat
  BY <1>1, <1>2
<1>9. CASE m < i
  <2>1. \A k \in i .. (f - 1) : Written(lines, k) # Written(lines, m)
    BY <1>7, <1>8, <1>9
  <2>2. \A p \in 1 .. Len(batch) : Written(batch, p) # Written(lines, m)
    BY <1>3, <1>7, <2>1
  <2>3. after[Written(lines, m)] = config[Written(lines, m)]
    BY <1>6, <1>7, <2>2
  <2>4. m \in 1 .. (i - 1) /\ \A j \in 1 .. (i - 1) : j \in 1 .. (f - 1)
    BY <1>2, <1>8, <1>9
  <2>5. config[Written(lines, m)] = lines[m].to
    BY <1>7, <2>4 DEF Done
  <2> QED
    BY <2>3, <2>5
<1>10. CASE ~(m < i)
  <2>1. m \in i .. (f - 1)
    BY <1>8, <1>10
  <2> DEFINE p == Place(lines, i, m)
  <2>2. p \in 1 .. Len(batch) /\ batch[p] = lines[m] /\ Written(batch, p) = Written(lines, m)
    BY <1>4, <2>1
  <2>3. ASSUME NEW q \in 1 .. Len(batch), p < q, Written(batch, q) = Written(lines, m)
        PROVE  FALSE
    <3>1. PICK k \in i .. (f - 1) : q = Place(lines, i, k) /\ Written(lines, k) = Written(lines, m)
      BY <1>3, <1>7, <2>3
    <3>2. m < k /\ k \in 1 .. (f - 1)
      BY <1>5, <1>8, <2>1, <2>3, <3>1
    <3> QED
      BY <1>7, <3>1, <3>2
  <2> HIDE DEF p
  <2> QED
    BY <1>6, <1>7, <2>2, <2>3
<1> QED
  BY <1>9, <1>10

\* The lines of a batch that were run before the switch stopped answering.
LEMMA PrefixIs ==
  ASSUME NEW lines \in Seq(Line), NEW n \in 0 .. Len(lines)
  PROVE  /\ SubSeq(lines, 1, n) \in Seq(Line)
         /\ Len(SubSeq(lines, 1, n)) = n
         /\ \A p \in 1 .. n : Written(SubSeq(lines, 1, n), p) = Written(lines, p)
<1> DEFINE part == SubSeq(lines, 1, n)
<1>1. part \in Seq(Line) /\ Len(part) = n /\ \A p \in 1 .. n : part[p] = lines[p]
  OBVIOUS
<1> HIDE DEF part
<1>2. ASSUME NEW p \in 1 .. n
      PROVE  Written(part, p) = Written(lines, p)
  <2>1. {j \in 1 .. p : part[j].line \in {"interface", "exit"}}
           = {j \in 1 .. p : lines[j].line \in {"interface", "exit"}}
    BY <1>1
  <2> DEFINE k == Max({0} \cup {j \in 1 .. p : lines[j].line \in {"interface", "exit"}})
  <2>2. {0} \cup {j \in 1 .. p : lines[j].line \in {"interface", "exit"}} \subseteq 0 .. p
    OBVIOUS
  <2>3. p \in Nat
    OBVIOUS
  <2>4. k \in 0 .. p
    BY <2>2, <2>3, MaxIsGreatest
  <2>5. Entered(part, p) = IF k = 0 THEN None ELSE part[k].at
    BY <2>1 DEF Entered
  <2>6. Entered(lines, p) = IF k = 0 THEN None ELSE lines[k].at
    BY DEF Entered
  <2> HIDE DEF k
  <2>7. Entered(part, p) = Entered(lines, p)
    BY <1>1, <2>4, <2>5, <2>6
  <2> QED
    BY <1>1, <2>7 DEF Written
<1> QED
  BY <1>1, <1>2 DEF part

\* However much of a batch was run, nothing else has changed.
LEMMA PartElsewhere ==
  ASSUME NEW lines \in Seq(Line), Proper(lines), NEW i \in Starts(lines),
         NEW n \in 0 .. Len(Batch(lines, i)), NEW config,
         NEW x \in Setting, x \notin Touched(lines)
  PROVE  Applied(config, SubSeq(Batch(lines, i), 1, n))[x] = config[x]
<1> DEFINE batch == Batch(lines, i)
           part == SubSeq(batch, 1, n)
<1>1. batch \in Seq(Line) /\ i \in DOMAIN lines
  BY BatchIs DEF Starts
<1>2. part \in Seq(Line) /\ Len(part) = n /\ \A p \in 1 .. n : Written(part, p) = Written(batch, p)
  BY <1>1, PrefixIs
<1>3. \A p \in 1 .. Len(part) : Written(part, p) # x
  <2> SUFFICES ASSUME NEW p \in 1 .. Len(part), Written(part, p) = x
               PROVE  FALSE
    OBVIOUS
  <2>1. p \in 1 .. Len(batch) /\ Written(batch, p) = x
    BY <1>1, <1>2
  <2>2. PICK k \in i .. (Following(lines, i) - 1) : Written(lines, k) = x
    BY <2>1, BatchWrites
  <2>3. k \in DOMAIN lines
    BY <1>1, FollowingIs
  <2> QED
    BY <2>2, <2>3 DEF Touched, Writers
<1> HIDE DEF part
<1>4. Applied(config, part)[x] = config[x]
  BY <1>2, <1>3, AppliedIs
<1> QED
  BY <1>4 DEF part

-----------------------------------------------------------------------------
(***************************************************************************)
(* What the calls send.                                                    *)
(***************************************************************************)

LEMMA ClearPortsAre ==
  ASSUME NEW ports \in PortList
  PROVE  /\ Len(ports) \in Nat /\ ports \in [1 .. Len(ports) -> Port]
         /\ Len(ClearPorts(ports)) = 3 * Len(ports)
         /\ \A i \in 1 .. 3 * Len(ports) :
               /\ i % 3 \in 0 .. 2
               /\ i % 3 = 1 => ClearPorts(ports)[i] = Interface(ports[(i + 2) \div 3])
               /\ i % 3 = 2 => ClearPorts(ports)[i] = Sub("access", Default)
               /\ i % 3 = 0 => ClearPorts(ports)[i] = Exit
<1>1. PICK n \in 0 .. MaxPorts : ports \in [1 .. n -> Port]
  BY DEF PortList
<1>2. n \in Nat /\ Len(ports) = n
  BY <1>1, CiscoAssumption
<1>3. 3 * n \in Nat
  BY <1>2
<1> DEFINE line(i) == CASE i % 3 = 1 -> Interface(ports[(i + 2) \div 3])
                        [] i % 3 = 2 -> Sub("access", Default)
                        [] i % 3 = 0 -> Exit
<1>4. ClearPorts(ports) = [i \in 1 .. 3 * n |-> line(i)]
  BY <1>2 DEF ClearPorts
<1>5. ASSUME NEW i \in 1 .. 3 * n
      PROVE  /\ i % 3 \in 0 .. 2
             /\ i % 3 = 1 => line(i) = Interface(ports[(i + 2) \div 3])
             /\ i % 3 = 2 => line(i) = Sub("access", Default)
             /\ i % 3 = 0 => line(i) = Exit
  <2>1. i % 3 \in 0 .. 2
    BY <1>2
  <2>2. CASE i % 3 = 1
    BY <2>1, <2>2
  <2>3. CASE i % 3 = 2
    BY <2>1, <2>3
  <2>4. CASE i % 3 = 0
    BY <2>1, <2>4
  <2> QED
    BY <2>1, <2>2, <2>3, <2>4
<1> HIDE DEF line
<1>6. /\ Len(ClearPorts(ports)) = 3 * n
      /\ \A i \in 1 .. 3 * n : ClearPorts(ports)[i] = line(i)
  BY <1>3, <1>4
<1> QED
  BY <1>1, <1>2, <1>5, <1>6

\* Appending one line.
LEMMA AppendIs ==
  ASSUME NEW s \in Seq(Line), NEW e \in Line, NEW m \in Nat, Len(s) = m
  PROVE  /\ Append(s, e) \in Seq(Line)
         /\ Len(Append(s, e)) = m + 1
         /\ Append(s, e)[m + 1] = e
         /\ \A i \in 1 .. m : Append(s, e)[i] = s[i]
<1>1. Append(s, e) \in Seq(Line)
  OBVIOUS
<1>2. Len(Append(s, e)) = m + 1
  OBVIOUS
<1>3. Append(s, e)[m + 1] = e
  OBVIOUS
<1>4. \A i \in 1 .. m : Append(s, e)[i] = s[i]
  OBVIOUS
<1> QED
  BY <1>1, <1>2, <1>3, <1>4

\* The lines of delete_vlan: the ports leave the VLAN, and the VLAN goes last.
LEMMA DeleteVlanIs ==
  ASSUME NEW v \in Vlan, NEW ports \in PortList
  PROVE  LET lines == DeleteVlan(v, ports)
             n == Len(ports)
         IN  /\ n \in Nat /\ ports \in [1 .. n -> Port]
             /\ lines \in Seq(Line) /\ Len(lines) = 3 * n + 1
             /\ lines[3 * n + 1] = NoVlan(v)
             /\ \A i \in 1 .. 3 * n :
                   /\ i % 3 \in 0 .. 2
                   /\ i % 3 = 1 => lines[i] = Interface(ports[(i + 2) \div 3])
                   /\ i % 3 = 2 => lines[i] = Sub("access", Default)
                   /\ i % 3 = 0 => lines[i] = Exit
<1> DEFINE n == Len(ports)
           clear == ClearPorts(ports)
<1>1. /\ n \in Nat /\ ports \in [1 .. n -> Port]
      /\ Len(clear) = 3 * n
      /\ \A i \in 1 .. 3 * n :
               /\ i % 3 \in 0 .. 2
               /\ i % 3 = 1 => clear[i] = Interface(ports[(i + 2) \div 3])
               /\ i % 3 = 2 => clear[i] = Sub("access", Default)
               /\ i % 3 = 0 => clear[i] = Exit
  BY ClearPortsAre
<1>2. clear \in Seq(Line) /\ NoVlan(v) \in Line
  BY ClearPortsKnown, LinesKnown
<1> HIDE DEF n, clear
<1>3. 3 * n \in Nat
  BY <1>1
<1>4. /\ Append(clear, NoVlan(v)) \in Seq(Line)
      /\ Len(Append(clear, NoVlan(v))) = 3 * n + 1
      /\ Append(clear, NoVlan(v))[3 * n + 1] = NoVlan(v)
      /\ \A i \in 1 .. 3 * n : Append(clear, NoVlan(v))[i] = clear[i]
  <2>1. Len(clear) = 3 * n
    BY <1>1
  <2> QED
    BY <1>2, <1>3, <2>1, AppendIs
<1>5. DeleteVlan(v, ports) = Append(clear, NoVlan(v))
  BY DEF DeleteVlan, clear
<1> QED
  BY <1>1, <1>4, <1>5 DEF n

\* The driver sends no sub-command after an exit, except under a new header.
LEMMA CommandsProper ==
  ASSUME NEW r \in Request
  PROVE  Proper(Commands(r))
<1> DEFINE lines == Commands(r)
<1>1. CASE r.op = "delete_vlan"
  <2> DEFINE n == Len(r.ports)
  <2>1. r.vlan \in Vlan /\ r.ports \in PortList /\ lines = DeleteVlan(r.vlan, r.ports)
    BY <1>1 DEF Request, Commands
  <2> HIDE DEF lines
  <2>2. /\ n \in Nat
        /\ lines \in Seq(Line) /\ Len(lines) = 3 * n + 1
        /\ lines[3 * n + 1] = NoVlan(r.vlan)
        /\ \A i \in 1 .. 3 * n :
               /\ i % 3 \in 0 .. 2
               /\ i % 3 = 1 => lines[i] = Interface(r.ports[(i + 2) \div 3])
               /\ i % 3 = 2 => lines[i] = Sub("access", Default)
               /\ i % 3 = 0 => lines[i] = Exit
    BY <2>1, DeleteVlanIs
  <2> HIDE DEF n
  <2>3. \A i \in DOMAIN lines : i \in 1 .. 3 * n \/ i = 3 * n + 1
    BY <2>2
  <2>4. \A i \in 1 .. 3 * n :
           i % 3 = 1 => lines[i].line = "interface" /\ lines[i].what = "none"
    <3>1. \A p : Interface(p).line = "interface" /\ Interface(p).what = "none"
      BY DEF Interface
    <3> QED
      BY <2>2, <3>1
  <2>5. \A i \in DOMAIN lines :
           /\ lines[i].line = "interface" => lines[i].what = "none"
           /\ lines[i].line = "exit" => i \in 1 .. 3 * n /\ i % 3 = 0
           /\ lines[i].line = "sub" => i \in 1 .. 3 * n /\ i % 3 = 2
    <3> SUFFICES ASSUME NEW i \in DOMAIN lines
                 PROVE  /\ lines[i].line = "interface" => lines[i].what = "none"
                        /\ lines[i].line = "exit" => i \in 1 .. 3 * n /\ i % 3 = 0
                        /\ lines[i].line = "sub" => i \in 1 .. 3 * n /\ i % 3 = 2
      OBVIOUS
    <3>1. CASE i = 3 * n + 1
      BY <2>2, <3>1 DEF NoVlan
    <3>2. CASE i \in 1 .. 3 * n /\ i % 3 = 1
      BY <2>2, <2>4, <3>2
    <3>3. CASE i \in 1 .. 3 * n /\ i % 3 = 2
      BY <2>2, <3>3 DEF Sub
    <3>4. CASE i \in 1 .. 3 * n /\ i % 3 = 0
      BY <2>2, <3>4 DEF Exit
    <3> QED
      BY <2>2, <2>3, <3>1, <3>2, <3>3, <3>4
  <2>6. ASSUME NEW i \in DOMAIN lines, NEW j \in DOMAIN lines,
               lines[j].line = "exit", lines[i].line = "sub", j < i
        PROVE  \E k \in j .. i : lines[k].line = "interface"
    <3>1. i \in 1 .. 3 * n /\ j \in 1 .. 3 * n /\ j % 3 = 0
      BY <2>5, <2>6
    <3>2. j + 1 \in 1 .. 3 * n /\ j + 1 \in j .. i
      BY <2>2, <2>6, <3>1
    <3>3. (j + 1) % 3 = 1
      BY <3>1
    <3>4. lines[j + 1].line = "interface"
      BY <2>4, <3>2, <3>3
    <3> QED
      BY <3>2, <3>4
  <2> QED
    BY <2>5, <2>6 DEF Proper, ExitsLast, lines
<1>2. ASSUME lines \in Seq(Line),
             \A i \in DOMAIN lines : /\ lines[i].line = "interface" => lines[i].what = "none"
                                     /\ lines[i].line = "exit" => i = Len(lines)
      PROVE  Proper(lines)
  <2>1. \A i, j \in DOMAIN lines : ~(lines[j].line = "exit" /\ j < i)
    BY <1>2
  <2> QED
    BY <1>2, <2>1 DEF Proper, ExitsLast
<1> USE DEF Interface, Sub, Exit, NoVlan, MakeVlan, NoOpLine, Commands
<1>3. lines \in Seq(Line)
  BY CommandsKnown
<1>4. CASE r.op = "create_vlan"
  BY <1>2, <1>3, <1>4 DEF CreateVlan
<1>5. CASE r.op = "enable_port"
  BY <1>2, <1>3, <1>5 DEF EnablePort
<1>6. CASE r.op = "disable_port"
  BY <1>2, <1>3, <1>6 DEF DisablePort
<1>7. CASE r.op = "configure_port_security"
  BY <1>2, <1>3, <1>7 DEF ConfigurePortSecurity
<1>8. CASE r.op = "assign_vlan_to_port"
  BY <1>2, <1>3, <1>8 DEF AssignVlan
<1>9. CASE r.op = "configure_uplink_trunk"
  BY <1>2, <1>3, <1>9 DEF ConfigureUplinkTrunk
<1>10. CASE r.op = "remove_vlan_from_trunk"
  BY <1>2, <1>3, <1>10 DEF RemoveVlanFromTrunk
<1> QED
  BY <1>1, <1>4, <1>5, <1>6, <1>7, <1>8, <1>9, <1>10 DEF Request

\* What the switch shows when it confirms a call is what the call wrote.
LEMMA ConfirmedIsWritten ==
  ASSUME NEW r \in Request, NEW config, Confirms(config, r),
         NEW x \in CheckedBy(r), x \in Touched(Commands(r))
  PROVE  config[x] = LastWritten(Commands(r), x)
<1> DEFINE lines == Commands(r)
<1>1. config[x] = IF x.at \in Vlan THEN "present" ELSE LastWritten(lines, x)
  BY DEF Confirms
<1>2. lines \in Seq(Line) /\ \E i \in 1 .. Len(lines) : Written(lines, i) = x
  BY CommandsKnown DEF Touched, Writers
<1>3. CASE x.at \notin Vlan
  BY <1>1, <1>3
<1>4. CASE x.at \in Vlan
  <2>1. x = [at |-> r.vlan, what |-> "vlan"] /\ r.vlan \in Vlan
    BY <1>4, CiscoAssumption DEF CheckedBy, Request
  <2>2. PICK i \in 1 .. Len(lines) : lines[i].what = "vlan"
    BY <1>2, <2>1 DEF Written
  <2>3. r.op = "create_vlan"
    <3>1. r.op \in {"create_vlan", "assign_vlan_to_port", "configure_uplink_trunk"}
      BY DEF CheckedBy
    <3>2. CASE r.op = "assign_vlan_to_port"
      <4>1. lines = AssignVlan(r.ports[1], r.vlan)
        BY <3>2 DEF Commands
      <4> QED
        BY <2>2, <4>1 DEF AssignVlan, Interface, Sub
    <3>3. CASE r.op = "configure_uplink_trunk"
      <4>1. lines = ConfigureUplinkTrunk(r.ports[1], r.vlan)
        BY <3>3 DEF Commands
      <4> QED
        BY <2>1, <2>2, <4>1, CiscoAssumption DEF ConfigureUplinkTrunk, Interface, Sub, NoOpLine
    <3> QED
      BY <3>1, <3>2, <3>3
  <2>4. lines = <<MakeVlan(r.vlan), NoOpLine, Exit>>
    BY <2>3 DEF Commands, CreateVlan
  <2>5. /\ Len(lines) = 3
        /\ Written(lines, 1) = x
        /\ lines[1].to = "present"
        /\ Written(lines, 2).what = "none" /\ Written(lines, 3).what = "none"
    BY <2>1, <2>4 DEF Written, MakeVlan, NoOpLine, Exit, Sub
  <2> HIDE DEF lines
  <2>6. \A j \in 1 .. Len(lines) : 1 < j => Written(lines, j) # x
    BY <2>1, <2>5
  <2>7. x \in Setting
    BY <2>1 DEF Setting
  <2>8. LastWritten(lines, x) = "present"
    <3>1. \A k \in 1 .. Len(lines) :
             Written(lines, k) = x
             /\ (\A j \in 1 .. Len(lines) : k < j => Written(lines, j) # x)
             => LastWritten(lines, x) = lines[k].to
      BY <1>2, <2>7, AppliedIs
    <3>2. 1 \in 1 .. Len(lines)
      BY <2>5
    <3> QED
      BY <2>5, <2>6, <3>1, <3>2
  <2> QED
    BY <1>1, <1>4, <2>8 DEF lines
<1> QED
  BY <1>3, <1>4

-----------------------------------------------------------------------------
(***************************************************************************)
(* What was reported is live, and stays so: a call takes back what was     *)
(* promised of the settings it writes, and promises it again only when     *)
(* every batch went through or the switch showed it.                       *)
(***************************************************************************)

Realized == \A x \in Touched(Lines) : running[x] = LastWritten(Lines, x)

PromisesLive ==
    \A e \in promised :
        /\ e.seen => running[e.setting] = e.to
        /\ e.saved = "saved" => e.seen /\ startup[e.setting] = e.to
        /\ e.saved = "due" => e.seen /\ driver.held /\ driver.deferred /\ driver.unsaved

CallLive ==
    call.stage # "idle" =>
        /\ \A e \in promised : e.setting \notin Touched(Lines)
        /\ call.reloaded => ~Answers
        /\ call.stage = "enable" => call.next = 1
        /\ call.stage = "send" =>
              /\ call.next \in Starts(Lines) \cup {Len(Lines) + 1}
              /\ ~call.reloaded => Done(running, Lines, call.next - 1)
        /\ (call.stage = "save" /\ ~call.reloaded) => Realized
        /\ (call.stage = "verify" /\ ~call.raised) =>
              /\ ~call.reloaded => Realized
              /\ IF driver.deferred THEN driver.unsaved ELSE startup = running

LiveIInv == ConfigIInv /\ PromisesLive /\ CallLive

-----------------------------------------------------------------------------

\* An idle driver object has no call to speak of.
LEMMA IdleLive ==
  ASSUME call'.stage = "idle"
  PROVE  CallLive'
BY DEF CallLive

\* A promise outlives what leaves its setting alone, on the switch and in flash.
LEMMA PromisesStay ==
  ASSUME LiveIInv,
         promised' \subseteq promised,
         \A e \in promised' : running'[e.setting] = running[e.setting],
         startup' \in {startup, running},
         driver'.held = driver.held, driver'.deferred = driver.deferred,
         driver.unsaved => driver'.unsaved
  PROVE  PromisesLive'
<1> SUFFICES ASSUME NEW e \in promised'
             PROVE  /\ e.seen => running'[e.setting] = e.to
                    /\ e.saved = "saved" => e.seen /\ startup'[e.setting] = e.to
                    /\ e.saved = "due" => e.seen /\ driver'.held /\ driver'.deferred /\ driver'.unsaved
  BY DEF PromisesLive
<1>1. e \in promised
  OBVIOUS
<1> QED
  BY <1>1 DEF LiveIInv, PromisesLive

\* The call is at its end: it reports what the switch has, and has saved if it says so.
LEMMA SucceedLive ==
  ASSUME LiveIInv, call.stage # "idle", NEW settings, NEW saved, NEW seen,
         Succeed(settings, saved, seen), settings \subseteq Setting,
         seen /\ ~call.reloaded =>
            \A x \in settings \cap Touched(Lines) : running[x] = LastWritten(Lines, x),
         running' = running,
         startup' \in {startup, running},
         saved = "saved" => startup' = running /\ seen,
         saved = "due" => seen /\ driver'.deferred /\ driver'.unsaved,
         driver'.held = driver.held, driver'.deferred = driver.deferred,
         driver.unsaved => driver'.unsaved
  PROVE  PromisesLive' /\ CallLive'
<1>1. CallLive'
  BY IdleLive DEF Succeed, NoCall
<1>2. driver.held
  BY DEF LiveIInv, ConfigIInv, TypeOK
<1>3. ASSUME NEW e \in promised'
      PROVE  /\ e.seen => running'[e.setting] = e.to
             /\ e.saved = "saved" => e.seen /\ startup'[e.setting] = e.to
             /\ e.saved = "due" => e.seen /\ driver'.held /\ driver'.deferred /\ driver'.unsaved
  <2>1. CASE e \in promised
    BY <2>1 DEF LiveIInv, PromisesLive
  <2>2. CASE e \notin promised
    <3>1. ~call.reloaded /\ \E x \in settings \cap Touched(Lines) :
             e = [setting |-> x, to |-> LastWritten(Lines, x), saved |-> saved,
                  seen |-> seen]
      BY <2>2 DEF Succeed
    <3> QED
      BY <1>2, <3>1
  <2> QED
    BY <2>1, <2>2
<1> QED
  BY <1>1, <1>3 DEF PromisesLive

\* A write that raised is either read back, as one that raised, or over.
LEMMA RaiseLive ==
  ASSUME LiveIInv, call.stage # "idle", Raise, UNCHANGED session
  PROVE  CallLive'
<1>1. CASE call' = NoCall
  BY <1>1, IdleLive DEF NoCall
<1>2. CASE call' = [call EXCEPT !.stage = "verify", !.raised = TRUE]
  <2>1. /\ call'.stage = "verify" /\ call'.raised
        /\ call'.request = call.request /\ call'.reloaded = call.reloaded
    BY <1>2 DEF LiveIInv, ConfigIInv, TypeOK, Call
  <2>2. promised' = promised
    BY DEF Raise
  <2> QED
    BY <2>1, <2>2 DEF LiveIInv, CallLive, Lines, Answers
<1> QED
  BY <1>1, <1>2 DEF Raise

\* A write that came back is read back, or reported.
LEMMA CompleteLive ==
  ASSUME LiveIInv, call.stage = "save", Complete,
         UNCHANGED <<running, session>>,
         startup' \in {startup, running},
         driver'.held = driver.held, driver'.deferred = driver.deferred,
         IF driver.deferred THEN driver'.unsaved ELSE startup' = running /\ driver' = driver
  PROVE  PromisesLive' /\ CallLive'
<1>1. CASE env.verify /\ CheckedBy(call.request) # {}
  <2>1. call' = [call EXCEPT !.stage = "verify"] /\ promised' = promised
    BY <1>1 DEF Complete
  <2>2. /\ call'.stage = "verify" /\ call'.raised = call.raised
        /\ call'.request = call.request /\ call'.reloaded = call.reloaded
    BY <2>1 DEF LiveIInv, ConfigIInv, TypeOK, Call
  <2>3. PromisesLive'
    BY <2>1, PromisesStay
  <2>4. CallLive'
    BY <2>1, <2>2 DEF LiveIInv, CallLive, Lines, Answers, Realized
  <2> QED
    BY <2>3, <2>4
<1>2. CASE ~(env.verify /\ CheckedBy(call.request) # {})
  <2> DEFINE saved == IF driver.deferred THEN "due" ELSE "saved"
  <2>1. Succeed(Setting, saved, TRUE)
    BY <1>2 DEF Complete
  <2>2. ~call.reloaded => \A x \in Touched(Lines) : running[x] = LastWritten(Lines, x)
    BY DEF LiveIInv, CallLive, Realized
  <2> QED
    BY <2>1, <2>2, SucceedLive
<1> QED
  BY <1>1, <1>2

-----------------------------------------------------------------------------

\* The end of a run: what was due is saved, or nobody claims that it is.
LEMMA ClosedLive ==
  ASSUME LiveIInv, NEW saved \in {"live", "saved"}, Closed(saved), call.stage = "idle",
         startup' \in {startup, running},
         saved = "saved" => startup' = running \/ ~driver.unsaved
  PROVE  PromisesLive' /\ CallLive'
<1>1. CallLive'
  BY IdleLive DEF Closed
<1>2. ASSUME NEW d \in promised'
      PROVE  /\ d.seen => running'[d.setting] = d.to
             /\ d.saved = "saved" => d.seen /\ startup'[d.setting] = d.to
             /\ d.saved # "due"
  <2>1. PICK e \in promised : d = IF e.saved = "due" THEN [e EXCEPT !.saved = saved] ELSE e
    BY DEF Closed
  <2>2. e \in Promise /\ running' = running
    BY DEF Closed, LiveIInv, ConfigIInv, TypeOK
  <2>3. d.setting = e.setting /\ d.to = e.to /\ d.seen = e.seen
        /\ d.saved = IF e.saved = "due" THEN saved ELSE e.saved
    BY <2>1, <2>2 DEF Promise
  <2> QED
    BY <2>2, <2>3 DEF LiveIInv, PromisesLive
<1> QED
  BY <1>1, <1>2 DEF PromisesLive

LEMMA HoldingLive ==
  ASSUME LiveIInv, Holding
  PROVE  PromisesLive' /\ CallLive'
<1>1. ASSUME NEW deferred \in BOOLEAN, Open(deferred)
      PROVE  PromisesLive' /\ CallLive'
  <2>1. call'.stage = "idle"
    BY <1>1 DEF Open, LiveIInv, ConfigIInv, TypeOK
  <2>2. PromisesLive'
    BY <1>1 DEF Open, LiveIInv, PromisesLive
  <2> QED
    BY <2>1, <2>2, IdleLive
<1>2. CASE EnsureConnected
  <2>1. call'.stage = "idle"
    BY <1>2 DEF EnsureConnected
  <2>2. driver'.held = driver.held /\ driver'.deferred = driver.deferred
        /\ driver'.unsaved = driver.unsaved
    BY <1>2 DEF EnsureConnected, Reconnected, LiveIInv, ConfigIInv, TypeOK
  <2>3. PromisesLive'
    BY <1>2, <2>2, PromisesStay DEF EnsureConnected
  <2> QED
    BY <2>1, <2>3, IdleLive
<1>3. CASE CloseNothingUnsaved
  BY <1>3, ClosedLive DEF CloseNothingUnsaved
<1>4. CASE CloseSaved
  BY <1>4, ClosedLive DEF CloseSaved
<1>5. CASE CloseUnsaved
  BY <1>5, ClosedLive DEF CloseUnsaved
<1> QED
  BY <1>1, <1>2, <1>3, <1>4, <1>5 DEF Holding

\* A call that is under way, and the lines it sends.
LEMMA CallKnown ==
  ASSUME LiveIInv, call.stage # "idle"
  PROVE  /\ call \in Call /\ call.request \in Request
         /\ Lines \in Seq(Line) /\ Len(Lines) \in Nat \ {0}
         /\ Proper(Lines)
         /\ 1 \in Starts(Lines)
<1>1. call \in Call /\ call.request \in Request
  BY DEF LiveIInv, ConfigIInv, TypeOK
<1>2. Lines \in Seq(Line) /\ Lines # << >> /\ Proper(Lines)
  BY <1>1, CommandsKnown, CommandsProper DEF Lines
<1> HIDE DEF Lines
<1>3. Len(Lines) \in Nat \ {0} /\ 1 \in DOMAIN Lines
  BY <1>2
<1>4. BlockOf(Lines, 1) \in 1 .. 1
  BY <1>2, <1>3, BlockIs
<1>5. 1 \in Starts(Lines)
  BY <1>3, <1>4 DEF Starts
<1> QED
  BY <1>1, <1>2, <1>3, <1>5

\* Nothing is done at the start.
LEMMA NothingDone ==
  ASSUME NEW config, NEW lines
  PROVE  Done(config, lines, 1 - 1)
BY DEF Done

LEMMA BeginLive ==
  ASSUME LiveIInv, NEW r \in Request, Begin(r)
  PROVE  PromisesLive' /\ CallLive'
<1>1. PromisesLive'
  BY PromisesStay DEF Begin
<1>2. /\ call'.stage \in {"send", "enable"} /\ call'.request = r /\ call'.next = 1
      /\ ~call'.reloaded
  BY DEF Begin, NoCall
<1>3. \A e \in promised' : e.setting \notin Touched(Commands(r))
  BY DEF Begin
<1>4. Commands(r) \in Seq(Line) /\ Commands(r) # << >>
  BY CommandsKnown
<1>5. 1 \in Starts(Commands(r))
  <2>1. 1 \in DOMAIN Commands(r)
    BY <1>4
  <2>2. BlockOf(Commands(r), 1) \in 1 .. 1
    BY <1>4, <2>1, BlockIs
  <2> QED
    BY <2>1, <2>2 DEF Starts
<1>6. CallLive'
  BY <1>2, <1>3, <1>5, NothingDone DEF CallLive, Lines
<1> QED
  BY <1>1, <1>6

LEMMA SendBatchLive ==
  ASSUME LiveIInv, SendBatch
  PROVE  PromisesLive' /\ CallLive'
<1> DEFINE i == call.next
           batch == Batch(Lines, i)
<1>1. call.stage = "send" /\ i \in Starts(Lines) /\ ~call.reloaded /\ Done(running, Lines, i - 1)
      /\ \A e \in promised : e.setting \notin Touched(Lines) /\ e.setting \in Setting
  <2>1. call.stage = "send" /\ i <= Len(Lines) /\ Answers
    BY DEF SendBatch
  <2>2. \A e \in promised : e.setting \in Setting
    BY DEF LiveIInv, ConfigIInv, TypeOK, Promise
  <2>3. Len(Lines) \in Nat
    BY <2>1, CallKnown
  <2> QED
    BY <2>1, <2>2, <2>3 DEF LiveIInv, CallLive
<1>2. /\ Lines \in Seq(Line) /\ Proper(Lines) /\ i \in DOMAIN Lines /\ i \in Nat
      /\ Len(Lines) \in Nat /\ call \in Call
  BY <1>1, CallKnown DEF Starts, Call
<1>3. running' = Applied(running, batch)
  BY DEF SendBatch, Runs
<1>4. \A e \in promised : running'[e.setting] = running[e.setting]
  <2>1. batch \in Seq(Line)
    BY <1>1, <1>2, BatchIs
  <2>2. Len(batch) \in 0 .. Len(batch) /\ SubSeq(batch, 1, Len(batch)) = batch
    BY <2>1
  <2>3. \A x \in Setting :
           x \notin Touched(Lines)
              => Applied(running, SubSeq(batch, 1, Len(batch)))[x] = running[x]
    BY <1>1, <1>2, <2>2, PartElsewhere
  <2> HIDE DEF batch
  <2> QED
    BY <1>1, <1>3, <2>2, <2>3
<1>5. PromisesLive'
  BY <1>4, PromisesStay DEF SendBatch
<1>6. /\ call'.stage = "send" /\ call'.next = Following(Lines, i)
      /\ call'.request = call.request /\ ~call'.reloaded /\ promised' = promised
  BY <1>1, <1>2 DEF SendBatch, Call
<1>7. Following(Lines, i) \in Starts(Lines) \cup {Len(Lines) + 1}
  BY <1>2, FollowingIs
<1>8. Done(running', Lines, Following(Lines, i) - 1)
  BY <1>1, <1>2, <1>3, BatchDone
<1>9. Lines' = Lines
  BY <1>6 DEF Lines
<1> HIDE DEF Lines
<1>10. CallLive'
  BY <1>1, <1>6, <1>7, <1>8, <1>9 DEF CallLive
<1> QED
  BY <1>5, <1>10

LEMMA SendFailsLive ==
  ASSUME LiveIInv, SendFails
  PROVE  PromisesLive' /\ CallLive'
<1> DEFINE i == call.next
           batch == Batch(Lines, i)
<1>1. call.stage = "send" /\ i \in Starts(Lines)
      /\ \A e \in promised : e.setting \notin Touched(Lines) /\ e.setting \in Setting
  <2>1. call.stage = "send" /\ i <= Len(Lines)
    BY DEF SendFails
  <2>2. \A e \in promised : e.setting \in Setting
    BY DEF LiveIInv, ConfigIInv, TypeOK, Promise
  <2>3. Len(Lines) \in Nat
    BY <2>1, CallKnown
  <2> QED
    BY <2>1, <2>2, <2>3 DEF LiveIInv, CallLive
<1>2. Lines \in Seq(Line) /\ Proper(Lines) /\ call \in Call
  BY <1>1, CallKnown
<1>3. PICK n \in 0 .. Len(batch) : running' = Applied(running, SubSeq(batch, 1, n))
  <2>1. batch \in Seq(Line)
    BY <1>1, <1>2, BatchIs
  <2>2. Len(batch) \in Nat
    BY <2>1
  <2>3. \E n \in 0 .. IF Answers /\ session.privileged THEN Len(batch) ELSE 0 :
           running' = Applied(running, SubSeq(batch, 1, n))
    BY DEF SendFails, Runs
  <2> HIDE DEF batch
  <2> QED
    BY <2>2, <2>3
<1>4. \A e \in promised : running'[e.setting] = running[e.setting]
  <2>1. \A x \in Setting :
           x \notin Touched(Lines) => Applied(running, SubSeq(batch, 1, n))[x] = running[x]
    BY <1>1, <1>2, PartElsewhere
  <2> HIDE DEF batch
  <2> QED
    BY <1>1, <1>3, <2>1
<1>5. promised' = promised
  BY DEF SendFails, Raise
<1>6. PromisesLive'
  BY <1>4, <1>5, PromisesStay DEF SendFails
<1>7. CASE call.resent
  BY <1>1, <1>6, <1>7, RaiseLive DEF SendFails
<1>8. CASE ~call.resent
  <2>1. /\ call'.stage = "check" /\ call'.request = call.request
        /\ call'.reloaded = call.reloaded /\ session' = session
    BY <1>2, <1>8 DEF SendFails, Call
  <2>2. CallLive'
    BY <1>1, <1>5, <2>1 DEF LiveIInv, CallLive, Lines, Answers
  <2> QED
    BY <1>6, <2>2
<1> QED
  BY <1>7, <1>8

\* The other steps of a call.
LEMMA SettlingLive ==
  ASSUME LiveIInv,
         \/ Enable \/ EnableFails \/ Check \/ CheckFails \/ Sent
         \/ Defer \/ Save \/ SaveFails \/ Verify \/ VerifyFails
  PROVE  PromisesLive' /\ CallLive'
<1>1. /\ call.stage # "idle" /\ running' = running
      /\ startup' \in {startup, running}
  BY DEF Enable, EnableFails, Check, CheckFails, Sent, Defer, Save, SaveFails, Verify, VerifyFails
<1>2. /\ driver'.held = driver.held /\ driver'.deferred = driver.deferred
      /\ driver.unsaved => driver'.unsaved
  BY DEF LiveIInv, ConfigIInv, TypeOK,
         Enable, EnableFails, Check, CheckFails, Sent, Defer, Save, SaveFails, Verify, VerifyFails
<1>3. /\ call \in Call /\ call.request \in Request
      /\ Lines \in Seq(Line) /\ Len(Lines) \in Nat \ {0}
      /\ 1 \in Starts(Lines)
  BY <1>1, CallKnown
<1>4. ASSUME promised' = promised
      PROVE  PromisesLive'
  BY <1>1, <1>2, <1>4, PromisesStay
<1>5. session'.link = session.link
  BY DEF LiveIInv, ConfigIInv, TypeOK,
         Enable, EnableFails, Check, CheckFails, Sent, Defer, Save, SaveFails, Verify, VerifyFails
\* The stages from which the lines are sent: none of them has been, or all have.
<1>6. ASSUME Enable \/ Check \/ CheckFails \/ Sent
      PROVE  PromisesLive' /\ CallLive'
  <2>1. /\ promised' = promised
        /\ call'.request = call.request /\ call'.reloaded = call.reloaded
        /\ \/ call'.stage = "send" /\ call'.next = 1
           \/ /\ call'.stage = "save"
              /\ Sent \/ (Check /\ LooksApplied)
    <3>1. CASE Enable
      <4>1. call'.next = call.next /\ call.next = 1
        BY <1>3, <3>1 DEF Enable, LiveIInv, CallLive, Call
      <4> QED
        BY <1>3, <3>1, <4>1 DEF Enable, Call
    <3>2. CASE Check
      BY <1>3, <3>2 DEF Check, Resend, ToSave, Call
    <3>3. CASE CheckFails
      BY <1>3, <3>3 DEF CheckFails, Resend, Call
    <3>4. CASE Sent
      BY <1>3, <3>4 DEF Sent, ToSave, Call
    <3> QED
      BY <1>6, <3>1, <3>2, <3>3, <3>4
  <2>2. PromisesLive'
    BY <1>4, <2>1
  <2>3. Lines' = Lines /\ (Answers' => Answers)
    BY <1>5, <2>1 DEF Lines, Answers
  <2>4. CASE call'.stage = "send" /\ call'.next = 1
    <3>1. Done(running', Lines, call'.next - 1)
      BY <2>4, NothingDone
    <3> HIDE DEF Lines
    <3>2. CallLive'
      BY <1>1, <1>3, <2>1, <2>3, <2>4, <3>1 DEF LiveIInv, CallLive
    <3> QED
      BY <2>2, <3>2
  <2>5. CASE call'.stage = "save" /\ Sent
    <3>1. ~call.reloaded => Realized
      <4> SUFFICES ASSUME ~call.reloaded PROVE Realized
        OBVIOUS
      <4>1. call.stage = "send" /\ call.next > Len(Lines) /\ call.next \in Nat
        BY <1>3, <2>5 DEF Sent, Call
      <4>2. call.next \notin Starts(Lines)
        BY <1>3, <4>1 DEF Starts
      <4>3. Done(running, Lines, Len(Lines))
        <5>1. call.next = Len(Lines) + 1 /\ Done(running, Lines, call.next - 1)
          BY <4>1, <4>2 DEF LiveIInv, CallLive
        <5>2. call.next - 1 = Len(Lines)
          BY <1>3, <5>1
        <5> QED
          BY <5>1, <5>2
      <4> QED
        BY <1>3, <4>3, DoneIsLast DEF Realized
    <3> HIDE DEF Lines
    <3>2. CallLive'
      BY <1>1, <2>1, <2>3, <2>5, <3>1 DEF LiveIInv, CallLive, Realized
    <3> QED
      BY <2>2, <3>2
  <2>6. CASE call'.stage = "save" /\ Check /\ LooksApplied
    <3>1. Realized
      <4> SUFFICES ASSUME NEW x \in Touched(Lines)
                   PROVE  running[x] = LastWritten(Lines, x)
        BY DEF Realized
      <4>1. x \in Setting /\ \E j \in 1 .. Len(Lines) : Written(Lines, j) = x
        BY DEF Touched, Writers
      <4>2. PICK m \in 1 .. Len(Lines) :
               /\ Written(Lines, m) = x
               /\ \A j \in 1 .. Len(Lines) : m < j => Written(Lines, j) # x
        BY <1>3, <4>1, LastWriterExists
      <4>3. LastWritten(Lines, x) = Lines[m].to
        BY <1>3, <4>1, <4>2, LastWriterIs
      <4>4. m # 1
        <5> SUFFICES ASSUME m = 1 PROVE FALSE
          OBVIOUS
        <5>1. Lines[1].line = "interface" /\ Lines[1].what = "none"
          <6>1. Lines[1].line = "interface" /\ 1 \in DOMAIN Lines
            BY <1>3, <2>6 DEF LooksApplied
          <6> QED
            BY <1>1, <6>1, CallKnown DEF Proper
        <5>2. x.what = "none"
          BY <4>2, <5>1 DEF Written
        <5> QED
          BY <4>1, <5>2, CiscoAssumption DEF Setting, PortWhat
      <4>5. /\ m \in 2 .. Len(Lines)
            /\ \A i \in 2 .. Len(Lines) : Lines[i].line = "sub"
            /\ running[[at |-> Lines[1].at, what |-> Lines[m].what]] = Lines[m].to
        <5>1. m \in 2 .. Len(Lines)
          BY <1>3, <4>2, <4>4
        <5> QED
          BY <2>6, <5>1 DEF LooksApplied
      <4>6. Entered(Lines, m) = Lines[1].at
        <5>1. m \in DOMAIN Lines /\ 1 \in 1 .. m /\ Lines[1].line = "interface"
          BY <1>3, <2>6, <4>2 DEF LooksApplied
        <5>2. \A k \in (1 + 1) .. m : Lines[k].line \notin {"interface", "exit"}
          <6>1. \A k \in (1 + 1) .. m : k \in 2 .. Len(Lines)
            BY <1>3, <4>5
          <6> QED
            BY <4>5, <6>1
        <5> QED
          BY <1>3, <5>1, <5>2, EnteredIs
      <4>7. x = [at |-> Lines[1].at, what |-> Lines[m].what]
        BY <4>2, <4>5, <4>6 DEF Written
      <4> QED
        BY <4>3, <4>5, <4>7
    <3> HIDE DEF Lines
    <3>2. CallLive'
      BY <1>1, <2>1, <2>3, <2>6, <3>1 DEF LiveIInv, CallLive, Realized
    <3> QED
      BY <2>2, <3>2
  <2> QED
    BY <2>1, <2>4, <2>5, <2>6
<1>7. ASSUME EnableFails \/ SaveFails
      PROVE  PromisesLive' /\ CallLive'
  <2>1. promised' = promised /\ Raise /\ session' = session
    BY <1>7 DEF EnableFails, SaveFails, Raise
  <2> QED
    BY <1>1, <1>4, <2>1, RaiseLive
<1>8. ASSUME Defer
      PROVE  PromisesLive' /\ CallLive'
  <2>1. driver'.unsaved
    BY <1>8 DEF Defer, LiveIInv, ConfigIInv, TypeOK
  <2> QED
    BY <1>2, <1>8, <2>1, CompleteLive DEF Defer
<1>9. ASSUME Save
      PROVE  PromisesLive' /\ CallLive'
  BY <1>9, CompleteLive DEF Save
<1>10. ASSUME Verify \/ VerifyFails
       PROVE  PromisesLive' /\ CallLive'
  <2> DEFINE saved == IF driver.deferred THEN "due" ELSE "saved"
  <2>1. /\ call.stage = "verify" /\ startup' = startup /\ driver' = driver
        /\ \/ call' = NoCall /\ promised' = promised
           \/ Succeed(CheckedBy(call.request), "live", Confirms(running, call.request))
           \/ ~call.raised /\ Succeed(Setting, saved, TRUE)
    BY <1>10 DEF Verify, VerifyFails
  <2>2. CASE call' = NoCall /\ promised' = promised
    BY <1>4, <2>2, IdleLive DEF NoCall
  <2>3. CASE Succeed(CheckedBy(call.request), "live", Confirms(running, call.request))
    <3>1. CheckedBy(call.request) \subseteq Setting
      BY <1>3 DEF CheckedBy, Request, Setting, PortWhat
    <3>2. Confirms(running, call.request) =>
             \A x \in CheckedBy(call.request) \cap Touched(Lines) : running[x] = LastWritten(Lines, x)
      BY <1>3, ConfirmedIsWritten DEF Lines
    <3> QED
      BY <1>1, <1>2, <2>3, <3>1, <3>2, SucceedLive
  <2>4. CASE ~call.raised /\ Succeed(Setting, saved, TRUE)
    <3>1. /\ ~call.reloaded => \A x \in Touched(Lines) : running[x] = LastWritten(Lines, x)
          /\ IF driver.deferred THEN driver.unsaved ELSE startup = running
      BY <2>1, <2>4 DEF LiveIInv, CallLive, Realized
    <3> QED
      BY <1>1, <1>2, <2>1, <2>4, <3>1, SucceedLive
  <2> QED
    BY <2>1, <2>2, <2>3, <2>4
<1> QED
  BY <1>6, <1>7, <1>8, <1>9, <1>10

\* The switch loses the session, or comes back with what was saved.
LEMMA SwitchLive ==
  ASSUME LiveIInv, Drop \/ Reload
  PROVE  PromisesLive' /\ CallLive'
<1>1. CASE Drop
  <2>1. PromisesLive'
    BY <1>1, PromisesStay DEF Drop
  <2>2. ~Answers'
    BY <1>1 DEF Drop, Answers, LiveIInv, ConfigIInv, TypeOK
  <2>3. CallLive'
    BY <1>1, <2>2 DEF Drop, LiveIInv, CallLive, Lines, Realized
  <2> QED
    BY <2>1, <2>3
<1>2. CASE Reload
  <2>1. /\ running' = startup /\ startup' = startup /\ driver' = driver
        /\ promised' = {e \in promised : e.saved = "saved"}
    BY <1>2 DEF Reload
  <2>2. PromisesLive'
    BY <2>1 DEF LiveIInv, PromisesLive
  <2>3. ~Answers'
    BY <1>2 DEF Reload, Answers, LiveIInv, ConfigIInv, TypeOK
  <2>4. CASE call.stage = "idle"
    BY <1>2, <2>2, <2>4, IdleLive DEF Reload
  <2>5. CASE call.stage # "idle"
    <3>1. /\ call'.reloaded /\ call'.stage = call.stage /\ call'.next = call.next
          /\ call'.request = call.request /\ call'.raised = call.raised
      BY <1>2, <2>5 DEF Reload, LiveIInv, ConfigIInv, TypeOK, Call
    <3>2. Lines' = Lines
      BY <3>1 DEF Lines
    <3> HIDE DEF Lines
    <3>3. CallLive'
      BY <2>1, <2>3, <2>5, <3>1, <3>2 DEF LiveIInv, CallLive
    <3> QED
      BY <2>2, <3>3
  <2> QED
    BY <2>4, <2>5
<1> QED
  BY <1>1, <1>2

LEMMA LiveInit == Init => LiveIInv
<1> SUFFICES ASSUME Init PROVE LiveIInv
  OBVIOUS
<1>1. promised = {} /\ call.stage = "idle"
  BY DEF Init, NoCall
<1> QED
  BY <1>1, ConfigInit DEF LiveIInv, PromisesLive, CallLive

LEMMA LiveStep == LiveIInv /\ [Next]_vars => LiveIInv'
<1> SUFFICES ASSUME LiveIInv, [Next]_vars PROVE LiveIInv'
  OBVIOUS
<1>1. ConfigIInv'
  BY ConfigStep DEF LiveIInv
<1>2. CASE UNCHANGED vars
  BY <1>2 DEF vars, LiveIInv, ConfigIInv, TypeOK, ConfirmedIsPrivileged, PromisesLive, CallLive,
              Lines, Answers, Realized
<1>3. CASE Writing
  <2>1. PromisesLive' /\ CallLive'
    BY <1>3, SendBatchLive, SendFailsLive, SettlingLive DEF Writing
  <2> QED
    BY <1>1, <2>1 DEF LiveIInv
<1> QED
  BY <1>1, <1>2, <1>3, HoldingLive, BeginLive, SwitchLive DEF Next, LiveIInv

\* A setting a call reported as applied is live on the switch, however the lines were cut
\* into batches, whatever failed and was sent again, and whatever other calls did since:
\* all but the trunk whose write raised and for which another port's line was taken.
THEOREM ConfigReportedIsLive == Spec => []ReportedIsLive
<1>1. LiveIInv => ReportedIsLive
  BY DEF LiveIInv, PromisesLive, ReportedIsLive
<1> QED
  BY <1>1, LiveInit, LiveStep, PTL DEF Spec

\* A setting reported as applied and saved is in the startup-config: what the commit of a
\* run leaves out had been saved, also when the session was reopened on the way.
THEOREM ConfigPromisedSurvives == Spec => []PromisedSurvivesReload
<1>1. LiveIInv => PromisedSurvivesReload
  BY DEF LiveIInv, PromisesLive, PromisedSurvivesReload
<1> QED
  BY <1>1, LiveInit, LiveStep, PTL DEF Spec

-----------------------------------------------------------------------------
(***************************************************************************)
(* delete_vlan.  The line that takes the VLAN away is the last one, and it *)
(* is run with its whole batch or not at all: when it has been run, every  *)
(* port was cleared first, in this batch or in one before.                 *)
(***************************************************************************)

LEMMA DeleteLines ==
  ASSUME NEW v \in Vlan, NEW ports \in PortList, NEW i \in DOMAIN DeleteVlan(v, ports)
  PROVE  LET lines == DeleteVlan(v, ports)
         IN  /\ lines[i].what = "access" => lines[i].to = Default
             /\ lines[i].what = "vlan" => i = Len(lines)
<1> DEFINE lines == DeleteVlan(v, ports)
           n == Len(ports)
<1>1. /\ n \in Nat
      /\ lines \in Seq(Line) /\ Len(lines) = 3 * n + 1
      /\ lines[3 * n + 1] = NoVlan(v)
      /\ \A j \in 1 .. 3 * n :
            /\ j % 3 \in 0 .. 2
            /\ j % 3 = 1 => lines[j] = Interface(ports[(j + 2) \div 3])
            /\ j % 3 = 2 => lines[j] = Sub("access", Default)
            /\ j % 3 = 0 => lines[j] = Exit
  BY DeleteVlanIs
<1> HIDE DEF lines, n
<1>2. i \in 1 .. 3 * n \/ i = 3 * n + 1
  <2>1. i \in 1 .. Len(lines)
    BY <1>1 DEF lines
  <2> QED
    BY <1>1, <2>1
<1>3. ASSUME i = 3 * n + 1
      PROVE  lines[i].what = "vlan" /\ i = Len(lines)
  BY <1>1, <1>3 DEF NoVlan
<1>4. ASSUME i \in 1 .. 3 * n, i % 3 = 1
      PROVE  lines[i].what = "none"
  <2>1. \A p : Interface(p).what = "none"
    BY DEF Interface
  <2> QED
    BY <1>1, <1>4, <2>1
<1>5. ASSUME i \in 1 .. 3 * n, i % 3 = 2
      PROVE  lines[i].what = "access" /\ lines[i].to = Default
  BY <1>1, <1>5 DEF Sub
<1>6. ASSUME i \in 1 .. 3 * n, i % 3 = 0
      PROVE  lines[i].what = "none"
  BY <1>1, <1>6 DEF Exit
<1>7. /\ lines[i].what = "access" => lines[i].to = Default
      /\ lines[i].what = "vlan" => i = Len(lines)
  BY <1>1, <1>2, <1>3, <1>4, <1>5, <1>6
<1> QED
  BY <1>7 DEF lines

\* All of its lines run, none of its ports belongs to any VLAN but the default one.
LEMMA DeleteClears ==
  ASSUME NEW v \in Vlan, NEW ports \in PortList, NEW a \in DOMAIN ports, NEW config,
         Done(config, DeleteVlan(v, ports), Len(DeleteVlan(v, ports)))
  PROVE  config[[at |-> ports[a], what |-> "access"]] = Default
<1> DEFINE lines == DeleteVlan(v, ports)
           n == Len(ports)
           y == [at |-> ports[a], what |-> "access"]
           i == 3 * a - 1
<1>1. /\ n \in Nat /\ ports \in [1 .. n -> Port]
      /\ lines \in Seq(Line) /\ Len(lines) = 3 * n + 1
      /\ \A j \in 1 .. 3 * n :
            /\ j % 3 = 1 => lines[j] = Interface(ports[(j + 2) \div 3])
            /\ j % 3 = 2 => lines[j] = Sub("access", Default)
  BY DeleteVlanIs
<1>2. a \in 1 .. n /\ ports[a] \in Port
  BY <1>1
<1>3. y \in Setting
  BY <1>2 DEF Setting, PortWhat
<1>4. \A m \in DOMAIN lines : lines[m].what = "access" => lines[m].to = Default
  BY DeleteLines
<1>5. Done(config, lines, Len(lines))
  OBVIOUS
<1> HIDE DEF lines, n, y
<1>6. /\ i \in 1 .. 3 * n /\ i % 3 = 2
      /\ i - 1 \in 1 .. 3 * n /\ (i - 1) % 3 = 1 /\ ((i - 1) + 2) \div 3 = a
  BY <1>1, <1>2
<1>7. lines[i] = Sub("access", Default) /\ lines[i - 1] = Interface(ports[a])
  BY <1>1, <1>6
<1>8. Written(lines, i) = y
  <2>1. lines[i].line = "sub" /\ lines[i].what = "access"
        /\ lines[i - 1].line = "interface" /\ lines[i - 1].at = ports[a]
    BY <1>7 DEF Sub, Interface
  <2>2. i \in DOMAIN lines /\ i - 1 \in 1 .. i
    BY <1>1, <1>6
  <2>3. \A k \in ((i - 1) + 1) .. i : lines[k].line \notin {"interface", "exit"}
    <3>1. i \in Nat
      BY <1>6
    <3> HIDE DEF i
    <3>2. \A k \in ((i - 1) + 1) .. i : k = i
      BY <3>1
    <3> QED
      BY <2>1, <3>2
  <2> HIDE DEF i
  <2>4. Entered(lines, i) = ports[a]
    BY <1>1, <2>1, <2>2, <2>3, EnteredIs
  <2> QED
    BY <2>1, <2>4 DEF Written, y
<1>9. PICK m \in 1 .. Len(lines) :
         Written(lines, m) = y /\ \A j \in 1 .. Len(lines) : m < j => Written(lines, j) # y
  <2>1. i \in 1 .. Len(lines) /\ Len(lines) \in 0 .. Len(lines)
    BY <1>1, <1>6
  <2> HIDE DEF i
  <2> QED
    BY <1>1, <1>3, <1>8, <2>1, LastWriterExists
<1>10. config[y] = lines[m].to
  BY <1>3, <1>5, <1>9 DEF Done
<1>11. lines[m].what = "access" /\ m \in DOMAIN lines
  BY <1>1, <1>9 DEF Written, y
<1> QED
  BY <1>4, <1>10, <1>11 DEF y

\* A step that takes the VLAN away has run all the lines of its call.
LEMMA VlanGoesLast ==
  ASSUME LiveIInv, SendBatch \/ SendFails, NEW v \in Vlan,
         call.request.op = "delete_vlan", call.request.vlan = v,
         running'[[at |-> v, what |-> "vlan"]] # running[[at |-> v, what |-> "vlan"]]
  PROVE  Done(running', Lines, Len(Lines))
<1> DEFINE i == call.next
           batch == Batch(Lines, i)
           f == Following(Lines, i)
           x == [at |-> v, what |-> "vlan"]
<1>1. call.stage = "send" /\ i <= Len(Lines)
  BY DEF SendBatch, SendFails
<1>2. /\ Lines \in Seq(Line) /\ Proper(Lines) /\ Len(Lines) \in Nat
      /\ call.request \in Request /\ call \in Call
  BY <1>1, CallKnown
<1>3. i \in Starts(Lines) /\ i \in DOMAIN Lines
  BY <1>1, <1>2 DEF LiveIInv, CallLive, Starts
<1>4. batch \in Seq(Line) /\ Len(batch) \in Nat /\ f \in (i + 1) .. (Len(Lines) + 1)
      /\ Place(Lines, i, f - 1) = Len(batch)
  BY <1>2, <1>3, BatchIs, FollowingIs
<1>5. x \in Setting
  BY DEF Setting
<1>6. \A k \in DOMAIN Lines : Written(Lines, k) = x => k = Len(Lines)
  <2>1. call.request.ports \in PortList /\ Lines = DeleteVlan(v, call.request.ports)
    BY <1>2 DEF Request, Lines, Commands
  <2>2. \A k \in DOMAIN Lines : Lines[k].what = "vlan" => k = Len(Lines)
    BY <2>1, DeleteLines
  <2> QED
    BY <2>2 DEF Written
<1>7. \A p \in 1 .. Len(batch) : Written(batch, p) = x => p = Len(batch) /\ f - 1 = Len(Lines)
  <2> SUFFICES ASSUME NEW p \in 1 .. Len(batch), Written(batch, p) = x
               PROVE  p = Len(batch) /\ f - 1 = Len(Lines)
    OBVIOUS
  <2>1. PICK k \in i .. (f - 1) : p = Place(Lines, i, k) /\ Written(Lines, k) = x
    BY <1>2, <1>3, <1>5, BatchWrites
  <2>2. k = Len(Lines)
    BY <1>2, <1>3, <1>4, <1>6, <2>1
  <2>3. k = f - 1
    BY <1>2, <1>3, <1>4, <2>1, <2>2
  <2> QED
    BY <1>4, <2>1, <2>2, <2>3
<1> HIDE DEF batch, f
<1>8. PICK n \in 0 .. Len(batch) :
         /\ running' = Applied(running, SubSeq(batch, 1, n))
         /\ n # 0 => Answers
  <2>1. CASE SendBatch
    <3>1. running' = Applied(running, batch) /\ Answers
      BY <2>1 DEF SendBatch, Runs, batch
    <3>2. SubSeq(batch, 1, Len(batch)) = batch /\ Len(batch) \in 0 .. Len(batch)
      BY <1>4
    <3> QED
      BY <3>1, <3>2
  <2>2. CASE SendFails
    <3>1. PICK n \in 0 .. IF Answers /\ session.privileged THEN Len(batch) ELSE 0 :
             running' = Applied(running, SubSeq(batch, 1, n))
      BY <2>2 DEF SendFails, Runs, batch
    <3>2. n \in 0 .. Len(batch) /\ (n # 0 => Answers)
      BY <1>4, <3>1
    <3> QED
      BY <3>1, <3>2
  <2> QED
    BY <2>1, <2>2
<1> DEFINE part == SubSeq(batch, 1, n)
<1>9. part \in Seq(Line) /\ Len(part) = n /\ \A p \in 1 .. n : Written(part, p) = Written(batch, p)
  BY <1>4, PrefixIs
<1> HIDE DEF part
<1>10. running' = Applied(running, part)
  BY <1>8 DEF part
<1>11. PICK p \in 1 .. n : Written(batch, p) = x
  <2>1. \E p \in 1 .. Len(part) : Written(part, p) = x
    BY <1>5, <1>9, <1>10, AppliedIs
  <2> QED
    BY <1>9, <2>1
<1>12. n = Len(batch) /\ f - 1 = Len(Lines) /\ Answers
  BY <1>4, <1>7, <1>8, <1>11
<1>13. part = batch
  BY <1>4, <1>12 DEF part
<1>14. Done(running, Lines, i - 1)
  BY <1>1, <1>3, <1>12 DEF LiveIInv, CallLive, Starts
<1>15. Done(Applied(running, Batch(Lines, i)), Lines, Following(Lines, i) - 1)
  BY <1>2, <1>3, <1>14, BatchDone
<1> QED
  BY <1>10, <1>12, <1>13, <1>15 DEF batch, f

\* No interface is left on a VLAN that delete_vlan took away, if it was given the ports of
\* that VLAN, wherever the switch stopped answering.
THEOREM ConfigNoPortOrphaned == Spec => NoPortOrphaned
<1> DEFINE Cleared ==
      \A v \in Vlan :
         /\ call.request.op = "delete_vlan" /\ call.request.vlan = v /\ call.stage = "send"
         /\ running[[at |-> v, what |-> "vlan"]] # Default
         /\ running'[[at |-> v, what |-> "vlan"]] = Default
         /\ ~call'.reloaded
         => \A i \in DOMAIN call.request.ports :
               running'[[at |-> call.request.ports[i], what |-> "access"]] # v
<1>1. LiveIInv /\ [Next]_vars => [Cleared]_vars
  <2> SUFFICES ASSUME LiveIInv, [Next]_vars, NEW v \in Vlan,
                      call.request.op = "delete_vlan", call.request.vlan = v,
                      call.stage = "send",
                      running[[at |-> v, what |-> "vlan"]] # Default,
                      running'[[at |-> v, what |-> "vlan"]] = Default,
                      ~call'.reloaded,
                      NEW i \in DOMAIN call.request.ports
               PROVE  running'[[at |-> call.request.ports[i], what |-> "access"]] # v
    BY DEF vars
  <2>1. running' # running
    OBVIOUS
  <2>2. SendBatch \/ SendFails
    <3>1. ~Holding
      BY <2>1 DEF Holding, Open, EnsureConnected, CloseNothingUnsaved, CloseSaved, CloseUnsaved, Closed
    <3>2. \A r \in Request : ~Begin(r)
      BY <2>1 DEF Begin
    <3>3. ~Drop
      BY <2>1 DEF Drop
    <3>4. ~Reload
      BY DEF Reload, LiveIInv, ConfigIInv, TypeOK, Call
    <3>5. ~(UNCHANGED vars)
      BY <2>1 DEF vars
    <3>6. Writing
      BY <3>1, <3>2, <3>3, <3>4, <3>5 DEF Next
    <3> QED
      BY <2>1, <3>6 DEF Writing, Enable, EnableFails, Check, CheckFails, Sent, Defer, Save,
                        SaveFails, Verify, VerifyFails
  <2>3. Done(running', Lines, Len(Lines))
    BY <2>2, VlanGoesLast
  <2>4. call.request \in Request
    BY CallKnown
  <2>5. call.request.ports \in PortList /\ Lines = DeleteVlan(v, call.request.ports)
    BY <2>4 DEF Request, Lines, Commands
  <2>6. running'[[at |-> call.request.ports[i], what |-> "access"]] = Default
    BY <2>3, <2>5, DeleteClears
  <2> QED
    BY <2>6, CiscoAssumption DEF Default
<1>2. LiveIInv /\ [Next]_vars => LiveIInv'
  BY LiveStep
<1>3. NoPortOrphaned <=> [][Cleared]_vars
  BY DEF NoPortOrphaned
<1> QED
  BY <1>1, <1>2, <1>3, LiveInit, PTL DEF Spec

=============================================================================
