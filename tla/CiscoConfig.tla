---------------------------- MODULE CiscoConfig ----------------------------
(***************************************************************************)
(* Configuration writes of drivers/cisco_driver.py: one driver object, the *)
(* switch it writes to, and the run of calls made over one held session.   *)
(*                                                                         *)
(* A call sends its command lines in batches (_execute_config_commands).   *)
(* The switch may apply some of a batch and stop answering: the driver     *)
(* then reads the interface back, and sends everything again unless the    *)
(* read shows every line.  A call is saved to flash at once, or marked     *)
(* unsaved for the commit that closes the run.  With CISCO_VERIFY_WRITES   *)
(* three of the calls are settled by reading the switch back.              *)
(*                                                                         *)
(* The switch is external: it runs the lines it has read in order, a       *)
(* sub-command acts on the interface entered last, it refuses no line, and *)
(* it may stop answering, drop the session or reload at any time.          *)
(***************************************************************************)
EXTENDS Naturals, Sequences, FiniteSetsExt

CONSTANTS Port, Vlan,
          None,       \* no interface entered, no VLAN meant
          Prefix,     \* <<p, q>>: the short name of p begins that of q (Fa0/1, Fa0/13)
          MaxLines,   \* _MAX_CONFIG_LINES
          MaxPorts,   \* bound on the ports one delete_vlan clears
          MaxRuns,    \* bound on the sessions opened
          MaxCalls,   \* bound on the calls
          MaxFaults   \* bound on the switch's failures

ASSUME CiscoAssumption ==
    /\ None \notin Port \cup Vlan
    /\ {"default", "none", "vlan"} \cap Vlan = {}
    /\ Port \cap Vlan = {}
    /\ Prefix \subseteq Port \X Port
    /\ MaxLines \in Nat /\ MaxLines >= 2
    /\ {MaxPorts, MaxRuns, MaxCalls, MaxFaults} \subseteq Nat

VARIABLES running,   \* running-config: the value of every setting
          startup,   \* startup-config, what a reload comes back with
          session,   \* [link, privileged]: the SSH session and its mode
          driver,    \* [held, confirmed, unsaved, deferred]: the driver object
          env,       \* [verify, secret]: CISCO_VERIFY_WRITES, an enable secret is set
          call,      \* the call under way
          promised,  \* history: settings reported as applied
          changed,   \* history: the run changed the switch since it was last saved
          count      \* [runs, calls, faults] so far

vars == <<running, startup, session, driver, env, call, promised, changed, count>>

-----------------------------------------------------------------------------
(***************************************************************************)
(* Settings and command lines.  A running-config prints a setting only     *)
(* when it is not at its default.                                          *)
(***************************************************************************)

Default == "default"
PortWhat == {"state", "description", "mode", "access", "port-security", "sticky"}

\* [at : p, what : v] is the place of v on the list a trunk port allows.
Setting == [at : Port, what : PortWhat \cup Vlan] \cup [at : Vlan, what : {"vlan"}]
Value == {Default, "down", "enabled", "disabled", "access", "trunk", "on", "present",
          "removed"} \cup Vlan
Factory == [x \in Setting |-> Default]

Line == [line : {"interface", "sub", "global", "exit"},
         at : Port \cup Vlan \cup {None},
         what : PortWhat \cup Vlan \cup {"vlan", "none"},
         to : Value]

Interface(p) == [line |-> "interface", at |-> p, what |-> "none", to |-> Default]
Sub(what, to) == [line |-> "sub", at |-> None, what |-> what, to |-> to]
Exit == [line |-> "exit", at |-> None, what |-> "none", to |-> Default]
MakeVlan(v) == [line |-> "global", at |-> v, what |-> "vlan", to |-> "present"]
NoVlan(v) == [line |-> "global", at |-> v, what |-> "vlan", to |-> Default]
NoOpLine == Sub("none", Default)   \* a line whose setting never leaves its default here

\* The interface that line i acts on: the one entered last and not left since.
Entered(lines, i) ==
    LET k == Max({0} \cup {j \in 1 .. i : lines[j].line \in {"interface", "exit"}})
    IN  IF k = 0 THEN None ELSE lines[k].at

\* The setting that line i writes, when it writes one.
Written(lines, i) ==
    [at   |-> IF lines[i].line = "sub" THEN Entered(lines, i) ELSE lines[i].at,
     what |-> lines[i].what]

Writers(lines, x) == {i \in DOMAIN lines : Written(lines, i) = x}
Touched(lines) == {x \in Setting : Writers(lines, x) # {}}
LastWritten(lines, x) == lines[Max(Writers(lines, x))].to

\* The configuration once the switch has run the lines.
Applied(config, lines) ==
    [x \in Setting |-> IF x \in Touched(lines) THEN LastWritten(lines, x) ELSE config[x]]

-----------------------------------------------------------------------------
(***************************************************************************)
(* The calls.                                                              *)
(***************************************************************************)

PortList == UNION {[1 .. n -> Port] : n \in 0 .. MaxPorts}

Request ==
    [op : {"enable_port", "disable_port", "configure_port_security"},
     ports : [1 .. 1 -> Port], vlan : {None}]
    \cup [op : {"assign_vlan_to_port", "configure_uplink_trunk", "remove_vlan_from_trunk"},
          ports : [1 .. 1 -> Port], vlan : Vlan]
    \cup [op : {"create_vlan"}, ports : {<< >>}, vlan : Vlan]
    \cup [op : {"delete_vlan"}, ports : PortList, vlan : Vlan]

\* delete_vlan, three lines for each port: the ports leave the VLAN before it goes.
ClearPorts(ports) ==
    [i \in 1 .. 3 * Len(ports) |->
        CASE i % 3 = 1 -> Interface(ports[(i + 2) \div 3])
          [] i % 3 = 2 -> Sub("access", Default)
          [] i % 3 = 0 -> Exit]

\* A bug: the VLAN goes first.
DeleteVlanFirst(v, ports) == <<NoVlan(v)>> \o ClearPorts(ports)

DeleteVlan(v, ports) == Append(ClearPorts(ports), NoVlan(v))

EnablePort(p) == <<Interface(p), Sub("state", Default), Sub("description", "enabled")>>
DisablePort(p) == <<Interface(p), Sub("state", "down"), Sub("description", "disabled")>>
CreateVlan(v) == <<MakeVlan(v), NoOpLine, Exit>>
AssignVlan(p, v) ==
    <<Interface(p), Sub("mode", "access"), Sub("access", v), Sub("state", Default)>>
ConfigureUplinkTrunk(p, v) ==
    <<Interface(p), Sub("mode", "trunk"), NoOpLine, Sub(v, Default), Sub("state", Default)>>
RemoveVlanFromTrunk(p, v) == <<Interface(p), Sub(v, "removed")>>
ConfigurePortSecurity(p) ==
    <<Interface(p), Sub("mode", "access"), Sub("port-security", "on"), NoOpLine, NoOpLine,
      Sub("sticky", "on")>>

Commands(r) ==
    CASE r.op = "enable_port" -> EnablePort(r.ports[1])
      [] r.op = "disable_port" -> DisablePort(r.ports[1])
      [] r.op = "create_vlan" -> CreateVlan(r.vlan)
      [] r.op = "delete_vlan" -> DeleteVlan(r.vlan, r.ports)
      [] r.op = "assign_vlan_to_port" -> AssignVlan(r.ports[1], r.vlan)
      [] r.op = "configure_uplink_trunk" -> ConfigureUplinkTrunk(r.ports[1], r.vlan)
      [] r.op = "remove_vlan_from_trunk" -> RemoveVlanFromTrunk(r.ports[1], r.vlan)
      [] r.op = "configure_port_security" -> ConfigurePortSecurity(r.ports[1])

\* The calls of a provisioning run, the one run that defers its save; clear_vlans is one
\* delete_vlan without ports for each VLAN, whose failures it only logs.
Provisioning(r) ==
    \/ r.op \in {"create_vlan", "assign_vlan_to_port", "configure_port_security",
                 "configure_uplink_trunk"}
    \/ r.op = "delete_vlan" /\ r.ports = << >>

\* The calls that go through _write_then_verify, and the settings it reads back.
CheckedBy(r) ==
    CASE r.op = "create_vlan" -> {[at |-> r.vlan, what |-> "vlan"]}
      [] r.op = "assign_vlan_to_port" ->
            {[at |-> r.vlan, what |-> "vlan"], [at |-> r.ports[1], what |-> "access"]}
      [] r.op = "configure_uplink_trunk" ->
            {[at |-> r.vlan, what |-> "vlan"], [at |-> r.ports[1], what |-> "mode"],
             [at |-> r.ports[1], what |-> r.vlan]}
      [] OTHER -> {}

\* verify_vlan_exists, verify_port_access_vlan and verify_trunk_carries_vlan.
Confirms(config, r) ==
    \A x \in CheckedBy(r) :
        config[x] = IF x.at \in Vlan THEN "present" ELSE LastWritten(Commands(r), x)

\* verify_trunk_carries_vlan takes any line that begins with the port's name for the port's,
\* and finds in it all VLANs but those of the list's first item: another port may answer.
Misread(config, r) ==
    /\ r.op = "configure_uplink_trunk"
    /\ \E q \in Port : <<r.ports[1], q>> \in Prefix
                       /\ Confirms(config, [r EXCEPT !.ports = <<q>>])

\* The table it reads leaves out a trunk whose link is down.
Overlooked(r) == r.op = "configure_uplink_trunk"

-----------------------------------------------------------------------------
(***************************************************************************)
(* The batches a call is sent in.                                          *)
(***************************************************************************)

\* A bug: the whole call is one block of its first interface.
BlockOfFirst(lines, i) == 1

\* _interface_blocks: the line that opens the block line i is in.
BlockOf(lines, i) == Max({1} \cup {k \in 1 .. i : lines[k].line = "interface"})

BlockLength(lines, b) == Cardinality({i \in DOMAIN lines : BlockOf(lines, i) = b})

\* A block of an interface that is too long goes out MaxLines - 1 sub-commands at a time.
Starts(lines) ==
    {i \in DOMAIN lines :
        LET b == BlockOf(lines, i)
        IN  \/ i = b
            \/ /\ lines[b].line = "interface"
               /\ BlockLength(lines, b) > MaxLines
               /\ i > b + 1 /\ (i - b - 1) % (MaxLines - 1) = 0}

Following(lines, i) == Min({Len(lines) + 1} \cup {k \in Starts(lines) : k > i})

\* The batch that starts at line i, under the header of its block.
Batch(lines, i) ==
    LET b == BlockOf(lines, i)
        sent == SubSeq(lines, i, Following(lines, i) - 1)
    IN  IF i = b THEN sent ELSE <<lines[b]>> \o sent

-----------------------------------------------------------------------------

Stages == {"idle", "enable", "send", "check", "save", "verify"}
NoRequest == [op |-> "none", ports |-> << >>, vlan |-> None]
NoCall == [stage |-> "idle", request |-> NoRequest, next |-> 1, resent |-> FALSE,
           raised |-> FALSE, reloaded |-> FALSE]
Call == [stage : Stages, request : Request \cup {NoRequest}, next : Nat \ {0},
         resent : BOOLEAN,      \* the batches are being sent a second time
         raised : BOOLEAN,      \* the write raised, and its read-back is pending
         reloaded : BOOLEAN]    \* history: the switch reloaded during the call

\* A promise is "due" until the commit of its run, and "live" when nobody said it was saved.
\* One that is not "seen" rests on another port's line alone.
Promise == [setting : Setting, to : Value, saved : {"live", "due", "saved"}, seen : BOOLEAN]

NoDriver == [held |-> FALSE, confirmed |-> FALSE, unsaved |-> FALSE, deferred |-> FALSE]
Lines == Commands(call.request)
Answers == session.link = "up"

Init == /\ running = Factory /\ startup = Factory
        /\ session = [link |-> "none", privileged |-> FALSE]
        /\ driver = NoDriver
        /\ env \in [verify : BOOLEAN, secret : BOOLEAN]
        /\ call = NoCall
        /\ promised = {} /\ changed = FALSE
        /\ count = [runs |-> 0, calls |-> 0, faults |-> 0]

\* The switch fails where it could have answered: on a dead session it always does.
Fault == IF Answers THEN /\ count.faults < MaxFaults
                         /\ count' = [count EXCEPT !.faults = @ + 1]
                    ELSE UNCHANGED count

\* The call reports success: of everything it sent, or of what was read back.
Succeed(settings, saved, seen) ==
    /\ call' = NoCall
    /\ promised' =
          IF call.reloaded THEN promised
          ELSE promised \cup {[setting |-> x, to |-> LastWritten(Lines, x), saved |-> saved,
                               seen |-> seen] : x \in settings \cap Touched(Lines)}

\* The write raised: the caller is told so, unless the switch is to be read back first.
Raise ==
    /\ call' = IF env.verify /\ CheckedBy(call.request) # {}
               THEN [call EXCEPT !.stage = "verify", !.raised = TRUE]
               ELSE NoCall
    /\ UNCHANGED promised

\* The write came back cleanly.
Complete ==
    IF env.verify /\ CheckedBy(call.request) # {}
    THEN call' = [call EXCEPT !.stage = "verify"] /\ UNCHANGED promised
    ELSE Succeed(Setting, IF driver.deferred THEN "due" ELSE "saved", TRUE)

-----------------------------------------------------------------------------
(***************************************************************************)
(* The session.                                                            *)
(***************************************************************************)

\* connect, which enters enable mode when a secret is configured.
Connected == [link |-> "up", privileged |-> env.secret]

Open(deferred) ==
    /\ ~driver.held /\ count.runs < MaxRuns
    /\ driver' = [NoDriver EXCEPT !.held = TRUE, !.deferred = deferred]
    /\ session' = Connected
    /\ count' = [count EXCEPT !.runs = @ + 1]
    /\ changed' = FALSE
    /\ UNCHANGED <<running, startup, env, call, promised>>

\* Bugs: the new session counts as checked; the save is forgotten.
ReconnectedAsBefore == driver
ReconnectedAfresh == [driver EXCEPT !.confirmed = FALSE, !.unsaved = FALSE]

\* ensure_connected, which provisioning calls before it goes on to the trunks: the check of
\* enable mode is due again, and what is unsaved stays so.
Reconnected == [driver EXCEPT !.confirmed = FALSE]

EnsureConnected ==
    /\ driver.deferred /\ call.stage = "idle" /\ ~Answers
    /\ driver' = Reconnected
    /\ session' \in {Connected, [link |-> "none", privileged |-> FALSE]}
    /\ UNCHANGED <<running, startup, env, call, promised, changed, count>>

\* _commit_and_close: the session closes whatever becomes of the save.
Closed(saved) ==
    /\ driver' = NoDriver
    /\ session' = [link |-> "none", privileged |-> FALSE]
    /\ promised' = {IF e.saved = "due" THEN [e EXCEPT !.saved = saved] ELSE e : e \in promised}
    /\ UNCHANGED <<running, env, call>>

CloseNothingUnsaved ==
    /\ driver.held /\ call.stage = "idle" /\ ~driver.unsaved
    /\ Closed("saved")
    /\ UNCHANGED <<startup, changed, count>>

CloseSaved ==
    /\ driver.held /\ call.stage = "idle" /\ driver.unsaved /\ Answers
    /\ startup' = running
    /\ changed' = FALSE
    /\ Closed("saved")
    /\ UNCHANGED count

\* The save raised; the switch may have made it and not have said so.
CloseUnsaved ==
    /\ driver.held /\ call.stage = "idle" /\ driver.unsaved
    /\ Fault
    /\ startup' \in {startup} \cup (IF Answers THEN {running} ELSE {})
    /\ Closed("live")
    /\ UNCHANGED changed

-----------------------------------------------------------------------------
(***************************************************************************)
(* A call.                                                                 *)
(***************************************************************************)

Begin(r) ==
    /\ driver.held /\ session.link # "none"
    /\ call.stage = "idle" /\ count.calls < MaxCalls
    /\ driver.deferred => Provisioning(r)
    /\ call' = [NoCall EXCEPT !.stage = IF driver.confirmed THEN "send" ELSE "enable",
                              !.request = r]
    /\ promised' = {e \in promised : e.setting \notin Touched(Commands(r))}
    /\ count' = [count EXCEPT !.calls = @ + 1]
    /\ UNCHANGED <<running, startup, session, driver, env, changed>>

\* The check of enable mode, once more after a resync when it fails.
Enable ==
    /\ call.stage = "enable" /\ Answers
    /\ session' = [session EXCEPT !.privileged = TRUE]
    /\ driver' = [driver EXCEPT !.confirmed = TRUE]
    /\ call' = [call EXCEPT !.stage = "send"]
    /\ UNCHANGED <<running, startup, env, promised, changed, count>>

EnableFails ==
    /\ call.stage = "enable" /\ Fault /\ Raise
    /\ UNCHANGED <<running, startup, session, driver, env, changed>>

\* The switch has run lines: the run has changed something if it now differs.
Runs(lines) ==
    /\ running' = Applied(running, lines)
    /\ changed' = (changed \/ running' # running)

\* The next batch goes through.
SendBatch ==
    /\ call.stage = "send" /\ call.next <= Len(Lines)
    /\ Answers /\ session.privileged
    /\ Runs(Batch(Lines, call.next))
    /\ call' = [call EXCEPT !.next = Following(Lines, call.next)]
    /\ UNCHANGED <<startup, session, driver, env, promised, count>>

\* The next batch raises, run in full, in part or not at all.
SendFails ==
    /\ call.stage = "send" /\ call.next <= Len(Lines)
    /\ Fault
    /\ LET batch == Batch(Lines, call.next)
       IN  \E n \in 0 .. IF Answers /\ session.privileged THEN Len(batch) ELSE 0 :
              Runs(SubSeq(batch, 1, n))
    /\ IF call.resent THEN Raise
       ELSE call' = [call EXCEPT !.stage = "check"] /\ UNCHANGED promised
    /\ UNCHANGED <<startup, session, driver, env>>

\* Every line below the header is in the running-config of the interface it names.
LooksApplied ==
    /\ Lines[1].line = "interface"
    /\ \A i \in 2 .. Len(Lines) :
          /\ Lines[i].line = "sub" /\ Lines[i].what # "none" /\ Lines[i].to # Default
          /\ running[[at |-> Lines[1].at, what |-> Lines[i].what]] = Lines[i].to

ToSave == [call EXCEPT !.stage = "save"]
Resend == [call EXCEPT !.stage = "send", !.next = 1, !.resent = TRUE]

\* The read-back of the interface: accept what it shows, or send everything again.
Check ==
    /\ call.stage = "check" /\ Answers
    /\ session' = [session EXCEPT !.privileged = TRUE]
    /\ call' = IF LooksApplied THEN ToSave ELSE Resend
    /\ UNCHANGED <<running, startup, driver, env, promised, changed, count>>

CheckFails ==
    /\ call.stage = "check" /\ Fault
    /\ call' = Resend
    /\ UNCHANGED <<running, startup, session, driver, env, promised, changed>>

Sent ==
    /\ call.stage = "send" /\ call.next > Len(Lines)
    /\ call' = ToSave
    /\ UNCHANGED <<running, startup, session, driver, env, promised, changed, count>>

\* defer_save: the commit of the run will save it.
Defer ==
    /\ call.stage = "save" /\ driver.deferred
    /\ driver' = [driver EXCEPT !.unsaved = TRUE]
    /\ Complete
    /\ UNCHANGED <<running, startup, session, env, changed, count>>

Save ==
    /\ call.stage = "save" /\ ~driver.deferred /\ Answers
    /\ startup' = running
    /\ changed' = FALSE
    /\ Complete
    /\ UNCHANGED <<running, session, driver, env, count>>

SaveFails ==
    /\ call.stage = "save" /\ ~driver.deferred
    /\ Fault
    /\ startup' \in {startup} \cup (IF Answers THEN {running} ELSE {})
    /\ Raise
    /\ UNCHANGED <<running, session, driver, env, changed>>

\* _write_then_verify: what the switch shows decides, when it can be read.
Verify ==
    /\ call.stage = "verify" /\ Answers
    /\ session' = [session EXCEPT !.privileged = TRUE]
    /\ \/ /\ ~Confirms(running, call.request) \/ Overlooked(call.request)
          /\ call' = NoCall /\ UNCHANGED promised
       \/ /\ call.raised
          /\ Confirms(running, call.request) \/ Misread(running, call.request)
          /\ Succeed(CheckedBy(call.request), "live", Confirms(running, call.request))
       \/ /\ ~call.raised
          /\ Confirms(running, call.request) \/ Misread(running, call.request)
          /\ Succeed(Setting, IF driver.deferred THEN "due" ELSE "saved", TRUE)
    /\ UNCHANGED <<running, startup, driver, env, changed, count>>

\* When it cannot, twice, a clean write is trusted and one that raised is not.
VerifyFails ==
    /\ call.stage = "verify" /\ Fault
    /\ IF call.raised THEN call' = NoCall /\ UNCHANGED promised
       ELSE Succeed(Setting, IF driver.deferred THEN "due" ELSE "saved", TRUE)
    /\ UNCHANGED <<running, startup, session, driver, env, changed>>

-----------------------------------------------------------------------------
(***************************************************************************)
(* The switch.                                                             *)
(***************************************************************************)

Drop ==
    /\ Answers /\ Fault
    /\ session' = [session EXCEPT !.link = "dead"]
    /\ UNCHANGED <<running, startup, driver, env, call, promised, changed>>

\* What was not saved is gone, and no driver could have kept it.
Reload ==
    /\ count.faults < MaxFaults
    /\ count' = [count EXCEPT !.faults = @ + 1]
    /\ running' = startup
    /\ session' = [session EXCEPT !.link = IF Answers THEN "dead" ELSE @]
    /\ call' = IF call.stage = "idle" THEN call ELSE [call EXCEPT !.reloaded = TRUE]
    /\ promised' = {e \in promised : e.saved = "saved"}
    /\ changed' = FALSE
    /\ UNCHANGED <<startup, driver, env>>

Writing == \/ Enable \/ EnableFails \/ SendBatch \/ SendFails \/ Check \/ CheckFails \/ Sent
           \/ Defer \/ Save \/ SaveFails \/ Verify \/ VerifyFails
Holding == \/ \E deferred \in BOOLEAN : Open(deferred)
           \/ EnsureConnected \/ CloseNothingUnsaved \/ CloseSaved \/ CloseUnsaved
Next == \/ Holding \/ Writing \/ \E r \in Request : Begin(r)
        \/ Drop \/ Reload

Spec == Init /\ [][Next]_vars

-----------------------------------------------------------------------------
(***************************************************************************)
(* Properties.                                                             *)
(***************************************************************************)

TypeOK ==
    /\ running \in [Setting -> Value] /\ startup \in [Setting -> Value]
    /\ session \in [link : {"none", "up", "dead"}, privileged : BOOLEAN]
    /\ driver \in [held : BOOLEAN, confirmed : BOOLEAN, unsaved : BOOLEAN, deferred : BOOLEAN]
    /\ env \in [verify : BOOLEAN, secret : BOOLEAN]
    /\ call \in Call
    /\ promised \subseteq Promise
    /\ changed \in BOOLEAN
    /\ count \in [runs : 0 .. MaxRuns, calls : 0 .. MaxCalls, faults : 0 .. MaxFaults]
    /\ call.stage # "idle" => call.request \in Request /\ driver.held

\* A setting a call reported as applied is live on the switch, through every later call on
\* other settings, lost session and reload it was saved for: no interface gets its header
\* and not the line beneath it, and no write is accepted that the switch does not show
\* (the batches and the error path of _execute_config_commands).  A trunk write that raised
\* and was confirmed by another port's line is exempt: VerifiedIsLive is about that one.
ReportedIsLive == \A e \in promised : e.seen => running[e.setting] = e.to

\* Everything a call reported as applied is live, the writes that raised and that a read-back
\* answered for included ("recovered_from_error-- True when the write raised but the change
\* is live").
VerifiedIsLive == \A e \in promised : running[e.setting] = e.to

\* A setting reported as applied and saved is in the startup-config: a call that saves at
\* once has saved, and a commit that had nothing to save had really nothing to save, also
\* when the session was lost and reopened during the run (commit, ensure_connected).
PromisedSurvivesReload ==
    \A e \in promised : e.saved = "saved" => startup[e.setting] = e.to

\* A session that skips the check of enable mode is in enable mode: the mark never
\* outlives the session it was made in (_enable_confirmed).
ConfirmedIsPrivileged == Answers /\ driver.confirmed => session.privileged

\* delete_vlan never takes away a VLAN that a port it was given still belongs to, however
\* much of it ran ("so no interface is left orphaned on a non-existent VLAN").
NoPortOrphaned ==
    [][\A v \in Vlan :
          /\ call.request.op = "delete_vlan" /\ call.request.vlan = v /\ call.stage = "send"
          /\ running[[at |-> v, what |-> "vlan"]] # Default
          /\ running'[[at |-> v, what |-> "vlan"]] = Default
          /\ ~call'.reloaded
          => \A i \in DOMAIN call.request.ports :
                running'[[at |-> call.request.ports[i], what |-> "access"]] # v]_vars

\* Between two calls of a run that defers its save, what the run changed on the switch is
\* marked for the commit, the writes of calls that raised included ("Persist whatever did
\* apply before the failure, so a partial run is not silently lost on the next reload").
PartialRunIsMarked ==
    driver.deferred /\ changed /\ call.stage = "idle" => driver.unsaved

=============================================================================
