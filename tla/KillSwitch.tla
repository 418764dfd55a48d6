----------------------------- MODULE KillSwitch -----------------------------
(***************************************************************************)
(* Detection and response: auto_scan_for_rogues of services/scheduler.py,  *)
(* KillSwitchService of services/kill_switch.py, and the two files an      *)
(* administrator changes under them, the authorized registry and the       *)
(* enforcement state.                                                      *)
(*                                                                         *)
(* Scanners are threads that scan (the scheduler's job, and a background   *)
(* task for a manual scan); alerters call handle_security_alert for an     *)
(* alert or an SNMP trap; operators restore or control a port, or clear    *)
(* the threat log.  The administrator's requests run on the event loop,    *)
(* one at a time, and save a file by open('w'), which empties it, and a    *)
(* write at close.  A thread that reads in between finds no JSON: an empty *)
(* registry, and learning mode.                                            *)
(*                                                                         *)
(* A response takes the lock of its device, and a nornir task of a scan, a *)
(* restore and a port control do not.  The disconnect is the statement     *)
(* after the command, so a command that raises leaves the session open.    *)
(*                                                                         *)
(* One machine is behind each port, and a MAC address is that port with a  *)
(* spelling: the switch's table has "dotted" addresses (aabb.ccdd.eeff),   *)
(* inventories have "colon" ones, and _normalize turns neither into the    *)
(* other.  The calls to the threat log take their steps in ThreatLog.      *)
(***************************************************************************)
EXTENDS Naturals, FiniteSets

CONSTANTS Scanner, Alerter, Operator,   \* threads, by what they call
          Device,                       \* managed switches
          Port, DeviceOf,               \* their ports, and the switch of each
          Infrastructure,               \* ports whose machine has a switch, router or AP vendor
          Managed,                      \* ports whose machine is in the inventory with its MAC
          Lines,                        \* sessions a switch accepts
          None,                         \* no thread, no port, no save under way
          MaxCalls                      \* bound on the calls, changes and restarts

ASSUME KillSwitchAssumption ==
    /\ DeviceOf \in [Port -> Device]
    /\ Infrastructure \subseteq Port
    /\ Managed \subseteq Port
    /\ Lines \in Nat \ {0}
    /\ MaxCalls \in Nat
    /\ Scanner \cap Alerter = {} /\ (Scanner \cup Alerter) \cap Operator = {}
    /\ None \notin Scanner \cup Alerter \cup Operator \cup Port

VARIABLES call,      \* call[w]: where thread w stands
          lock,      \* lock[d]: the thread that holds _DEVICE_LOCKS[d]
          leaked,    \* leaked[d]: kinds of calls that left a session open on d
          portUp,    \* portUp[p]: no "shutdown" on port p
          mode,      \* enforcement_state.json
          registry,  \* authorized_devices.json
          saving,    \* the save of a file that is under way
          calls,     \* calls begun, up to MaxCalls
          promised,  \* history: MACs whose authorization was confirmed and not withdrawn
          misread,   \* history: the trusted MACs were read from an unreadable source
          isolated   \* history: log keys of responses that may have shut their port

VARIABLES file, job, owed, disturbed    \* of the threat log

Worker == Scanner \cup Alerter \cup Operator

\* A scan logs the MAC of the machine; an alert comes without one.
LogKey == [port : Port, mac : {"seen", "none"}]

Log == INSTANCE ThreatLog WITH Writer <- Worker, Key <- LogKey, NoKey <- None

logVars == <<file, job, owed, disturbed>>
adminVars == <<mode, registry, saving, promised>>
vars == <<call, lock, leaked, portUp, calls, misread, isolated, adminVars, logVars>>

Mac == Port \X {"dotted", "colon"}
Seen(p) == <<p, "dotted">>
Inventory == {<<p, "colon">> : p \in Managed}

NoProbe == [d \in Device |-> "done"]
NoCall == [stage |-> "idle", port |-> None, up |-> FALSE, armed |-> FALSE,
           trusted |-> {}, found |-> {}, probe |-> NoProbe,
           vouched |-> {}, armedSince |-> FALSE]

Stages == {"idle", "scan", "loop", "record", "lookup", "lock", "connect", "command",
           "hangup", "log", "clear"}
Call == [stage : Stages, port : Port \cup {None}, up : BOOLEAN, armed : BOOLEAN,
         trusted : SUBSET Mac, found : SUBSET Port,
         probe : [Device -> {"todo", "open", "done"}],
         vouched : SUBSET Mac, armedSince : BOOLEAN]

NoSave == [file |-> "none", macs |-> {}, mode |-> "learning", added |-> {}]
Save == [file : {"none", "registry", "mode"}, macs : SUBSET Mac,
         mode : {"learning", "armed"}, added : SUBSET Mac]

DeviceIn(w) == DeviceOf[call[w].port]
KeyOf(w) == [port |-> call[w].port, mac |-> IF w \in Scanner THEN "seen" ELSE "none"]

\* Threads with a session on d for the port of their call, and scans reading its table.
PortSessions(d) ==
    {w \in Worker : call[w].stage \in {"command", "hangup"} /\ DeviceIn(w) = d}
Sessions(d) == PortSessions(d) \cup {w \in Scanner : call[w].probe[d] = "open"}

LineFree(d) == Cardinality(Sessions(d)) + Cardinality(leaked[d]) < Lines

\* Between execute_response and its return.
Responding(w) ==
    /\ w \notin Operator
    /\ call[w].stage \in {"lookup", "lock", "connect", "command", "hangup", "log"}

\* Between the opening of a session and its end.
Engaged(w) == call[w].stage \in {"connect", "command", "hangup"}

\* Responses past their command, whose incident is not in the log yet.
Unlogged ==
    {w \in Worker \ Operator : \/ call[w].stage = "hangup"
                               \/ call[w].stage = "log" /\ job[w].stage # "idle"}

Count == calls < MaxCalls /\ calls' = calls + 1

-----------------------------------------------------------------------------

\* A fresh install: no registry, learning mode, an empty log, every port up.
Init ==
    /\ call = [w \in Worker |-> NoCall]
    /\ lock = [d \in Device |-> None]
    /\ leaked = [d \in Device |-> {}]
    /\ portUp = [p \in Port |-> TRUE]
    /\ mode = "learning"
    /\ registry = [readable |-> TRUE, macs |-> {}]
    /\ saving = NoSave
    /\ calls = 0
    /\ promised = {}
    /\ misread = FALSE
    /\ isolated = {}
    /\ Log!LogInit

-----------------------------------------------------------------------------
(***************************************************************************)
(* The scan.                                                               *)
(***************************************************************************)

\* A bug: the registry is put into canonical spelling, and the MAC table is not.
TrustedMacsRespelled(netboxFails) ==
    IF netboxFails THEN {} ELSE {<<m[1], "colon">> : m \in registry.macs} \cup Inventory

\* get_trusted_macs.  When NetBox fails here the registry is not consulted at all.
TrustedMacs(netboxFails) == IF netboxFails THEN {} ELSE registry.macs \cup Inventory

StartScan(s, netboxFails) ==
    /\ call[s].stage = "idle"
    /\ Count
    /\ call' = [call EXCEPT ![s] =
                   [NoCall EXCEPT !.stage = "scan",
                                  !.trusted = TrustedMacs(netboxFails),
                                  !.probe = [d \in Device |-> "todo"],
                                  !.vouched = promised,
                                  !.armedSince = (mode = "armed")]]
    /\ misread' = (misread \/ netboxFails \/ ~registry.readable)
    /\ UNCHANGED <<lock, leaked, portUp, isolated, adminVars, logVars>>

\* A nornir task connects, or skips a device that does not answer.
ProbeConnect(s, d) ==
    /\ call[s].stage = "scan"
    /\ call[s].probe[d] = "todo"
    /\ \E result \in (IF LineFree(d) THEN {"open"} ELSE {}) \cup {"done"} :
          call' = [call EXCEPT ![s].probe[d] = result]
    /\ UNCHANGED <<lock, leaked, portUp, calls, misread, isolated, adminVars, logVars>>

\* It reads the MAC table, where a port that is up may have aged out, keeps what is
\* not trusted, and disconnects.
ProbeRead(s, d) ==
    /\ call[s].stage = "scan"
    /\ call[s].probe[d] = "open"
    /\ \E table \in SUBSET {p \in Port : DeviceOf[p] = d /\ portUp[p]} :
          call' = [call EXCEPT ![s].probe[d] = "done",
                               ![s].found = @ \cup {p \in table :
                                                       Seen(p) \notin call[s].trusted}]
    /\ UNCHANGED <<lock, leaked, portUp, calls, misread, isolated, adminVars, logVars>>

\* A bug: a mode that cannot be read counts as armed.
ReadArmedByDefault(s) ==
    /\ call[s].stage = "scan"
    /\ call[s].probe = NoProbe
    /\ call' = [call EXCEPT ![s].stage = "loop", ![s].armed = (mode # "learning")]
    /\ UNCHANGED <<lock, leaked, portUp, calls, misread, isolated, adminVars, logVars>>

\* is_armed(), once, when every device has been scanned.
ReadArmed(s) ==
    /\ call[s].stage = "scan"
    /\ call[s].probe = NoProbe
    /\ call' = [call EXCEPT ![s].stage = "loop", ![s].armed = (mode = "armed")]
    /\ UNCHANGED <<lock, leaked, portUp, calls, misread, isolated, adminVars, logVars>>

\* The next rogue is isolated if enforcement was armed and it is infrastructure ...
Enforce(s, p) ==
    /\ call[s].stage = "loop"
    /\ p \in call[s].found \cap Infrastructure
    /\ call[s].armed
    /\ call' = [call EXCEPT ![s].stage = "lookup", ![s].port = p, ![s].found = @ \ {p}]
    /\ UNCHANGED <<lock, leaked, portUp, calls, misread, isolated, adminVars, logVars>>

\* ... and recorded otherwise.
Report(s, p) ==
    /\ call[s].stage = "loop"
    /\ p \in call[s].found
    /\ ~call[s].armed \/ p \notin Infrastructure
    /\ call' = [call EXCEPT ![s].stage = "record", ![s].found = @ \ {p}]
    /\ Log!RecordDetection(s, [port |-> p, mac |-> "seen"])
    /\ UNCHANGED <<lock, leaked, portUp, calls, misread, isolated, adminVars>>

EndScan(s) ==
    /\ call[s].stage = "loop"
    /\ call[s].found = {}
    /\ call' = [call EXCEPT ![s] = NoCall]
    /\ UNCHANGED <<lock, leaked, portUp, calls, misread, isolated, adminVars, logVars>>

-----------------------------------------------------------------------------
(***************************************************************************)
(* handle_security_alert, from a scan or from an alert; restore_port and   *)
(* the port-control endpoint share its session steps, without the lock.    *)
(***************************************************************************)

Alert(a, p) ==
    /\ call[a].stage = "idle"
    /\ Count
    /\ call' = [call EXCEPT ![a] = [NoCall EXCEPT !.stage = "lookup", !.port = p]]
    /\ UNCHANGED <<lock, leaked, portUp, misread, isolated, adminVars, logVars>>

ControlPort(o, p, up) ==
    /\ call[o].stage = "idle"
    /\ Count
    /\ call' = [call EXCEPT ![o] = [NoCall EXCEPT !.stage = "connect", !.port = p, !.up = up]]
    /\ UNCHANGED <<lock, leaked, portUp, misread, isolated, adminVars, logVars>>

\* Back to the loop of the scan, or to the caller.
Returned(w) ==
    IF w \in Scanner
    THEN [call EXCEPT ![w].stage = "loop", ![w].port = None]
    ELSE [call EXCEPT ![w] = NoCall]

\* The inventory has no such device, as when NetBox cannot be reached: nothing is logged.
NotInInventory(w) ==
    /\ call[w].stage = "lookup"
    /\ call' = Returned(w)
    /\ UNCHANGED <<lock, leaked, portUp, calls, misread, isolated, adminVars, logVars>>

Lookup(w) ==
    /\ call[w].stage = "lookup"
    /\ call' = [call EXCEPT ![w].stage = "lock"]
    /\ UNCHANGED <<lock, leaked, portUp, calls, misread, isolated, adminVars, logVars>>

\* A bug: the lock is taken without waiting for the thread that holds it.
AcquireHeld(w) ==
    /\ call[w].stage = "lock"
    /\ lock' = [lock EXCEPT ![DeviceIn(w)] = w]
    /\ call' = [call EXCEPT ![w].stage = "connect"]
    /\ UNCHANGED <<leaked, portUp, calls, misread, isolated, adminVars, logVars>>

Acquire(w) ==
    /\ call[w].stage = "lock"
    /\ lock[DeviceIn(w)] = None
    /\ lock' = [lock EXCEPT ![DeviceIn(w)] = w]
    /\ call' = [call EXCEPT ![w].stage = "connect"]
    /\ UNCHANGED <<leaked, portUp, calls, misread, isolated, adminVars, logVars>>

Connect(w) ==
    /\ call[w].stage = "connect"
    /\ LineFree(DeviceIn(w))
    /\ call' = [call EXCEPT ![w].stage = "command"]
    /\ UNCHANGED <<lock, leaked, portUp, calls, misread, isolated, adminVars, logVars>>

\* The switch carries the command out; a response now owes the log an incident.
Apply(w) ==
    /\ portUp' = [portUp EXCEPT ![call[w].port] = call[w].up]
    /\ isolated' = IF w \in Operator THEN isolated ELSE isolated \cup {KeyOf(w)}

Command(w) ==
    /\ call[w].stage = "command"
    /\ Apply(w)
    /\ call' = [call EXCEPT ![w].stage = "hangup"]
    /\ UNCHANGED <<lock, leaked, calls, misread, adminVars, logVars>>

\* A bug: the lock is released where the session worked, and not where it failed.
OverKeepsLock(w, action) ==
    IF w \in Operator
    THEN /\ call' = [call EXCEPT ![w] = NoCall]
         /\ UNCHANGED <<lock, logVars>>
    ELSE /\ call' = [call EXCEPT ![w].stage = "log"]
         /\ lock' = IF action = "attempted_shutdown"
                    THEN lock ELSE [lock EXCEPT ![DeviceIn(w)] = None]
         /\ Log!LogIncident(w, KeyOf(w), action)

\* A bug: only a shutdown that worked is logged.
OverUnloggedFailure(w, action) ==
    IF w \in Operator \/ action = "attempted_shutdown"
    THEN /\ call' = Returned(w)
         /\ lock' = IF w \in Operator THEN lock ELSE [lock EXCEPT ![DeviceIn(w)] = None]
         /\ UNCHANGED logVars
    ELSE /\ call' = [call EXCEPT ![w].stage = "log"]
         /\ lock' = [lock EXCEPT ![DeviceIn(w)] = None]
         /\ Log!LogIncident(w, KeyOf(w), action)

\* The session part is over.  A response leaves its lock and logs; an operator returns.
Over(w, action) ==
    IF w \in Operator
    THEN /\ call' = [call EXCEPT ![w] = NoCall]
         /\ UNCHANGED <<lock, logVars>>
    ELSE /\ call' = [call EXCEPT ![w].stage = "log"]
         /\ lock' = [lock EXCEPT ![DeviceIn(w)] = None]
         /\ Log!LogIncident(w, KeyOf(w), action)

Hangup(w) ==
    /\ call[w].stage = "hangup"
    /\ Over(w, "port_shutdown")
    /\ UNCHANGED <<leaked, portUp, calls, misread, isolated, adminVars>>

\* No session after three attempts.
ConnectFails(w) ==
    /\ call[w].stage = "connect"
    /\ Over(w, "attempted_shutdown")
    /\ UNCHANGED <<leaked, portUp, calls, misread, isolated, adminVars>>

\* The command raises, though the switch may have carried it out, and the disconnect
\* is skipped.
CommandFails(w) ==
    /\ call[w].stage = "command"
    /\ Apply(w) \/ UNCHANGED <<portUp, isolated>>
    /\ leaked' = [leaked EXCEPT ![DeviceIn(w)] =
                     @ \cup {IF w \in Operator THEN "operator" ELSE "response"}]
    /\ Over(w, "attempted_shutdown")
    /\ UNCHANGED <<calls, misread, adminVars>>

\* The call to the threat log has returned.
Logged(w) ==
    /\ call[w].stage \in {"log", "record", "clear"}
    /\ job[w].stage = "idle"
    /\ call' = Returned(w)
    /\ UNCHANGED <<lock, leaked, portUp, calls, misread, isolated, adminVars, logVars>>

\* A step of a call to the threat log.  A cleared log owes only what is still under way.
LogSteps(w) ==
    /\ Log!LogStep(w)
    /\ isolated' = IF job[w].op = "clear" /\ job'[w].stage = "idle"
                   THEN isolated \cap {KeyOf(v) : v \in Unlogged}
                   ELSE isolated
    /\ UNCHANGED <<call, lock, leaked, portUp, calls, misread, adminVars>>

ClearThreats(o) ==
    /\ call[o].stage = "idle"
    /\ Count
    /\ call' = [call EXCEPT ![o] = [NoCall EXCEPT !.stage = "clear"]]
    /\ Log!ClearThreatLog(o)
    /\ UNCHANGED <<lock, leaked, portUp, misread, isolated, adminVars>>

\* The switch closes a session that was left open.
IdleTimeout(d) ==
    /\ leaked[d] # {}
    /\ leaked' = [leaked EXCEPT ![d] = {}]
    /\ UNCHANGED <<call, lock, portUp, calls, misread, isolated, adminVars, logVars>>

-----------------------------------------------------------------------------
(***************************************************************************)
(* The administrator's changes.  _save empties the file, then writes it.   *)
(***************************************************************************)

OpenRegistry(macs, added) ==
    /\ saving = NoSave
    /\ Count
    /\ saving' = [NoSave EXCEPT !.file = "registry", !.macs = macs, !.added = added]
    /\ registry' = [readable |-> FALSE, macs |-> {}]
    /\ misread' = (misread \/ ~registry.readable)
    /\ UNCHANGED <<call, lock, leaked, portUp, isolated, mode, logVars>>

\* add_authorized, also for trust-threat, which passes the spelling of the table.
AddAuthorized(m) ==
    /\ OpenRegistry(registry.macs \cup {m}, {m})
    /\ UNCHANGED promised

RemoveAuthorized(m) ==
    /\ m \in registry.macs
    /\ OpenRegistry(registry.macs \ {m}, {})
    /\ promised' = promised \ {m}

SetMode(new) ==
    /\ saving = NoSave
    /\ Count
    /\ saving' = [NoSave EXCEPT !.file = "mode", !.mode = new]
    /\ mode' = "unreadable"
    /\ UNCHANGED <<call, lock, leaked, portUp, misread, isolated, registry, promised, logVars>>

FinishSave ==
    /\ saving # NoSave
    /\ saving' = NoSave
    /\ promised' = promised \cup saving.added
    /\ IF saving.file = "registry"
       THEN /\ registry' = [readable |-> TRUE, macs |-> saving.macs]
            /\ UNCHANGED <<mode, call>>
       ELSE /\ mode' = saving.mode
            /\ call' = [w \in Worker |->
                           [call[w] EXCEPT !.armedSince =
                               @ \/ (call[w].stage = "scan" /\ saving.mode = "armed")]]
            /\ UNCHANGED registry
    /\ UNCHANGED <<lock, leaked, portUp, calls, misread, isolated, logVars>>

\* The process stops and starts again.  A file whose save was under way stays empty, a
\* port that was shut stays shut, and its incident is lost if it was not logged yet.
Restart ==
    /\ Count
    /\ call' = [w \in Worker |-> NoCall]
    /\ lock' = [d \in Device |-> None]
    /\ leaked' = [d \in Device |-> {}]
    /\ saving' = NoSave
    /\ isolated' = isolated \ {KeyOf(w) : w \in Unlogged}
    /\ IF Log!Busy = {} THEN UNCHANGED logVars ELSE Log!LogRestart
    /\ UNCHANGED <<portUp, misread, mode, registry, promised>>

-----------------------------------------------------------------------------

ScanStep(s) ==
    \/ \E d \in Device : ProbeConnect(s, d) \/ ProbeRead(s, d)
    \/ ReadArmed(s)
    \/ \E p \in Port : Enforce(s, p) \/ Report(s, p)
    \/ EndScan(s)

SessionStep(w) ==
    \/ NotInInventory(w) \/ Lookup(w) \/ Acquire(w)
    \/ Connect(w) \/ ConnectFails(w)
    \/ Command(w) \/ CommandFails(w) \/ Hangup(w)
    \/ Logged(w) \/ LogSteps(w)

AdminStep ==
    \/ \E m \in Mac : AddAuthorized(m) \/ RemoveAuthorized(m)
    \/ \E m \in {"learning", "armed"} : SetMode(m)
    \/ FinishSave

Next ==
    \/ \E s \in Scanner : (\E fails \in BOOLEAN : StartScan(s, fails)) \/ ScanStep(s)
    \/ \E a \in Alerter, p \in Port : Alert(a, p)
    \/ \E o \in Operator, p \in Port, up \in BOOLEAN : ControlPort(o, p, up)
    \/ \E o \in Operator : ClearThreats(o)
    \/ \E w \in Worker : SessionStep(w)
    \/ \E d \in Device : IdleTimeout(d)
    \/ AdminStep
    \/ Restart

Spec == Init /\ [][Next]_vars

\* Every thread is scheduled, a switch that is busy or silent makes connect raise, and
\* a lock that is free is given to a thread that waits.
FairSpec ==
    /\ Spec
    /\ \A w \in Worker : WF_vars(SessionStep(w))
    /\ \A s \in Scanner : WF_vars(ScanStep(s))

-----------------------------------------------------------------------------

TypeOK ==
    /\ call \in [Worker -> Call]
    /\ lock \in [Device -> Worker \cup {None}]
    /\ leaked \in [Device -> SUBSET {"response", "operator"}]
    /\ portUp \in [Port -> BOOLEAN]
    /\ mode \in {"learning", "armed", "unreadable"}
    /\ registry \in [readable : BOOLEAN, macs : SUBSET Mac]
    /\ saving \in Save
    /\ calls \in 0 .. MaxCalls
    /\ promised \subseteq Mac
    /\ misread \in BOOLEAN
    /\ isolated \subseteq LogKey

\* Two responses that are under way are never both connecting to, or connected with, the
\* same switch: what the lock of kill_switch.py:98-104 is for, as far as it goes.
ResponsesExclusive ==
    \A v, w \in Worker \ Operator :
        (Engaged(v) /\ Engaged(w) /\ DeviceIn(v) = DeviceIn(w)) => v = w

\* As long as the trusted MACs could be read, no scan sets out to isolate a machine
\* whose address, spelled as the table spells it, was authorized when the scan began,
\* whatever was saved since; and never an end-user device.
AuthorizedSpared ==
    \A s \in Scanner :
        Responding(s) => /\ call[s].port \in Infrastructure
                         /\ ~misread => Seen(call[s].port) \notin call[s].vouched

\* No scan isolates unless enforcement was armed at some time since that scan began:
\* not on a fresh install, not while the mode is being saved, and not after a crash
\* that left the mode unreadable.
IsolationWasArmed ==
    \A s \in Scanner : Responding(s) => call[s].armedSince

\* A port that a response shut, or may have shut before its command raised, is in the
\* log as an incident once that response has returned, as long as calls to the log
\* came one at a time.
IsolationsLogged ==
    (~disturbed /\ Log!Busy = {}) =>
        \A k \in isolated :
            \/ k \in Log!IncidentKeys(file.rows)
            \/ \E w \in Unlogged : KeyOf(w) = k

\* Every scan and every alert returns, whoever holds the lock of its device, however
\* many sessions were left open there, and whatever the switch does.
CallsReturn ==
    \A w \in Scanner \cup Alerter : []<>(call[w].stage = "idle")

-----------------------------------------------------------------------------

\* "so two shutdowns to the SAME switch don't open simultaneous sessions"
\* (services/kill_switch.py:99-100), counting the session a failed one left open.
OneResponseSession ==
    \A d \in Device :
        Cardinality({w \in PortSessions(d) : w \notin Operator})
            + Cardinality(leaked[d] \cap {"response"}) <= 1

\* "a managed switch/router/AP is never its own rogue" (inventory/netbox_client.py:244).
ManagedSpared == \A s \in Scanner : Responding(s) => call[s].port \notin Managed \/ misread

=============================================================================
