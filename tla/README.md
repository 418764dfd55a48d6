# Verification of the unified automation framework

This directory holds TLA+ models of the backend in `src/backend/app`, a FastAPI
service that detects rogue devices on switches of three vendors, shuts their ports,
provisions networks, and pushes events to dashboards, and of the web console in
`src/frontend` that operates it. TLC checks the models on small
instances; TLAPS proves the theorems in the `*Proofs` modules for every value of the
constants. `PROJECT.json` lists the runs, the lines each definition models, the
mutants that show each property can fail, the hazards, and the findings.

To check a run: `tlc -workers 2 -config MCKillSwitch.cfg MCKillSwitch`; a proof
module: `tlapm KillSwitchProofs.tla`.

## 1. The system

Paths are relative to `src/backend/app`.

| Component | Source | State | Operations | What makes it correct |
|---|---|---|---|---|
| Threat log | `services/kill_switch.py` | `logs/security_threats.json` | `record_detection`, `_log_incident`, `clear_threat_log`, `get_active_threats` | no row twice; nothing recorded is lost; an incident is not overwritten by a detection |
| Detection and response | `services/scheduler.py` (scan), `services/kill_switch.py`, `core/nornir_manager.py`, `api/endpoints.py` | device locks, sessions on the switches, ports, the scan's own variables | `auto_scan_for_rogues`, `handle_security_alert`, `restore_port`, port control, clear threats | only rogue infrastructure is isolated, only when armed; every isolation is logged; one response session per switch; every call returns |
| Enforcement mode | `services/enforcement_state.py` | `enforcement_state.json` | `set_mode`, `is_armed` | what cannot be read is learning mode |
| Authorized registry | `inventory/authorized_registry.py` | `authorized_devices.json` | add, remove, list | an authorized machine is not a rogue |
| Audit trail | `core/security.py` `AuditLogger` | list in memory, `logs/audit_log.json` | `_write_entry`, `flush` | in order, capped, never half-written, security events at once on disk |
| Scheduler, exclusive access | `services/scheduler.py`, `api/endpoints.py` | two APScheduler jobs, the tokens of requests | `start_scheduler`, `pause_device_jobs`, `resume_device_jobs` | jobs are quiet during an admin operation, and run again after it, in their own cadence |
| Event bus, WebSocket | `services/event_bus.py`, `api/endpoints.py` `ws_events` | a queue of 100 per client | `publish`, `_fan_out`, subscribe, unsubscribe, health snapshots, heartbeats | in order, none twice; the newest kept; delivered; dead clients unsubscribed |
| SNMP trap bridge | `core/snmp_trap_listener.py` | socket | trap to alert | a violation trap becomes an alert |
| Cisco driver | `drivers/cisco_driver.py` | one SSH session | connect with retries, batched configuration with read-back, VLANs, trunks, CDP and MAC discovery | what is reported applied is applied |
| Provisioning | `api/endpoints.py` 1160-2114 | sessions kept between steps, the devices' configurations | four steps and their undoing, across vendors | sessions are closed on every path; what is reported carries the segment; de-provision leaves nothing behind |
| Time-based access | `services/scheduler.py` 50-221, `services/schedule_policy.py` | rules on devices, `schedule_policy.json` | enforce by clock, set the window | every device follows the window, whatever failed before |
| NetBox client | `inventory/netbox_client.py` | cache, `last_error` | device list, trusted MACs | a failure is not an empty network; a list is seconds old at most |
| Users, tokens, API keys | `core/security.py`, `api/auth.py` | `users.json` and dictionaries | login, create, delete, change password | accounts survive a restart; an admin remains |
| Rate limiter | `main.py` 60-118 | a window per client | admit or refuse | no more than the limit per window |
| MikroTik driver | `drivers/mikrotik_driver.py` | a session | DHCP, VLAN segments, firewall, interfaces | what a clear removes is never the management network's; writes are confirmed by reading |
| UniFi driver | `drivers/unifi_driver.py` | a session, a CSRF token | SSIDs, network profiles, client lists | a deleted SSID stays deleted; no duplicates of a name |
| Wake-on-LAN | `services/wol.py`, `wol_bridge_agent.py` | none | send or relay magic packets | – |
| Nornir manager | `core/nornir_manager.py` | none kept | parallel tasks per host | a failed host does not stop the others |
| Monitoring, metrics | `services/monitor.py`, `metrics.py` | counters | read-only polls | – |
| Device factory, OUI table | `services/device_manager.py`, `oui_classifier.py` | none | lookup | – |
| Start-up | `main.py`, `core/config.py` | none | lifespan | – |
| Web console | `frontend/frontend.py` in `src/frontend` | the session, what the API returned last, two background tasks | sign in and out, poll, WebSocket, about twenty handlers that change something | tasks end with the session; what is shown is what the backend has |

**How they interact.** The scheduler's thread runs the scan; the scan reads NetBox and
the registry, lets Nornir's threads read every switch's MAC table, reads the enforcement
mode, and calls `KillSwitchService` for each rogue, as an HTTP alert and an SNMP trap do
from other threads. Responses to one switch exclude each other by a lock; restores, port
control, and the scan's own tasks do not take it, so all of them compete for the few
sessions a switch grants. Every call ends in the threat log, a file without a lock. The
administrator changes the registry and the mode from the event loop while scans read
them. Provision requests pause the scheduler's jobs around their work, and drive the
switch, the router and the controller through the three drivers; the time policy's runs
drive them too. Responses publish to the event bus from their threads, and the bus
delivers on the event loop, to the consoles among others, which also poll.

**What is hard.** Threads that read, change and write one file; files that are empty
while they are saved, and stay so after a crash; values read once and used later (the
mode, the trusted MACs, the due time of a job); sessions left open by commands that
raise; flushes through one temporary file; requests that overlap although each one
assumes it is alone; bounded queues and time-outs that race with events; calls to
devices that are carried out although their answer was lost, and answers that are
believed although nothing was done; chains of a dozen such calls without a transaction;
devices re-cabled while they are looked for; a page built from one list and clicked
after another. `PROJECT.json`
lists each hazard at its line with the properties that cover it.

## 2. The modules

| Module | Models | Extends or instantiates |
|---|---|---|
| `ThreatLog` | the threat log, split at its file accesses | |
| `KillSwitch` | detection and response, the mode, the registry | `Log == INSTANCE ThreatLog` |
| `AuditLog` | the audit trail and its flush | |
| `DeviceJobs` | scheduler jobs and the requests that pause them | |
| `EventBus` | publish, fan-out, and the connection tasks | |
| `CiscoConfig` | configuration writes of the Cisco driver and the run they are part of | |
| `RouterConfig` | DHCP and VLAN segments on the router, provision and de-provision | |
| `WifiConfig` | SSIDs and profiles on the controller | |
| `Provision` | the switch's part of a provision and a de-provision, its sessions, the search for the uplinks | |
| `TimePolicy` | the time-based access policy on three vendors | |
| `Accounts` | the user store and its file | |
| `Inventory` | the cache of NetBox's device list | |
| `Console` | the console's session and its two background tasks | |
| `ConsolePages` | the handlers of the console's pages, in two tabs | |
| `ThreatLogProofs`, `KillSwitchProofs`, `AuditLogProofs`, `CiscoConfigProofs`, `ProvisionProofs` | theorems about the module of the name | the module, `TLAPS` |
| `BackendProofs` | theorems about `DeviceJobs`, `TimePolicy` and `Accounts` | these, `TLAPS` |
| `ConsoleProofs` | theorems about `EventBus`, `Inventory` and `ConsolePages` | these, `TLAPS` |
| `RestDriversProofs` | theorems about `RouterConfig` and `WifiConfig` | these, `TLAPS` |
| `MC*` | small instances | the module |

Definitions whose comment begins "A bug:" or "Bugs:" are not part of a specification: each is a
plausible mistake in the definition next to it, and shows that a property would notice.

### ThreatLog
A call is `Begin` (with `RecordDetection`, `LogIncident` or `ClearThreatLog`), then
`ReadLog` (`open('r')` and `json.load`, and the change made in memory), `TruncateLog`
(`open('w')`), and `WriteLog` (the flush at close). `DetectionKnown` is the early return
of `record_detection`. A row is its key (device, port, MAC) and action; time stamps,
labels and the detection counter are left out. Two writers with the file open may leave
a tail of the longer text, hence the "corrupt" file. `owed` and `disturbed` are history.
`KillSwitch` is composed with it: what a response or a scan does to the log are these
actions, so what is proved of them holds there (`SwitchNoDuplicateRows`).

### KillSwitch
`call[w]` is where thread `w` stands: a scanner goes through `scan` (the Nornir tasks,
one probe per device), `loop` (the rogues found), and for each rogue the stages of
`handle_security_alert`; an alerter begins at `lookup`; an operator begins at `connect`,
because `restore_port` and port control take no lock. `leaked` counts the sessions that a
raising command left open (`driver.disconnect()` is a statement after the command, not in
a finally clause); the switch drops them after its idle time-out, `IdleTimeout`, which is
the switch's and not the code's. A command that raises may have been carried out. The
switch's table spells addresses `aabb.ccdd.eeff`, inventories with colons, and
`_normalize` does not turn one into the other: a MAC is a port with a spelling. Vendor
classes are the constant `Infrastructure`. The port is restored without a log entry.

### AuditLog
Inodes and names, since a thread that has the temporary file open keeps writing into it
after another thread has renamed it. `WriteEntry` is the part of `_write_entry` under the
lock; whether the debounce interval has passed is left open; a WARNING entry is flushed
in any case. `overlapped` is history: two flushes at once, or one that failed.

### DeviceJobs
A due time is the time left until it, counted down by `Tick`. `pause_device_jobs` and
`resume_device_jobs` run on the event loop without an await, so those of two requests do
not interleave (`LoopFree`), but APScheduler's thread may start a job between any two of
their statements. `job.resume()` sets the due time to the next multiple of the interval
since the job was added; where that falls is left open. `job.modify` then sets it to the
later of the due time remembered and the end of the grace period, so that a due time which
lies within the grace period moves as well, passed or not. `cadence` is what a job's due
time would be had no request touched it. APScheduler's executor and the clock are
external.

### EventBus
An event is its number in the order in which `publish` handed it to the loop
(`published`), and `FanOut` puts the next one into every queue. What is not an event, a
health snapshot or a heartbeat, is 0. Each connection's task takes an item (`Take`), sends
it (`Sent`), waits, times out (`Heartbeat`), or finds the client gone (`SendFails`).
`Snapshot` is `push_health`, which drops its own item when the queue is full. The fallback
of `publish` for a process without a running loop is left out.

### CiscoConfig
A configuration is a function from settings to values, and a running-config prints a
setting only when it is not at its default; a command line enters an interface, leaves it,
sets a value on it, or makes or removes a VLAN. Eight calls of the driver are sequences of
such lines (`EnablePort` to `DeleteVlan`). A call goes through the stages of
`_execute_config_commands`: `enable` (skipped once `_enable_confirmed`), `send` (one step
per batch), `check` (the read-back of the interface after an error, then everything
again), `save` (`Defer` or `Save`), and, with `CISCO_VERIFY_WRITES`, `verify`. A batch is
the lines from one of its `Starts` to the next, under the header of its block (`Batch`).
A batch that raises has run in any part, from none of it to all. `Open`, `EnsureConnected`
and the three `Close...` actions are the session of a provisioning run; only such a run
defers its save, and only its calls (`Provisioning`) occur in one. `clear_vlans` is one
`delete_vlan` without ports per VLAN. `promised` is history: the settings that calls
reported as applied, and whether a save was reported too. A success that
`_write_then_verify` recovered from an error promises what was read back, and no save.
`verify_trunk_carries_vlan` matches a line by the beginning of the port's name: `Prefix` is
the relation between such names, a port with a longer one may answer for the one with the
shorter (`Misread`), and a promise that rests on that alone is not `seen`. The table it
reads may also leave the trunk out (`Overlooked`).
Retries that only repeat a step (three connects, two enable checks, two verification
reads) are one step that works or fails. A description's time stamp is left out, and the
substring test of the read-back is modelled as line by line: of the lines the calls send,
only those of `disable_port` can all occur in a running-config, because the others send a
line that is never printed (`no shutdown`, `exit`, a default). That the switch refuses no
line it has read is an assumption: Netmiko raises for a missing prompt and not for a
refused line.

### RouterConfig
`chain[o]` is where request `o` stands in the calls of `clear_dhcp_pools` (`GuardNetworks`,
`GuardServers` and `GuardPools` are the three reads of `_protected_dhcp`, each of which is
logged and skipped when it raises), `create_dhcp_pool`, `create_vlan_segment`,
`delete_dhcp_network` and `delete_vlan_segment`. A call answers or raises; when it raises
the router has carried it out or not. What follows a lost answer (`ConfirmDhcp`,
`ReadBack`) decides what is reported. Two segments of one VLAN with different names and
subnets stand for a request repeated with other parameters. `host` is how the inventory
gives the router: for a name instead of an address `_protected_dhcp` returns before its
first read and protects nothing (`GuardsNothing`), and the uplink is not found by address.
A removal may be answered and not carried out (`Ignores`): `delete_vlan_segment` reads back
what is left, `delete_dhcp_network` does not (`IgnoresUnnoticed`), and a request to which
that happened is no longer `undisturbed`. `blind` is history: a read of what must be
protected failed, which the code passes over.

### WifiConfig
`task[o]` goes through a login, the SSIDs to be cleared, the profile, the SSIDs that bear
the name already, the post and its verification; or through a delete with its retries and
the read that decides whether the SSID is gone; or through the read and the write of an
edit. A 401 is replayed once. The controller takes two SSIDs of one name, so that a lost
answer to a post leaves a duplicate, which the next provision removes (`RemoveExisting`).

### Provision
The whole of `provision_network` and `deprovision_network` as the switch sees it: the
session opened in step 1, held through steps 2 and 3 (`OtherSteps`), taken up again in
step 4 (`Resume`), the configured uplinks confirmed by CDP (`ConfirmUplink`), the search by
CDP and by the MAC table (`Discover`), the check of the ports, the trunks, and `Finish`,
which closes what is left. `cable` is where the peers are, `stale` what CDP goes on
listing, `down` the ports without a link: those spanning tree is converging on and those a
peer was unplugged from, which the table of trunks leaves out (`Carrying`) although they are
still set up to carry the VLAN (`Carries`). De-provisioning looks for the trunks before it deletes the VLAN, because the
switch lists only VLANs that exist. `held[o]` counts the sessions of a request.

### TimePolicy
A run reads the hour and the window once (`BeginRun`) and goes from device to device; a
device that raises is skipped. The existence check of the router's rule may fail, and the
rule is then added again. `SetWindow` and `WindowSaved` are the two halves of a save.

### Accounts
A call hashes, changes the dictionary and saves; the save is `OpenStore`, which empties
the file, and `DumpStore`. A save that raises `OSError` is logged and the call goes on to
report success (`SaveFails`); `unsaved` is history: no good save has followed it yet.
`handler` has the event loop and the threads beside it.

### Inventory
A read is `BeginRead`, `Fetch` and `Store`, outside the lock; the cache takes whichever
list is stored last. Time is counted in ticks, and `ReadTime` stands for the time-outs of
the calls of one read.

### Console
`feed` is `live_feed` and `sock` is `alert_ws_feed`. What a background task does between
two `async with self` blocks is a step, and so is a handler as a whole. `asked` are the
tasks that a handler has returned and that did not begin yet.

### ConsolePages
A tab's handlers run one after the other and call the backend step by step; a second tab
changes the same lists. A click carries what its button was built with. `behind` is
history: the pages whose list need not be the backend's.

## 3. The runs

| Run | Instance | What it shows |
|---|---|---|
| `records` | one of the five modules moves at a time: `ThreatLog` (2 threads, 2 keys, 5 calls, restarts), `AuditLog` (2 threads, 4 inodes, cap 2, 3 entries), `Accounts` (loop and a thread, 3 names, 3 calls, 1 failing save, 1 crash), `Inventory` (2 threads, life and read of 2 ticks, 1 edit, 1 outage), `ConsolePages` (2 tabs, 3 clicks, 1 lost answer) | no row twice, a whole history unless calls overlapped, a trail in order; accounts that survive a restart unless their save failed, and an admin among them; a device list that is never older than a read and a cache's life; pages that show the backend's list |
| `audit_log_atomic` | 2 threads, 4 inodes | violation: the log is half-written after two overlapping flushes |
| `kill_switch` | 1 scanner, 1 alerter, 1 operator, 1 switch with 1 line, 2 ports, 3 calls, changes or restarts | exclusion of responses, sparing of authorized and end-user machines, the mode, the log |
| `kill_switch_sessions` | 2 alerters, 2 lines | violation: a second response session on one switch |
| `kill_switch_managed` | a managed machine, 2 lines | violation: a managed device isolated as a rogue |
| `background_tasks` | one of four modules moves: `DeviceJobs` (2 jobs, 2 requests), `TimePolicy` (3 hours, 3 windows, a scheduled and a manual run, 2 SSIDs, 2 changes, 2 faults), `Console` (2 logins, 1 change, a toggle, an upset), `KillSwitch` (1 scanner, 1 alerter, 1 port, 3 calls) | jobs keep running, and in their cadence; the devices converge to the window; the console's tasks end and what it shows converges; every scan and alert returns |
| `device_jobs_overlap` | 2 jobs, 3 requests | violation: jobs run under a request |
| `event_bus` | 2 clients, queues of 2, 4 events | order, the newest kept, delivery, dead clients unsubscribed |
| `cisco_config` | 2 ports, the name of one beginning the other's, 1 VLAN, batches of 4 lines, read-back without an enable secret or the reverse, 1 session opened, 3 calls, 2 faults | what is reported applied is live, and saved once it was said to be; no orphaned port; the enable mark |
| `cisco_config_commit` | the same | violation: a commit that saves nothing after a partial write |
| `provisioning` | one of three modules moves: `RouterConfig` (2 requests, 3 in all, 2 segments of one VLAN, 1 fault), `WifiConfig` (2 requests, 2 names, an SSID of one of them, 3 faults), `Provision` (2 requests, 2 VLANs, 3 ports, 1 line, 1 fault, 1 re-cabling) | the management network survives every clear of a router known by its address; a provision reported good serves its segment, a de-provision leaves nothing; SSIDs stay deleted and are not duplicated; trunks reach the peers and are undone; sessions are given back |
| `console_alerts` | 1 login, 1 toggle | violation: live updates switched off and on leave the alert channel closed |

**Sums.** `MCRecords`, `MCBackground` and `MCProvisioning` put modules side by side that
share no state. `focus` says which of them moves in a behaviour, and the others stay in
their initial states, so the states are the sum of theirs and not the product, and every
property of a module is checked on all of that module's behaviours. In `MCBackground` the fairness of
the modules is joined conjunct by conjunct; since only one module's actions are ever
enabled, a joined conjunct says of each module what its own says. `ScheduleKeepsRunning`
says that `JobsKeepRunning` holds when `DeviceJobs` is the one that moves.

**Symmetry.** The threads, requests, keys, items and VLANs that are permuted occur in the
properties only under quantifiers, and the runs with symmetry check no liveness.

**The bounds.** Two threads are enough for a lost update, an overlap, or a torn read,
each of which involves a writer and one other; three calls let a failed response be
followed by another one or by a restart. One switch line is the tightest case the
comments describe ("the 2960 refuses that"); two lines are given where a leaked session
and a live one must coexist. The audit cap of 2 with 3 entries reaches the trimming;
four inodes are the log, its replacement, and one held open by each thread. Intervals 3
and 2 with a grace of 2 give due times that are passed, within the grace period, at its end
and beyond. Queues of 2
with 4 events overflow with and without snapshots. Batches of 4 are the code's default
and split the blocks of five and six lines; two ports make a set that spans interfaces, and
one of them may answer for the other;
three calls create a VLAN, put a port into it and remove it; two faults make a write
fail, also when it is sent again, or fail and lose its session, or reload the switch after
an error. Read-back is on where there is no enable secret, and off where there is one: a
secret only makes a session privileged when it opens. Three router requests are a provision, another one that overlaps it, and a
de-provision after them; one fault loses an answer, stops a removal, or breaks a read of
the protection. The controller has an SSID of one name at first, and a provision
of the other name finds none. Three faults of the controller exhaust the two attempts of a write and
break the read after it. One re-cabling moves a peer between any two steps, and a third
port gives it a place to move to; trunks allow all VLANs at first, or none, and with the
settings made only none, for what is allowed already says nothing about the port chosen; one line is what the switch grants at its tightest. Five ticks, with a
life and a read of 2, let a slow read end after a fast one, and its list age. A window across midnight, its reverse, and none are the three cases
of `schedule_policy`; two hours of change make a run decided in one hour end in the next.
Two tabs with three clicks let a delete cross a load, and a click queue behind another.
One failing save is followed by a good one, by none, or by a
crash. The runs that may stop (their calls
are bounded) do not check deadlock; what must happen is a liveness property instead.

**Fairness.** `KillSwitch!FairSpec`: every thread that can take a step does (threads are
scheduled, `connect` gives up after three attempts, reads have time-outs), and a free
lock is given to a thread that waits for it. The starts of calls, `IdleTimeout`, saves and
restarts are not fair. `DeviceJobs!FairSpec`: time passes, APScheduler's thread starts due
jobs, job instances end, and requests take their steps (their work returns or raises).
`EventBus!FairSpec`: the loop runs what is ready and what is runnable, and
a send returns or raises. Publishing and leaving are not fair.
`TimePolicy!FairPolicySpec`: the job is started again and again and a thread goes on with
its run (every call to a device has a time-out); `Console!FairConsoleSpec`: a background
task that was returned is started and goes on (its reads have time-outs, and heartbeats of
the backend wake the socket), and the page that is opened runs its guard. What the
operator does, and what fails, is not fair.

## 4. What is proved

Each proof module states an inductive invariant, the initial states satisfy it, every
action keeps it (one step or lemma per action), and the theorems follow. Assumptions are
only the named `ASSUME`s of the modules, which the runs evaluate.

- **ThreatLogProofs**: `ThreatLogTypes`, `ThreatLogNoDuplicateRows`. `NoDuplicateRows` is
  not inductive: a thread may write back rows it read long ago. `LogIInv` adds that the
  rows in every thread's hands are free of duplicates as well, so whichever of them is
  written is; `ReplaceFirst`, `AppendDetection` and `AppendIncident` show that the three
  changes keep that. `ThreatLogIncidentsSurvive` and `ThreatLogHistoryKept` say that
  nothing is lost: the second adds `HistoryIInv`, that as long as calls come one at a time
  what the one call under way will write lists all that is owed and its own row.
- **AuditLogProofs**: `AuditTypes`, `AuditTrailInOrder`. `AuditIInv` adds that every list,
  in memory, in a thread's hands and in every inode, is strictly increasing and bounded by
  the entries logged so far; `CappedOrdered` is the lemma about the cap. `AuditLogWhole`
  and `AuditSecurityPersisted` need `SafeIInv`, which follows a flush that is alone from
  stage to stage: the list it carries, and the temporary file it is about to rename, hold
  what is settled and the entry of its own call; `CappedPersists` says that the cap lets an
  entry go only for newer ones.
- **KillSwitchProofs**: `SwitchTypes`, `SwitchResponsesExclusive`,
  `SwitchAuthorizedSpared`, `SwitchIsolationWasArmed`, and `SwitchNoDuplicateRows`, which
  takes over ThreatLog's theorem (the lemma `SwitchDrivesThreatLog` says that the
  composition writes the log through ThreatLog's actions only). `SwitchIInv` says, per thread, what its stage implies: a response past its lock
  holds it, the trusted set contains what was promised unless a source was unreadable, a
  scan that found enforcement armed began at or before a time when it was, and a rogue that
  is being isolated was not trusted. `RegistryFits` relates the registry to what was
  promised, also while a save is under way. `SwitchIsolationsLogged` takes both halves:
  `LogFits` is what ThreatLog's own theorems say of a log that is called by these threads,
  and `LoggedIInv` that whatever is isolated is `Covered`, listed or still owed by a
  response under way: in the file while nobody has emptied it, and in the rows of the call
  that has, which replace it.
- **CiscoConfigProofs**: `ConfigTypes`, `EnableMarkSound`. Batches are cut with `Max` and
  `Min` over sets of line numbers, so `MaxIsGreatest` and `MinIsLeast` come first, from the
  well-foundedness of the natural numbers; `BatchKnown` says that cutting always moves on
  and makes up no line, for every command sequence and batch size, and `AppliedKnown` what
  a configuration is after any lines. `ConfigIInv` is the conjunction of the two.
  `ConfigReportedIsLive`, `ConfigPromisedSurvives` and `ConfigNoPortOrphaned` need that
  sending the batches in turn does what the lines do as a whole, although each batch opens
  at the top level and may begin in the middle of a block. `Proper` says of the lines what
  makes that true (no sub-command after an `exit` of its block), `CommandsProper` that the
  driver's lines have it, `EnteredIs` which header a batch repeats, and `BatchDone`, from
  `BatchIs` and `WrittenSame`, that a batch takes a configuration with the lines before it
  done to one with the lines up to its end done. `VlanGoesLast` and `DeleteClears` are about
  `delete_vlan`: every port has left the VLAN by the line that removes it. `LiveIInv` then
  says that the running configuration is, at each batch of a call, what the lines sent so
  far make of it (`CallLive`), and that what was reported is in it (`PromisesLive`).
- **BackendProofs**, the jobs: `JobsTypes`, `JobsNoJobStuck`, `JobsQuietWhenAlone`,
  `JobsCadenceRestored`. `JobsIInv` says that a paused job is owed a resume by some active
  request (`PausedIsOwed`), and that a request that has been alone remembers exactly the
  cadence. The policy: `PolicyTypes`, `PolicyIsHeld`. `PolicyIInv` says of a run that is
  still quiet which of the three vendors it has brought to the policy (`QuietRunAgrees`),
  and that no other run is under way; any failure, overlap or change of the hour, the
  window or an SSID makes it a run of which nothing is claimed (`DisturbedStep`).
  The accounts: `AccountsTypes`, `AccountsSurviveRestart`, `AccountsKeepAnAdmin`. The
  invariant relates the file to the process: between saves, what the file gives a restart is
  what the process has, and both have an admin.
- **ConsoleProofs**, the event bus: `BusTypes`, `BusEventsInOrder`, `BusNewestKept`,
  `BusNothingLostWithRoom`. `BusIInv` relates, per connection, what was sent, what is
  queued and what is in the task's hand to the events fanned out since it subscribed. The
  inventory: `InventoryTypes`, `InventoryAnswersAreRecent`, for any number of threads, life
  of the cache and length of a read. The invariant follows a list on its way: a version in a
  reader's hands was edited no earlier than the read began, so the cache got it at most
  `ReadTime` after that edit, and a hit is less than `Ttl` later. The pages: `PagesTypes`,
  `EditsAreShown`. A handler that has yet to load has the loads of its click before it
  (`WorkFits`), so a list that it changed is shown as it is, or is about to be loaded
  (`Shows`); `OfferedFit` says that every click a tab offers, and every one that waits, is
  one its handler can answer.
- **RestDriversProofs**, the router: `RouterTypes`, `RouterManagementKept`, for any
  requests and segments. What a clear removes was decided three calls before, so
  `RouterIInv` adds that a chain that has read the networks holds the management's among
  what it keeps, and one that has read the servers its pool; `CallKeeps` is the one lemma by
  which every call that raises or answers keeps it. `RouterProvisionServes` and
  `RouterTeardownComplete` need `AnswerIInv`: what a lone request has made of its segment, or
  taken away, at each step of its chain (`Reached`, `Undone`), with the calls whose answer
  was lost counted by what a read then confirms. The controller: `WifiTypes`,
  `DeletedIsGone`, `ProvisionLeavesItsOne`. Ids are given out once (`IdsOf`), a delete that
  did not raise has removed its SSID before it is reported (`TaskFits`), and an
  undisturbed provision has, step by step, a profile of its VLAN and no SSID of its name but
  those it is about to delete (`ProvisionFits`).
- **ProvisionProofs**: `ProvisionTypes`, `ProvisionGivesSessionsBack`,
  `ProvisionTrunksReach`, `ProvisionTeardownUntrunks`, for any number of requests, VLANs,
  ports, peers, lines and faults. The sessions a request holds are those its record says it
  has (`RequestFits`), and none when it ends. `LoneFits` says what a lone request without a
  failure has found and made at each stage: which of the peers that were located are at the
  port it knows, which ports it has trunked, and which trunks of a deleted VLAN it has still
  to go through; `DoneFits` is what remains of that at its end.

**Types.** The type invariants of the modules with proofs are theorems and are not checked
again in the runs.

**Only model-checked.** Liveness (`CallsReturn`, `ScheduleKeepsRunning`, `PolicyConverges`,
`TasksEnd`, `FeedConverges`, `EventsDelivered`, `GoneUnsubscribed`) is beyond the prover, as
ENABLED is. Every safety invariant and every action property of the passing runs is a
theorem. What a recursive definition computes for every input cannot be proved
with the provers at hand (induction over data), so no module here uses recursion.

## 5. Findings

- `audit_log_atomic`: the rename of the audit log is said to be atomic, "never a
  half-written log" (`core/security.py:576`), and two flushes share one temporary file.
- `kill_switch_sessions`: the lock is said to keep two shutdowns from opening simultaneous
  sessions (`services/kill_switch.py:98-100`), and a shutdown that raises leaves its
  session open behind the lock.
- `kill_switch_managed`: "a managed switch/router/AP is never its own rogue"
  (`inventory/netbox_client.py:244`), and a Cisco table's spelling never equals an
  inventory's.
- `device_jobs_overlap`: jobs are said to be paused for the duration
  (`api/endpoints.py:1175`), and the first of two requests to end resumes them.
- `cisco_config_commit`: the commit that closes a failed run is to persist "whatever did
  apply before the failure" (`api/endpoints.py:1278`), and a write that raised never sets
  the mark that commit looks at (`drivers/cisco_driver.py:738`).

- `console_alerts`: the alert channel "reconnects with backoff while signed in"
  (`frontend/frontend.py:615`), and `toggle_live`, which ends it when the updates are
  switched off, starts the poll alone when they are switched on (`:492`).

**Exempted, and why.** Where the code breaks what its comments promise, the property that
is run and proved names the case it leaves out, and a second one next to it states the
promise whole. No run claims these; TLC violates each of them when it is given as the only
invariant (or, for the last, property) of the configuration named:

| Promise | Said at | Broken because | Exempt in | Configuration |
|---|---|---|---|---|
| `ManagementNeverCleared` | `clear_dhcp_pools`: "while NEVER removing the management-critical config" (`drivers/mikrotik_driver.py:675-676`) | `_protected_dhcp` returns an empty protection for a router known by a name (`:616-624`), and the clear goes on | `ManagementKept` | `MCProvisioning.cfg` |
| `TeardownLeavesNone` | `find_trunks_carrying_vlan`: "whatever carries the VLAN loses it, wherever it happens to be" (`drivers/cisco_driver.py:975-976`) | it reads the operational trunks, and a port whose link is down keeps the VLAN | `TeardownUntrunks` | `MCProvisioning.cfg` |
| `VerifiedIsLive` | `_write_then_verify`: "True when the write raised but the change is live" | `verify_trunk_carries_vlan` compares with `startswith`, and `Fa0/13` answers for `Fa0/1` (`drivers/cisco_driver.py:384`) | `ReportedIsLive` | `MCCiscoConfig.cfg` |
| `AccountsSurvive` | "accounts and password changes SURVIVE a backend restart" (`core/security.py:307-311`) | `_save_users` logs an `OSError`, and create, delete and change report success (`:339-340`) | `RestartKeepsAccounts` | `MCRecords.cfg` |
| `DueTimeRestored` | `resume_device_jobs`: "restoring their original due time", with the grace for "a job whose due time passed" (`services/scheduler.py:473-477`) | `max(original, now + grace)` also moves a due time that lies ahead within the grace period (`:490`) | `CadenceRestored` | `MCBackground.cfg` |

**Seen on the way, without a run.** `services/scheduler.py` annotates `pause_device_jobs`
and `resume_device_jobs` with `Dict`, `Any` and `Optional` (`:451`, `:456`, `:472`) and
imports none of them, so that under the `Dockerfile`'s Python 3.11 the module raises
`NameError` when `main.py` and `api/endpoints.py` import it; the models take the functions
as they are written. A list from the inventory's cache is answered without
an error during an outage until its life is over, although a comment says that "an outage is
never masked by stale data" (`inventory/netbox_client.py:36`). `clear_dhcp_pools` goes on
with a part of its protection missing when a read of it failed (`blind` in `RouterConfig`).
`delete_dhcp_network` reports a pool or a network as removed when the router answered and
did nothing. `create_vlan_segment` reuses a DHCP server of the
VLAN's name with the pool it has, also when the request names another. `toggle_port` of
the console uses the device that is selected when the handler runs, and not the one whose
button was clicked. A seeded account that was deleted is there again after a restart.

## 6. The plan

Done: `ThreatLog`, `KillSwitch`, `AuditLog`, `DeviceJobs`, `EventBus`, `CiscoConfig`,
`Provision` with the search for the uplinks, `RouterConfig`, `WifiConfig`, `TimePolicy`,
`Inventory`, `Accounts`, `Console`, `ConsolePages`, and their safety as theorems. Next: an
abstract segment that is there or not, implemented by the three chains together.

## 7. What is not modelled, and why

The rate limiter: a sliding window that one coroutine reads and writes without an await,
so that every case of it is a unit test's. Cryptography, token and key formats (library
code); the parsing of SNMP packets, command output and HTTP bodies beyond what the
properties tell apart; printing and logging; metrics and monitoring, which only read; the
OUI table and the device factory, which have no state; start-up, which wires the rest;
Wake-on-LAN, which sends datagrams and keeps nothing. Of the drivers, the reads that only
feed a page. Of the console, layout, and the pages that only show what a call answered.
The bulk Nornir operations repeat one driver call per host.
