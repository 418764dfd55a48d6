----------------------------- MODULE TimePolicy -----------------------------
(***************************************************************************)
(* The time-based access policy: auto_enforce_time_policy of               *)
(* services/scheduler.py, schedule_policy.py and the requests that set the *)
(* window, on one switch, one edge router and one UniFi controller.        *)
(*                                                                         *)
(* A run reads the hour and the window once, and then works through the    *)
(* devices; what a device raises is logged and the run goes on with the    *)
(* next one.  The scheduler runs one instance at a time, and a run that an *)
(* administrator triggers may overlap it.  set_policy empties the file     *)
(* before it writes it, and a run or a new process that finds it empty     *)
(* falls back to DEFAULT_POLICY.                                           *)
(*                                                                         *)
(* Left out: the sessions that a device that raised leaves open, for which *)
(* nothing here waits, and the Wake-on-LAN packets, which change nothing   *)
(* the program keeps.                                                      *)
(***************************************************************************)
EXTENDS Naturals, FiniteSets

CONSTANTS Scheduled, Manual,   \* runs: the job's, and those an administrator triggers
          LastHour,            \* hours are 0..LastHour
          Window,              \* windows that may be set: records [start, end, enabled]
          DefaultWindow,       \* DEFAULT_POLICY
          Torn,                \* the policy file between open('w') and close
          Ssid, ProtectedSsid, \* SSIDs, and those whose name has a management keyword
          MaxChanges,          \* bound on hours, settings, toggles, triggers and restarts
          MaxPolicyFaults      \* bound on the calls that raise

Hours == 0..LastHour
WindowType == [start : Hours, end : Hours, enabled : BOOLEAN]

ASSUME PolicyAssumption ==
    /\ LastHour \in Nat
    /\ Window \subseteq WindowType
    /\ DefaultWindow \in WindowType
    /\ Torn \notin WindowType
    /\ ProtectedSsid \subseteq Ssid
    /\ MaxChanges \in Nat /\ MaxPolicyFaults \in Nat

VARIABLES hour,          \* the clock
          policyFile,    \* schedule_policy.json
          setting,       \* the window a request is writing, or Torn when none is
          acl,           \* the switch has the access list UAF-OFF-HOURS
          rules,         \* firewall rules of the router with the tag UAF-OFF-HOURS-ACL
          wan,           \* ether1 of the router is up
          broadcast,     \* SSIDs that are enabled
          run,           \* run[r]: where run r stands
          changes,       \* changes so far
          policyFaults,  \* calls that raised
          settled        \* history: a run alone, undisturbed and without failure has ended,
                         \*   and nothing has changed since

deviceVars == <<acl, rules, wan, broadcast>>
policyVars == <<hour, policyFile, setting, deviceVars, run, changes, policyFaults, settled>>

Run == Scheduled \cup Manual
RunStages == {"idle", "cisco", "check", "rule", "wan", "wifi"}
NoRun == [stage |-> "idle", restricted |-> FALSE, quiet |-> FALSE]

PolicyTypeOK ==
    /\ hour \in Hours
    /\ policyFile \in Window \cup {DefaultWindow, Torn}
    /\ setting \in Window \cup {Torn}
    /\ acl \in BOOLEAN /\ wan \in BOOLEAN
    /\ rules \in Nat
    /\ broadcast \subseteq Ssid
    /\ run \in [Run -> [stage : RunStages, restricted : BOOLEAN, quiet : BOOLEAN]]
    /\ changes \in 0..MaxChanges
    /\ policyFaults \in 0..MaxPolicyFaults
    /\ settled \in BOOLEAN

-----------------------------------------------------------------------------

\* is_restricted_now: a window whose start is after its end wraps past midnight.
Restricted(w, h) ==
    /\ w.enabled
    /\ IF w.start <= w.end THEN w.start <= h /\ h < w.end ELSE h >= w.start \/ h < w.end

\* _load: an unreadable file is the default.
Loaded == IF policyFile = Torn THEN DefaultWindow ELSE policyFile

RestrictedNow == Restricted(Loaded, hour)

\* The devices do what the policy file asks for at this hour.
AccessAgrees ==
    /\ acl = RestrictedNow
    /\ (rules > 0) = RestrictedNow
    /\ wan = ~RestrictedNow
    /\ broadcast \ ProtectedSsid = IF RestrictedNow THEN {} ELSE Ssid \ ProtectedSsid

PolicyInit ==
    /\ hour \in Hours
    /\ policyFile = DefaultWindow
    /\ setting = Torn
    /\ acl = FALSE
    /\ rules = 0
    /\ wan = TRUE
    /\ broadcast = Ssid
    /\ run = [r \in Run |-> NoRun]
    /\ changes = 0
    /\ policyFaults = 0
    /\ settled = FALSE

-----------------------------------------------------------------------------
(* What happens around the runs.                                            *)

\* Something the policy depends on or decides about changes under the runs.
Disturb ==
    /\ changes < MaxChanges
    /\ changes' = changes + 1
    /\ settled' = FALSE
    /\ run' = [r \in Run |-> [run[r] EXCEPT !.quiet = FALSE]]

HourPasses ==
    /\ Disturb
    /\ hour' = (hour + 1) % (LastHour + 1)
    /\ UNCHANGED <<policyFile, setting, deviceVars, policyFaults>>

\* set_policy, up to the write.
SetWindow(w) ==
    /\ setting = Torn
    /\ Disturb
    /\ policyFile' = Torn
    /\ setting' = w
    /\ UNCHANGED <<hour, deviceVars, policyFaults>>

\* set_policy, the write at close.
WindowSaved ==
    /\ setting # Torn
    /\ policyFile' = setting
    /\ setting' = Torn
    /\ settled' = FALSE
    /\ run' = [r \in Run |-> [run[r] EXCEPT !.quiet = FALSE]]
    /\ UNCHANGED <<hour, deviceVars, changes, policyFaults>>

\* An operator edits the SSID.
ToggleSsid(s) ==
    /\ Disturb
    /\ broadcast' = IF s \in broadcast THEN broadcast \ {s} ELSE broadcast \cup {s}
    /\ UNCHANGED <<hour, policyFile, setting, acl, rules, wan, policyFaults>>

\* A new process: the runs are gone, and a file being written stays empty.
PolicyRestart ==
    /\ changes < MaxChanges
    /\ changes' = changes + 1
    /\ run' = [r \in Run |-> NoRun]
    /\ setting' = Torn
    /\ settled' = FALSE
    /\ UNCHANGED <<hour, policyFile, deviceVars, policyFaults>>

-----------------------------------------------------------------------------
(* auto_enforce_time_policy.                                                *)

\* The run begins: the hour and the window are read here, once.
BeginRun(r) ==
    /\ run[r].stage = "idle"
    /\ r \in Manual => changes < MaxChanges
    /\ changes' = IF r \in Manual THEN changes + 1 ELSE changes
    /\ LET alone == \A q \in Run : run[q].stage = "idle"
       IN  run' = [q \in Run |->
              IF q = r THEN [stage |-> "cisco", restricted |-> RestrictedNow, quiet |-> alone]
              ELSE [run[q] EXCEPT !.quiet = FALSE]]
    /\ settled' = FALSE
    /\ UNCHANGED <<hour, policyFile, setting, deviceVars, policyFaults>>

PolicyGoto(r, stage) ==
    /\ run' = [run EXCEPT ![r].stage = stage]
    /\ UNCHANGED settled

\* The run goes on with the next device after one that raised.
Skips(r, stage) ==
    /\ policyFaults < MaxPolicyFaults
    /\ policyFaults' = policyFaults + 1
    /\ run' = [run EXCEPT ![r] = IF stage = "idle" THEN NoRun
                                 ELSE [@ EXCEPT !.stage = stage, !.quiet = FALSE]]
    /\ UNCHANGED settled

\* A bug: the access list of restricted hours is never removed.
EnforceCiscoOnce(r) ==
    /\ run[r].stage = "cisco"
    /\ \/ /\ acl' = (acl \/ run[r].restricted)
          /\ UNCHANGED policyFaults
          /\ PolicyGoto(r, IF run[r].restricted THEN "check" ELSE "rule")
       \/ /\ acl' \in {acl, FALSE, run[r].restricted}
          /\ Skips(r, IF run[r].restricted THEN "check" ELSE "rule")
    /\ UNCHANGED <<hour, policyFile, setting, rules, wan, broadcast, changes>>

\* The access list is removed, and in restricted hours written anew.
EnforceCisco(r) ==
    /\ run[r].stage = "cisco"
    /\ \/ /\ acl' = run[r].restricted
          /\ UNCHANGED policyFaults
          /\ PolicyGoto(r, IF run[r].restricted THEN "check" ELSE "rule")
       \/ /\ acl' \in {acl, FALSE, run[r].restricted}
          /\ Skips(r, IF run[r].restricted THEN "check" ELSE "rule")
    /\ UNCHANGED <<hour, policyFile, setting, rules, wan, broadcast, changes>>

\* In restricted hours: is a rule with the tag there?  A check that raises finds none.
CheckRule(r) ==
    /\ run[r].stage = "check"
    /\ \/ UNCHANGED policyFaults /\ PolicyGoto(r, IF rules > 0 THEN "wan" ELSE "rule")
       \/ Skips(r, "rule")
       \/ Skips(r, "wifi")  \* the connect raises
    /\ UNCHANGED <<hour, policyFile, setting, deviceVars, changes>>

\* A bug: one rule with the tag is removed.
ChangeRulesByOne(r) ==
    /\ run[r].stage = "rule"
    /\ LET new == IF run[r].restricted THEN rules + 1
                  ELSE IF rules > 0 THEN rules - 1 ELSE 0
       IN  /\ rules' = new
           /\ UNCHANGED policyFaults
           /\ PolicyGoto(r, "wan")
    /\ UNCHANGED <<hour, policyFile, setting, acl, wan, broadcast, changes>>

\* The rule is added, or every rule with the tag is removed, one after the other.
ChangeRules(r) ==
    /\ run[r].stage = "rule"
    /\ \/ /\ rules' = IF run[r].restricted THEN rules + 1 ELSE 0
          /\ UNCHANGED policyFaults
          /\ PolicyGoto(r, "wan")
       \/ /\ rules' \in IF run[r].restricted THEN {rules, rules + 1} ELSE 0..rules
          /\ Skips(r, "wifi")
    /\ UNCHANGED <<hour, policyFile, setting, acl, wan, broadcast, changes>>

\* ether1 of an edge router is shut in restricted hours and enabled otherwise.
SwitchWan(r) ==
    /\ run[r].stage = "wan"
    /\ \/ wan' = ~run[r].restricted /\ UNCHANGED policyFaults /\ PolicyGoto(r, "wifi")
       \/ wan' \in {wan, ~run[r].restricted} /\ Skips(r, "wifi")
    /\ UNCHANGED <<hour, policyFile, setting, acl, rules, broadcast, changes>>

\* What set_all_wlans_enabled makes of the SSIDs.
AsScheduled(r) ==
    IF run[r].restricted THEN broadcast \cap ProtectedSsid
    ELSE broadcast \cup (Ssid \ ProtectedSsid)

\* The SSIDs follow, and the run ends.  A write that raises leaves the rest as they are.
SwitchSsids(r) ==
    /\ run[r].stage = "wifi"
    /\ \/ /\ broadcast' = AsScheduled(r)
          /\ UNCHANGED policyFaults
          /\ run' = [run EXCEPT ![r] = NoRun]
          /\ settled' = run[r].quiet
       \/ /\ \E some \in SUBSET Ssid :
                broadcast' = {s \in Ssid : IF s \in some THEN s \in AsScheduled(r)
                                           ELSE s \in broadcast}
          /\ Skips(r, "idle")
    /\ UNCHANGED <<hour, policyFile, setting, acl, rules, wan, changes>>

RunStep(r) ==
    EnforceCisco(r) \/ CheckRule(r) \/ ChangeRules(r) \/ SwitchWan(r) \/ SwitchSsids(r)

PolicyNext ==
    \/ HourPasses
    \/ \E w \in Window : SetWindow(w)
    \/ WindowSaved
    \/ \E s \in Ssid : ToggleSsid(s)
    \/ PolicyRestart
    \/ \E r \in Run : BeginRun(r) \/ RunStep(r)

PolicySpec == PolicyInit /\ [][PolicyNext]_policyVars

\* The scheduler fires the job again and again, and a thread goes on with its run.
PolicyFairness ==
    /\ \A r \in Scheduled : WF_policyVars(BeginRun(r))
    /\ \A r \in Run : WF_policyVars(RunStep(r))

FairPolicySpec == PolicySpec /\ PolicyFairness

-----------------------------------------------------------------------------

\* When a run has ended that was alone, met no failure and had the hour, the window and
\* the SSIDs to itself, every device does what the policy asks for: no rule is left of
\* the many that failed checks may have added, and no SSID forgotten.
PolicyHeldAfterQuietRun == settled => AccessAgrees

\* Whatever runs overlapped with a window or an hour that was over, whatever failed or
\* was cut short by a restart, the scheduled runs bring the devices to the policy and
\* keep them there.
PolicyConverges == <>[]AccessAgrees

=============================================================================
