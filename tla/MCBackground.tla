----------------------------- MODULE MCBackground -----------------------------
(***************************************************************************)
(* What goes on in the background, each on a small instance: the           *)
(* scheduler's jobs under admin requests, the time policy's runs, the      *)
(* console's two tasks, and the responses of the kill switch.  They share  *)
(* no state, so one of them, focus, moves in a behaviour.                  *)
(***************************************************************************)
EXTENDS DeviceJobs, TimePolicy, Console

CONSTANTS rogue_scan, time_policy, hourly, by_hand,
          scan, alert, d1, p1

\* Two jobs of different intervals, and a grace period shorter than one and as long as
\* the other, so that a due time may lie within it or beyond.
MCInterval == [j \in Job |-> IF j = rogue_scan THEN 3 ELSE 2]

\* The restricted time spans midnight, is the same the other way round, or is off.
MCDefaultWindow == [start |-> 2, end |-> 1, enabled |-> TRUE]
MCWindow == {MCDefaultWindow,
             [start |-> 1, end |-> 2, enabled |-> TRUE],
             [start |-> 1, end |-> 2, enabled |-> FALSE]}

VARIABLES call, lock, leaked, portUp, mode, registry, saving, calls, promised, misread,
          isolated, file, job, owed, disturbed

\* One infrastructure machine behind one port of one switch with one line.
Switch == INSTANCE KillSwitch WITH
    Scanner <- {scan}, Alerter <- {alert}, Operator <- {},
    Device <- {d1}, Port <- {p1}, DeviceOf <- [p \in {p1} |-> d1],
    Infrastructure <- {p1}, Managed <- {}, Lines <- 1, MaxCalls <- 3

VARIABLE focus

switchVars == <<call, lock, leaked, portUp, mode, registry, saving, calls, promised, misread,
                isolated, file, job, owed, disturbed>>

mcVars == <<vars, policyVars, consoleVars, switchVars, focus>>

MCInit ==
    /\ focus \in {"jobs", "policy", "console", "switch"}
    /\ Init /\ PolicyInit /\ ConsoleInit /\ Switch!Init
    /\ focus # "policy" => AccessAgrees

InJobs == focus = "jobs" /\ UNCHANGED <<focus, policyVars, consoleVars, switchVars>>
InPolicy == focus = "policy" /\ UNCHANGED <<focus, vars, consoleVars, switchVars>>
InConsole == focus = "console" /\ UNCHANGED <<focus, vars, policyVars, switchVars>>
InSwitch == focus = "switch" /\ UNCHANGED <<focus, vars, policyVars, consoleVars>>

MCNext ==
    \/ InJobs /\ Next
    \/ InPolicy /\ PolicyNext
    \/ InConsole /\ ConsoleNext
    \/ InSwitch /\ Switch!Next

\* The fairness of the modules.  Only the actions of one of them are ever enabled, so a
\* conjunct for several is the conjunction of theirs.
MCFairness ==
    /\ WF_mcVars(\/ InJobs /\ Tick
                 \/ InPolicy /\ BeginRun(hourly)
                 \/ InConsole /\ StartFeed
                 \/ InSwitch /\ Switch!SessionStep(scan))
    /\ WF_mcVars(\/ InJobs /\ Start(rogue_scan)
                 \/ InPolicy /\ RunStep(hourly)
                 \/ InConsole /\ StartSock
                 \/ InSwitch /\ Switch!SessionStep(alert))
    /\ WF_mcVars(\/ InJobs /\ Start(time_policy)
                 \/ InPolicy /\ RunStep(by_hand)
                 \/ InConsole /\ FeedGoesOn
                 \/ InSwitch /\ Switch!ScanStep(scan))
    /\ WF_mcVars(\/ InJobs /\ Finish(rogue_scan)
                 \/ InConsole /\ SockGoesOn)
    /\ WF_mcVars(\/ InJobs /\ Finish(time_policy)
                 \/ InConsole /\ Guard)
    /\ \A o \in Operation : WF_mcVars(InJobs /\ OpStep(o))

MCSpec == MCInit /\ [][MCNext]_mcVars /\ MCFairness

\* JobsKeepRunning of DeviceJobs: every job of start_scheduler is started again and again,
\* through any overlap of requests.
ScheduleKeepsRunning == <>[](focus = "jobs") => JobsKeepRunning

\* CallsReturn of KillSwitch: every scan and every alert returns.
CallsReturn == Switch!CallsReturn

=============================================================================
