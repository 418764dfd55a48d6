------------------------------ MODULE ThreatLog ------------------------------
(***************************************************************************)
(* The threat log of services/kill_switch.py: logs/security_threats.json,  *)
(* a JSON list that KillSwitchService reads, changes in memory and writes  *)
(* back.  No lock protects the file, and its writers run in different      *)
(* threads (the scheduler's, the background tasks of the API, the SNMP     *)
(* dispatcher), so every call is split here at its file accesses:          *)
(*                                                                         *)
(*    open('r') + json.load  ->  open('w')  ->  json.dump + close          *)
(*        ReadLog               TruncateLog        WriteLog                *)
(*                                                                         *)
(* open('w') empties the file at once, and what json.dump produced reaches *)
(* it when the buffer is flushed at close.  A reader in between finds no   *)
(* JSON and takes the log to be [].  Two writers that both hold the file   *)
(* open write over each other from offset 0: the longer text leaves a tail *)
(* that makes the file unreadable.                                         *)
(*                                                                         *)
(* A row is abstracted to what the code's de-duplication compares: the key *)
(* (device, port, MAC) and the action taken.  Time stamps, vendor labels   *)
(* and the detection counter are left out.                                 *)
(***************************************************************************)
EXTENDS Naturals, Sequences

CONSTANTS Writer,   \* threads that call KillSwitchService
          Key,      \* the (device_name, port_id, mac_address) of a row
          NoKey     \* the key of a call that has none

VARIABLES file,     \* the file: its readability, and the rows json.load finds
          job,      \* job[w]: the call w is in, and where it stands in it
          owed,     \* history: keys recorded by a finished call, not cleared since
          disturbed \* history: whether two calls overlapped, or one was cut short

logVars == <<file, job, owed, disturbed>>

Detected == "detected_only"
Incidents == {"port_shutdown", "attempted_shutdown"}
Row == [key : Key, action : {Detected} \cup Incidents]

\* A file that is empty or corrupt makes json.load raise: its rows read as [].
File == [state : {"whole", "empty", "corrupt"}, rows : Seq(Row)]
Whole(rows) == [state |-> "whole", rows |-> rows]
Unreadable(state) == [state |-> state, rows |-> << >>]

NoRow == [key |-> NoKey, action |-> "none"]
NoJob == [stage |-> "idle", op |-> "none", row |-> NoRow, rows |-> << >>]
Call(op, stage, row) == [stage |-> stage, op |-> op, row |-> row, rows |-> << >>]

LogCall == [stage : {"idle", "read", "truncate", "write"},
            op : {"none", "detect", "incident", "clear"},
            row : Row \cup {NoRow}, rows : Seq(Row)]

KeysOf(rows) == {rows[i].key : i \in DOMAIN rows}
Busy == {w \in Writer : job[w].stage # "idle"}
IncidentKeys(rows) == {rows[i].key : i \in {n \in DOMAIN rows : rows[n].action \in Incidents}}

-----------------------------------------------------------------------------

\* __init__ writes "[]" when there is no file yet.
LogInit ==
    /\ file = Whole(<< >>)
    /\ job = [w \in Writer |-> NoJob]
    /\ owed = {}
    /\ disturbed = FALSE

\* A call begins: it runs alone unless another one is under way.
Begin(w, j) ==
    /\ job[w].stage = "idle"
    /\ job' = [job EXCEPT ![w] = j]
    /\ disturbed' = (disturbed \/ Busy # {})

\* record_detection: the learning-mode entry point.
RecordDetection(w, k) ==
    /\ Begin(w, Call("detect", "read", [key |-> k, action |-> Detected]))
    /\ UNCHANGED <<file, owed>>

\* _log_incident, after a shutdown that worked or one that was attempted.
LogIncident(w, k, action) ==
    /\ Begin(w, Call("incident", "read", [key |-> k, action |-> action]))
    /\ UNCHANGED <<file, owed>>

\* clear_threat_log writes "[]" without reading.
ClearThreatLog(w) ==
    /\ Begin(w, Call("clear", "truncate", NoRow))
    /\ UNCHANGED <<file, owed>>

-----------------------------------------------------------------------------

\* The index of the first row of this key: the loop breaks at the first match.
FirstOf(rows, k, i) ==
    /\ i \in DOMAIN rows
    /\ rows[i].key = k
    /\ \A j \in DOMAIN rows : rows[j].key = k => i <= j

\* A bug: any detection counts as this one.
AlreadyDetectedAny(rows, k) ==
    \E i \in DOMAIN rows : rows[i].action = Detected

AlreadyDetected(rows, k) ==
    \E i \in DOMAIN rows : rows[i] = [key |-> k, action |-> Detected]

\* record_detection finds the device in the log already and returns its row.
DetectionKnown(w) ==
    /\ job[w].stage = "read"
    /\ job[w].op = "detect"
    /\ AlreadyDetected(file.rows, job[w].row.key)
    /\ job' = [job EXCEPT ![w] = NoJob]
    /\ owed' = owed \cup {job[w].row.key}
    /\ UNCHANGED <<file, disturbed>>

\* A bug: an incident looks for an earlier incident only, and misses the detection.
ChangedMissesDetections(rows, op, row, new) ==
    \/ /\ op = "detect"
       /\ ~AlreadyDetected(rows, row.key)
       /\ new = Append(rows, row)
    \/ /\ op = "incident"
       /\ new = Append(rows, row)

\* A bug: a detection takes over the row of its key, as an incident does.
ChangedOverwrites(rows, op, row, new) ==
    \/ /\ row.key \notin KeysOf(rows)
       /\ new = Append(rows, row)
    \/ \E i \in DOMAIN rows :
          /\ FirstOf(rows, row.key, i)
          /\ new = [rows EXCEPT ![i] = row]

\* What the call makes of the rows it read: a detection not yet in the log is
\* appended; an incident replaces the first row of its key, whatever that row's
\* action was, or is appended when there is none.
Changed(rows, op, row, new) ==
    \/ /\ op = "detect"
       /\ ~AlreadyDetected(rows, row.key)
       /\ new = Append(rows, row)
    \/ /\ op = "incident"
       /\ row.key \notin KeysOf(rows)
       /\ new = Append(rows, row)
    \/ /\ op = "incident"
       /\ \E i \in DOMAIN rows :
             /\ FirstOf(rows, row.key, i)
             /\ new = [rows EXCEPT ![i] = row]

\* The results of Changed are among these.
Candidates(rows, row) ==
    {Append(rows, row)} \cup {[rows EXCEPT ![i] = row] : i \in DOMAIN rows}

ReadLog(w) ==
    /\ job[w].stage = "read"
    /\ \E new \in Candidates(file.rows, job[w].row) :
          /\ Changed(file.rows, job[w].op, job[w].row, new)
          /\ job' = [job EXCEPT ![w].stage = "truncate", ![w].rows = new]
    /\ UNCHANGED <<file, owed, disturbed>>

TruncateLog(w) ==
    /\ job[w].stage = "truncate"
    /\ file' = Unreadable("empty")
    /\ job' = [job EXCEPT ![w].stage = "write"]
    /\ UNCHANGED <<owed, disturbed>>

\* The text replaces an empty file; over another writer's text it may leave a tail.
Flushed(rows) ==
    {Whole(rows)} \cup
    IF file.state = "empty" \/ file = Whole(rows) THEN {} ELSE {Unreadable("corrupt")}

WriteLog(w) ==
    /\ job[w].stage = "write"
    /\ file' \in Flushed(job[w].rows)
    /\ job' = [job EXCEPT ![w] = NoJob]
    /\ owed' = IF job[w].op = "clear" THEN {} ELSE owed \cup {job[w].row.key}
    /\ UNCHANGED disturbed

\* The steps of a call once it has begun.
LogStep(w) == DetectionKnown(w) \/ ReadLog(w) \/ TruncateLog(w) \/ WriteLog(w)

\* The process stops and starts again.  Calls under way are lost; the file stays as
\* it was, emptied if a call had just opened it for writing.
LogRestart ==
    /\ Busy # {}
    /\ job' = [w \in Writer |-> NoJob]
    /\ disturbed' = (disturbed \/ \E w \in Writer : job[w].stage = "write")
    /\ UNCHANGED <<file, owed>>

LogNext ==
    \/ \E w \in Writer :
          \/ \E k \in Key : RecordDetection(w, k)
          \/ \E k \in Key, a \in Incidents : LogIncident(w, k, a)
          \/ ClearThreatLog(w)
          \/ LogStep(w)
    \/ LogRestart

LogSpec == LogInit /\ [][LogNext]_logVars

-----------------------------------------------------------------------------

LogTypeOK ==
    /\ file \in File
    /\ job \in [Writer -> LogCall]
    /\ owed \subseteq Key
    /\ disturbed \in BOOLEAN

\* get_active_threats: what the Security page lists.
ActiveThreats == file.rows

\* Rows of one key: at most one incident, at most one detection, and the incident
\* comes first.  A later detection of an isolated device is a second row.
Deduplicated(rows) ==
    \A i, j \in DOMAIN rows :
        (i < j /\ rows[i].key = rows[j].key) =>
            (rows[i].action \in Incidents /\ rows[j].action = Detected)

\* However the calls of different threads overlap, the Security page never shows a
\* device of a port twice as an incident or twice as a detection, the promise of the
\* two de-duplication loops.
NoDuplicateRows == Deduplicated(ActiveThreats)

\* As long as no two calls overlapped, every device a call has recorded since the log
\* was last cleared is still listed, and no reader finds the file unreadable.
UndisturbedHistoryKept ==
    (~disturbed /\ Busy = {}) => (owed \subseteq KeysOf(ActiveThreats) /\ file.state = "whole")

\* The update a call makes in memory keeps every incident that it read: a later
\* detection of an isolated device never takes the incident's place.
IncidentsSurviveUpdates ==
    [][\A w \in Writer :
          (job[w].stage = "read" /\ job'[w].stage = "truncate")
             => IncidentKeys(file.rows) \subseteq IncidentKeys(job'[w].rows)]_logVars

=============================================================================
