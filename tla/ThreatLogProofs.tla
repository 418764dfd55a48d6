-------------------------- MODULE ThreatLogProofs --------------------------
(***************************************************************************)
(* Theorems about ThreatLog, for any threads and any keys: its types, that *)
(* the Security page never lists a device of a port twice, that an update  *)
(* keeps every incident it read, and that nothing recorded is lost as long *)
(* as calls come one at a time.                                            *)
(*                                                                         *)
(* NoDuplicateRows speaks of the file alone and is not inductive: what a   *)
(* thread writes was computed from what it read earlier.  The invariant    *)
(* that is adds two facts: the rows a call holds in memory are free of     *)
(* duplicates too, and the row it records is one that its operation makes. *)
(***************************************************************************)
EXTENDS ThreatLog, TLAPS

\* The row of a call is one its operation records.
RowFits(j) ==
    /\ (j.stage = "idle") <=> (j.op = "none")
    /\ j.stage = "read" => j.op \in {"detect", "incident"}
    /\ j.op = "detect" => j.row \in [key : Key, action : {Detected}]
    /\ j.op = "incident" => j.row \in [key : Key, action : Incidents]
    /\ j.stage = "write" => j.op \in {"detect", "incident", "clear"}

LogIInv ==
    /\ LogTypeOK
    /\ Deduplicated(file.rows)
    /\ \A w \in Writer : RowFits(job[w]) /\ Deduplicated(job[w].rows)

-----------------------------------------------------------------------------

\* The empty list, what a reader makes of an unreadable file, has no duplicates.
LEMMA EmptyDeduplicated == << >> \in Seq(Row) /\ Deduplicated(<< >>)
  BY DEF Deduplicated

\* Appending a detection that is not in the list yet keeps it free of duplicates.
LEMMA AppendDetection ==
  ASSUME NEW rows \in Seq(Row), Deduplicated(rows),
         NEW row \in [key : Key, action : {Detected}],
         ~AlreadyDetected(rows, row.key)
  PROVE  /\ Append(rows, row) \in Seq(Row)
         /\ Deduplicated(Append(rows, row))
<1> DEFINE new == Append(rows, row)
<1>1. row \in Row
  BY DEF Row
<1>2. /\ new \in Seq(Row)
      /\ Len(new) = Len(rows) + 1
      /\ DOMAIN new = 1 .. Len(rows) + 1
      /\ \A i \in 1 .. Len(rows) : new[i] = rows[i]
      /\ new[Len(rows) + 1] = row
  BY <1>1
<1>3. \A i \in 1 .. Len(rows) : rows[i].key = row.key => rows[i].action \in Incidents
  <2> SUFFICES ASSUME NEW i \in 1 .. Len(rows), rows[i].key = row.key,
                      rows[i].action \notin Incidents
               PROVE  FALSE
    OBVIOUS
  <2>1. rows[i] \in Row /\ DOMAIN rows = 1 .. Len(rows)
    OBVIOUS
  <2>2. rows[i] = [key |-> row.key, action |-> Detected]
    BY <2>1 DEF Row
  <2> QED
    BY <2>1, <2>2 DEF AlreadyDetected
<1>4. SUFFICES ASSUME NEW i \in DOMAIN new, NEW j \in DOMAIN new,
                      i < j, new[i].key = new[j].key
               PROVE  new[i].action \in Incidents /\ new[j].action = Detected
  BY <1>2 DEF Deduplicated
<1>5. CASE j \in 1 .. Len(rows)
  BY <1>2, <1>4, <1>5 DEF Deduplicated
<1>6. CASE j = Len(rows) + 1
  <2>1. i \in 1 .. Len(rows) /\ rows[i].key = row.key
    BY <1>2, <1>4, <1>6
  <2> QED
    BY <1>2, <1>3, <1>6, <2>1
<1> QED
  BY <1>2, <1>4, <1>5, <1>6

\* So does appending an incident of a key that has no row.
LEMMA AppendIncident ==
  ASSUME NEW rows \in Seq(Row), Deduplicated(rows),
         NEW row \in [key : Key, action : Incidents],
         row.key \notin KeysOf(rows)
  PROVE  /\ Append(rows, row) \in Seq(Row)
         /\ Deduplicated(Append(rows, row))
<1> DEFINE new == Append(rows, row)
<1>1. row \in Row
  BY DEF Row
<1>2. /\ new \in Seq(Row)
      /\ DOMAIN new = 1 .. Len(rows) + 1
      /\ DOMAIN rows = 1 .. Len(rows)
      /\ \A i \in 1 .. Len(rows) : new[i] = rows[i]
      /\ new[Len(rows) + 1] = row
  BY <1>1
<1>3. \A i \in 1 .. Len(rows) : rows[i].key # row.key
  BY <1>2 DEF KeysOf
<1> QED
  BY <1>2, <1>3 DEF Deduplicated

\* And replacing the first row of a key by an incident: it is the first one that
\* matters, since a row before it would now be a second incident.
LEMMA ReplaceFirst ==
  ASSUME NEW rows \in Seq(Row), Deduplicated(rows),
         NEW row \in [key : Key, action : Incidents],
         NEW n \in DOMAIN rows, FirstOf(rows, row.key, n)
  PROVE  /\ [rows EXCEPT ![n] = row] \in Seq(Row)
         /\ Deduplicated([rows EXCEPT ![n] = row])
<1> DEFINE new == [rows EXCEPT ![n] = row]
<1>1. row \in Row /\ DOMAIN rows = 1 .. Len(rows) /\ Len(rows) \in Nat
  BY DEF Row
<1>2. /\ new \in Seq(Row)
      /\ DOMAIN new = DOMAIN rows
      /\ new[n] = row
      /\ \A i \in DOMAIN rows : i # n => new[i] = rows[i]
  BY <1>1
<1>3. \A i \in DOMAIN rows : new[i].key = rows[i].key
  BY <1>2 DEF FirstOf
<1>4. SUFFICES ASSUME NEW i \in DOMAIN rows, NEW j \in DOMAIN rows,
                      i < j, rows[i].key = rows[j].key
               PROVE  new[i].action \in Incidents /\ new[j].action = Detected
  BY <1>2, <1>3 DEF Deduplicated
<1>5. rows[i].action \in Incidents /\ rows[j].action = Detected
  BY <1>4 DEF Deduplicated
<1>6. j # n
  BY <1>1, <1>4 DEF FirstOf
<1> QED
  BY <1>2, <1>5, <1>6

\* Whatever update a call makes of duplicate-free rows, the result is one too.
LEMMA ChangedDeduplicated ==
  ASSUME NEW rows \in Seq(Row), Deduplicated(rows),
         NEW op, NEW row, NEW new,
         op = "detect" => row \in [key : Key, action : {Detected}],
         op = "incident" => row \in [key : Key, action : Incidents],
         Changed(rows, op, row, new)
  PROVE  new \in Seq(Row) /\ Deduplicated(new)
<1>1. CASE /\ op = "detect"
           /\ ~AlreadyDetected(rows, row.key)
           /\ new = Append(rows, row)
  BY <1>1, AppendDetection
<1>2. CASE /\ op = "incident"
           /\ row.key \notin KeysOf(rows)
           /\ new = Append(rows, row)
  BY <1>2, AppendIncident
<1>3. CASE /\ op = "incident"
           /\ \E i \in DOMAIN rows :
                 FirstOf(rows, row.key, i) /\ new = [rows EXCEPT ![i] = row]
  <2>1. PICK n \in DOMAIN rows : FirstOf(rows, row.key, n) /\ new = [rows EXCEPT ![n] = row]
    BY <1>3
  <2> QED
    BY <1>3, <2>1, ReplaceFirst
<1> QED
  BY <1>1, <1>2, <1>3 DEF Changed

-----------------------------------------------------------------------------

LEMMA LogInitIInv == LogInit => LogIInv
<1> SUFFICES ASSUME LogInit PROVE LogIInv
  OBVIOUS
<1>1. NoJob \in LogCall /\ RowFits(NoJob) /\ Deduplicated(NoJob.rows)
  BY EmptyDeduplicated DEF NoJob, LogCall, RowFits, NoRow
<1>2. Whole(<< >>) \in File
  BY EmptyDeduplicated DEF Whole, File
<1> QED
  BY <1>1, <1>2, EmptyDeduplicated DEF LogInit, LogIInv, LogTypeOK, Whole

\* A call that begins brings a well-typed row and an empty list.
LEMMA BeginIInv ==
  ASSUME LogIInv, NEW w \in Writer, NEW j \in LogCall,
         RowFits(j), Deduplicated(j.rows), Begin(w, j), UNCHANGED <<file, owed>>
  PROVE  LogIInv'
  BY DEF LogIInv, LogTypeOK, Begin, Deduplicated, RowFits

\* The invariant is inductive: every step of every call keeps it.
LEMMA LogStepIInv == LogIInv /\ [LogNext]_logVars => LogIInv'
<1> SUFFICES ASSUME LogIInv, [LogNext]_logVars PROVE LogIInv'
  OBVIOUS
<1> USE DEF LogIInv
<1>1. ASSUME NEW w \in Writer, NEW k \in Key, RecordDetection(w, k)
      PROVE  LogIInv'
  <2> DEFINE j == Call("detect", "read", [key |-> k, action |-> Detected])
  <2>1. j \in LogCall /\ RowFits(j) /\ Deduplicated(j.rows)
    BY EmptyDeduplicated DEF Call, LogCall, Row, RowFits
  <2> QED
    BY <1>1, <2>1, BeginIInv DEF RecordDetection
<1>2. ASSUME NEW w \in Writer, NEW k \in Key, NEW a \in Incidents, LogIncident(w, k, a)
      PROVE  LogIInv'
  <2> DEFINE j == Call("incident", "read", [key |-> k, action |-> a])
  <2>1. j \in LogCall /\ RowFits(j) /\ Deduplicated(j.rows)
    BY EmptyDeduplicated DEF Call, LogCall, Row, RowFits
  <2> QED
    BY <1>2, <2>1, BeginIInv DEF LogIncident
<1>3. ASSUME NEW w \in Writer, ClearThreatLog(w)
      PROVE  LogIInv'
  <2> DEFINE j == Call("clear", "truncate", NoRow)
  <2>1. j \in LogCall /\ RowFits(j) /\ Deduplicated(j.rows)
    BY EmptyDeduplicated DEF Call, LogCall, RowFits
  <2> QED
    BY <1>3, <2>1, BeginIInv DEF ClearThreatLog
<1>4. ASSUME NEW w \in Writer, DetectionKnown(w)
      PROVE  LogIInv'
  <2>1. NoJob \in LogCall /\ RowFits(NoJob) /\ Deduplicated(NoJob.rows)
    BY EmptyDeduplicated DEF NoJob, LogCall, RowFits, NoRow
  <2>2. job[w].row.key \in Key
    BY <1>4 DEF DetectionKnown, RowFits
  <2>3. job' = [job EXCEPT ![w] = NoJob] /\ owed' = owed \cup {job[w].row.key}
        /\ UNCHANGED <<file, disturbed>>
    BY <1>4 DEF DetectionKnown
  <2> QED
    BY <2>1, <2>2, <2>3 DEF LogTypeOK
<1>5. ASSUME NEW w \in Writer, ReadLog(w)
      PROVE  LogIInv'
  <2>1. PICK new : /\ Changed(file.rows, job[w].op, job[w].row, new)
                   /\ job' = [job EXCEPT ![w].stage = "truncate", ![w].rows = new]
    BY <1>5 DEF ReadLog
  <2>2. UNCHANGED <<file, owed, disturbed>> /\ job[w].stage = "read"
    BY <1>5 DEF ReadLog
  <2>3. file.rows \in Seq(Row) /\ job[w] \in LogCall
    BY DEF LogTypeOK, File
  <2>4. new \in Seq(Row) /\ Deduplicated(new)
    BY <2>1, <2>3, ChangedDeduplicated DEF RowFits
  <2>5. job'[w] = [job[w] EXCEPT !.stage = "truncate", !.rows = new]
    BY <2>1 DEF LogTypeOK
  <2>6. job'[w] \in LogCall /\ RowFits(job'[w]) /\ job'[w].rows = new
    BY <2>2, <2>3, <2>4, <2>5 DEF LogCall, RowFits
  <2>7. \A v \in Writer : v # w => job'[v] = job[v]
    BY <2>1 DEF LogTypeOK
  <2>8. job' \in [Writer -> LogCall]
    BY <2>1, <2>6, <2>7 DEF LogTypeOK
  <2>9. \A v \in Writer : RowFits(job'[v]) /\ Deduplicated(job'[v].rows)
    BY <2>4, <2>6, <2>7
  <2> QED
    BY <2>2, <2>8, <2>9 DEF LogTypeOK, RowFits, Deduplicated
<1>6. ASSUME NEW w \in Writer, TruncateLog(w)
      PROVE  LogIInv'
  <2>1. file' = Unreadable("empty") /\ job' = [job EXCEPT ![w].stage = "write"]
        /\ UNCHANGED <<owed, disturbed>> /\ job[w].stage = "truncate"
    BY <1>6 DEF TruncateLog
  <2>2. file' \in File /\ file'.rows = << >>
    BY <2>1, EmptyDeduplicated DEF Unreadable, File
  <2>3. job[w] \in LogCall /\ RowFits(job[w]) /\ job[w].op # "none"
    BY <2>1 DEF LogTypeOK, RowFits
  <2>4. job'[w] = [job[w] EXCEPT !.stage = "write"]
    BY <2>1 DEF LogTypeOK
  <2>5. job'[w] \in LogCall /\ RowFits(job'[w]) /\ job'[w].rows = job[w].rows
    BY <2>3, <2>4 DEF LogCall, RowFits
  <2>6. \A v \in Writer : v # w => job'[v] = job[v]
    BY <2>1 DEF LogTypeOK
  <2>7. job' \in [Writer -> LogCall]
    BY <2>1, <2>5, <2>6 DEF LogTypeOK
  <2>8. \A v \in Writer : RowFits(job'[v]) /\ Deduplicated(job'[v].rows)
    BY <2>5, <2>6
  <2> QED
    BY <2>1, <2>2, <2>7, <2>8, EmptyDeduplicated DEF LogTypeOK
<1>7. ASSUME NEW w \in Writer, WriteLog(w)
      PROVE  LogIInv'
  <2>1. /\ file' \in Flushed(job[w].rows)
        /\ job' = [job EXCEPT ![w] = NoJob]
        /\ owed' = IF job[w].op = "clear" THEN {} ELSE owed \cup {job[w].row.key}
        /\ job[w].stage = "write"
        /\ UNCHANGED disturbed
    BY <1>7 DEF WriteLog
  <2>2. job[w].rows \in Seq(Row) /\ Deduplicated(job[w].rows) /\ RowFits(job[w])
    BY DEF LogTypeOK, LogCall
  <2>3. file' \in File /\ file'.rows \in {job[w].rows, << >>}
    <3>1. file' = Whole(job[w].rows) \/ file' = Unreadable("corrupt")
      BY <2>1 DEF Flushed
    <3>2. CASE file' = Whole(job[w].rows)
      BY <2>2, <3>2 DEF Whole, File
    <3>3. CASE file' = Unreadable("corrupt")
      BY EmptyDeduplicated, <3>3 DEF Unreadable, File
    <3> QED
      BY <3>1, <3>2, <3>3
  <2>4. owed' \subseteq Key
    BY <2>1, <2>2 DEF RowFits, LogTypeOK
  <2>5. NoJob \in LogCall /\ RowFits(NoJob) /\ Deduplicated(NoJob.rows)
    BY EmptyDeduplicated DEF NoJob, LogCall, RowFits, NoRow
  <2>6. Deduplicated(file'.rows)
    BY <2>2, <2>3, EmptyDeduplicated
  <2> QED
    BY <2>1, <2>3, <2>4, <2>5, <2>6 DEF LogTypeOK
<1>8. CASE LogRestart
  <2>1. NoJob \in LogCall /\ RowFits(NoJob) /\ Deduplicated(NoJob.rows)
    BY EmptyDeduplicated DEF NoJob, LogCall, RowFits, NoRow
  <2> QED
    BY <1>8, <2>1 DEF LogRestart, LogTypeOK, RowFits, Deduplicated
<1>9. CASE UNCHANGED logVars
  BY <1>9 DEF logVars, LogTypeOK, RowFits, Deduplicated
<1> QED
  BY <1>1, <1>2, <1>3, <1>4, <1>5, <1>6, <1>7, <1>8, <1>9 DEF LogNext, LogStep

LEMMA LogInvariant == LogSpec => []LogIInv
  BY LogInitIInv, LogStepIInv, PTL DEF LogSpec

\* The file, the calls under way and the history keep their types.
THEOREM ThreatLogTypes == LogSpec => []LogTypeOK
<1>1. LogIInv => LogTypeOK
  BY DEF LogIInv
<1> QED
  BY <1>1, LogInvariant, PTL

\* For any number of threads and keys, through overlapping calls, corrupted files and
\* restarts, the list the Security page shows never holds two incidents or two
\* detections of one device on one port.
THEOREM ThreatLogNoDuplicateRows == LogSpec => []NoDuplicateRows
<1>1. LogIInv => NoDuplicateRows
  BY DEF LogIInv, NoDuplicateRows, ActiveThreats
<1> QED
  BY <1>1, LogInvariant, PTL

-----------------------------------------------------------------------------
(* The history.  While no call was overlapped or cut short, a thread that   *)
(* works on the log works alone, and what it will write lists all that was  *)
(* recorded and the row of its own call.                                    *)

\* The rows list what calls have recorded.
Lists(rows) == owed \subseteq KeysOf(rows)

\* What a call of the one thread that is under way has made of the rows.
UpdateFits(j) ==
    /\ j.stage \in {"idle", "read", "truncate"} => file.state = "whole" /\ Lists(file.rows)
    /\ j.stage = "write" => file.state = "empty"
    /\ j.stage \in {"truncate", "write"} /\ j.op # "clear" =>
          Lists(j.rows) /\ j.row.key \in KeysOf(j.rows)

HistoryFits ==
    ~disturbed =>
        /\ \A v, w \in Busy : v = w
        /\ Busy = {} => file.state = "whole" /\ Lists(file.rows)
        /\ \A w \in Busy : UpdateFits(job[w])

HistoryIInv == LogIInv /\ HistoryFits

\* A change drops no key, and adds the one of its row.
LEMMA ChangedKeepsKeys ==
  ASSUME NEW rows \in Seq(Row), NEW op, NEW row \in Row, NEW new,
         Changed(rows, op, row, new)
  PROVE  KeysOf(rows) \subseteq KeysOf(new) /\ row.key \in KeysOf(new)
<1>1. CASE new = Append(rows, row)
  <2>1. /\ DOMAIN new = 1 .. Len(rows) + 1 /\ DOMAIN rows = 1 .. Len(rows)
        /\ \A i \in 1 .. Len(rows) : new[i] = rows[i]
        /\ new[Len(rows) + 1] = row /\ Len(rows) \in Nat
    BY <1>1
  <2> QED
    BY <2>1 DEF KeysOf
<1>2. ASSUME NEW i \in DOMAIN rows, FirstOf(rows, row.key, i), new = [rows EXCEPT ![i] = row]
      PROVE  KeysOf(rows) \subseteq KeysOf(new) /\ row.key \in KeysOf(new)
  <2>1. /\ DOMAIN new = DOMAIN rows /\ new[i] = row /\ rows[i].key = row.key
        /\ \A n \in DOMAIN rows : n # i => new[n] = rows[n]
    BY <1>2 DEF FirstOf
  <2> QED
    BY <2>1 DEF KeysOf
<1> QED
  BY <1>1, <1>2 DEF Changed

\* A detection that is known is listed.
LEMMA KnownIsListed ==
  ASSUME NEW rows, NEW k, AlreadyDetected(rows, k)
  PROVE  k \in KeysOf(rows)
BY DEF AlreadyDetected, KeysOf

\* A call that begins while another is under way disturbs; one that begins alone finds
\* the log whole.
LEMMA BeginHistory ==
  ASSUME HistoryIInv, NEW w \in Writer, NEW j \in LogCall, Begin(w, j), UNCHANGED <<file, owed>>,
         j.stage = "read" \/ (j.stage = "truncate" /\ j.op = "clear")
  PROVE  HistoryFits'
<1> SUFFICES ASSUME ~disturbed'
             PROVE  HistoryFits'
  BY DEF HistoryFits
<1>1. ~disturbed /\ Busy = {} /\ file.state = "whole" /\ Lists(file.rows)
  BY DEF Begin, HistoryIInv, HistoryFits
<1>2. \A v \in Writer : job'[v] = IF v = w THEN j ELSE job[v]
  BY DEF Begin, HistoryIInv, LogIInv, LogTypeOK
<1>3. Busy' = {w}
  BY <1>1, <1>2 DEF Busy
<1>4. UpdateFits(j)'
  BY <1>1 DEF UpdateFits, Lists
<1> QED
  BY <1>2, <1>3, <1>4 DEF HistoryFits, UpdateFits

\* The one call that is under way ends: the log is whole, and lists what it recorded.
LEMMA EndHistory ==
  ASSUME HistoryIInv, NEW w \in Writer, w \in Busy, UNCHANGED disturbed,
         job' = [job EXCEPT ![w] = NoJob],
         ~disturbed => file'.state = "whole" /\ Lists(file.rows)'
  PROVE  HistoryFits'
<1> SUFFICES ASSUME ~disturbed
             PROVE  HistoryFits'
  BY DEF HistoryFits
<1>1. \A v \in Writer : job'[v] = IF v = w THEN NoJob ELSE job[v]
  BY DEF HistoryIInv, LogIInv, LogTypeOK
<1>2. \A v \in Busy : v = w
  BY DEF HistoryIInv, HistoryFits
<1>3. Busy' = {}
  BY <1>1, <1>2 DEF Busy, NoJob
<1> QED
  BY <1>3 DEF HistoryFits

\* The call goes on: it alone is under way before and after.
LEMMA GoOnHistory ==
  ASSUME HistoryIInv, NEW w \in Writer, w \in Busy, UNCHANGED disturbed,
         \A v \in Writer : v # w => job'[v] = job[v],
         job'[w].stage # "idle", ~disturbed => UpdateFits(job[w])'
  PROVE  HistoryFits'
<1> SUFFICES ASSUME ~disturbed
             PROVE  HistoryFits'
  BY DEF HistoryFits
<1>1. \A v \in Busy : v = w
  BY DEF HistoryIInv, HistoryFits
<1>2. Busy' = {w}
  BY <1>1 DEF Busy
<1> QED
  BY <1>2 DEF HistoryFits, UpdateFits

LEMMA StepHistory == HistoryIInv /\ [LogNext]_logVars => HistoryFits'
<1> SUFFICES ASSUME HistoryIInv, [LogNext]_logVars PROVE HistoryFits'
  OBVIOUS
<1>0. LogTypeOK /\ (\A w \in Writer : RowFits(job[w]))
  BY DEF HistoryIInv, LogIInv
<1>1. ASSUME NEW w \in Writer, NEW k \in Key, RecordDetection(w, k)
      PROVE  HistoryFits'
  <2>1. Call("detect", "read", [key |-> k, action |-> Detected]) \in LogCall
    BY EmptyDeduplicated DEF Call, LogCall, Row
  <2> QED
    BY <1>1, <2>1, BeginHistory DEF RecordDetection, Call
<1>2. ASSUME NEW w \in Writer, NEW k \in Key, NEW a \in Incidents, LogIncident(w, k, a)
      PROVE  HistoryFits'
  <2>1. Call("incident", "read", [key |-> k, action |-> a]) \in LogCall
    BY EmptyDeduplicated DEF Call, LogCall, Row
  <2> QED
    BY <1>2, <2>1, BeginHistory DEF LogIncident, Call
<1>3. ASSUME NEW w \in Writer, ClearThreatLog(w)
      PROVE  HistoryFits'
  <2>1. Call("clear", "truncate", NoRow) \in LogCall
    BY EmptyDeduplicated DEF Call, LogCall
  <2> QED
    BY <1>3, <2>1, BeginHistory DEF ClearThreatLog, Call
<1>4. ASSUME NEW w \in Writer, DetectionKnown(w)
      PROVE  HistoryFits'
  <2>1. w \in Busy /\ job[w].stage = "read"
    BY <1>4 DEF DetectionKnown, Busy
  <2>2. ~disturbed => file.state = "whole" /\ Lists(file.rows)
    BY <2>1 DEF HistoryIInv, HistoryFits, UpdateFits
  <2>3. job[w].row.key \in KeysOf(file.rows)
    BY <1>4, KnownIsListed DEF DetectionKnown
  <2>4. ~disturbed => file'.state = "whole" /\ Lists(file.rows)'
    BY <1>4, <2>2, <2>3 DEF DetectionKnown, Lists
  <2> QED
    BY <1>4, <2>1, <2>4, EndHistory DEF DetectionKnown
<1>5. ASSUME NEW w \in Writer, ReadLog(w)
      PROVE  HistoryFits'
  <2>1. PICK new : /\ Changed(file.rows, job[w].op, job[w].row, new)
                   /\ job' = [job EXCEPT ![w].stage = "truncate", ![w].rows = new]
    BY <1>5 DEF ReadLog
  <2>2. /\ UNCHANGED <<file, owed, disturbed>> /\ job[w].stage = "read" /\ w \in Busy
        /\ job[w] \in LogCall /\ file.rows \in Seq(Row) /\ job[w].row \in Row
    BY <1>0, <1>5 DEF ReadLog, Busy, LogTypeOK, File, RowFits, Row
  <2>3. /\ job'[w] = [job[w] EXCEPT !.stage = "truncate", !.rows = new]
        /\ \A v \in Writer : v # w => job'[v] = job[v]
    BY <1>0, <2>1 DEF LogTypeOK
  <2>4. KeysOf(file.rows) \subseteq KeysOf(new) /\ job[w].row.key \in KeysOf(new)
    BY <2>1, <2>2, ChangedKeepsKeys
  <2>5. ~disturbed => file.state = "whole" /\ Lists(file.rows)
    BY <2>2 DEF HistoryIInv, HistoryFits, UpdateFits
  <2>6. job'[w].stage = "truncate" /\ job'[w].rows = new /\ job'[w].row = job[w].row
    BY <2>2, <2>3 DEF LogCall
  <2>7. ~disturbed => UpdateFits(job[w])'
    BY <2>2, <2>4, <2>5, <2>6 DEF UpdateFits, Lists
  <2> QED
    BY <2>2, <2>3, <2>6, <2>7, GoOnHistory
<1>6. ASSUME NEW w \in Writer, TruncateLog(w)
      PROVE  HistoryFits'
  <2>1. /\ file' = Unreadable("empty") /\ UNCHANGED <<owed, disturbed>>
        /\ job[w].stage = "truncate" /\ w \in Busy /\ job[w] \in LogCall
        /\ job'[w] = [job[w] EXCEPT !.stage = "write"]
        /\ \A v \in Writer : v # w => job'[v] = job[v]
    BY <1>0, <1>6 DEF TruncateLog, Busy, LogTypeOK
  <2>2. job'[w].stage = "write" /\ job'[w].rows = job[w].rows /\ job'[w].row = job[w].row
        /\ job'[w].op = job[w].op
    BY <2>1 DEF LogCall
  <2>3. ~disturbed => UpdateFits(job[w])
    BY <2>1 DEF HistoryIInv, HistoryFits
  <2>4. ~disturbed => UpdateFits(job[w])'
    BY <2>1, <2>2, <2>3 DEF UpdateFits, Lists, Unreadable
  <2> QED
    BY <2>1, <2>2, <2>4, GoOnHistory
<1>7. ASSUME NEW w \in Writer, WriteLog(w)
      PROVE  HistoryFits'
  <2>1. /\ job[w].stage = "write" /\ w \in Busy /\ UNCHANGED disturbed
        /\ file' \in Flushed(job[w].rows) /\ job' = [job EXCEPT ![w] = NoJob]
        /\ owed' = IF job[w].op = "clear" THEN {} ELSE owed \cup {job[w].row.key}
    BY <1>7 DEF WriteLog, Busy
  <2>2. ~disturbed => /\ file.state = "empty"
                      /\ job[w].op # "clear" => Lists(job[w].rows)
                                               /\ job[w].row.key \in KeysOf(job[w].rows)
    BY <2>1 DEF HistoryIInv, HistoryFits, UpdateFits
  <2>3. ~disturbed => file' = Whole(job[w].rows)
    BY <2>1, <2>2 DEF Flushed
  <2>4. ~disturbed => file'.state = "whole" /\ Lists(file.rows)'
    BY <2>1, <2>2, <2>3 DEF Whole, Lists
  <2> QED
    BY <2>1, <2>4, EndHistory
<1>8. CASE LogRestart
  <2> SUFFICES ASSUME ~disturbed'
               PROVE  HistoryFits'
    BY DEF HistoryFits
  <2>1. ~disturbed /\ (\A w \in Writer : job[w].stage # "write") /\ UNCHANGED <<file, owed>>
    BY <1>8 DEF LogRestart
  <2>2. PICK w \in Writer : w \in Busy
    BY <1>8 DEF LogRestart, Busy
  <2>3. job[w].stage \in {"idle", "read", "truncate"}
    BY <1>0, <2>1 DEF LogTypeOK, LogCall
  <2>4. file.state = "whole" /\ Lists(file.rows)
    BY <2>1, <2>2, <2>3 DEF HistoryIInv, HistoryFits, UpdateFits
  <2>5. Busy' = {}
    BY <1>8 DEF LogRestart, Busy, NoJob
  <2> QED
    BY <2>1, <2>4, <2>5 DEF HistoryFits, Lists
<1>9. CASE UNCHANGED logVars
  BY <1>9 DEF logVars, HistoryIInv, HistoryFits, UpdateFits, Lists, Busy
<1> QED
  BY <1>1, <1>2, <1>3, <1>4, <1>5, <1>6, <1>7, <1>8, <1>9 DEF LogNext, LogStep

\* The history is told in every state.
LEMMA ThreatLogHistory == LogSpec => []HistoryIInv
<1>1. LogInit => HistoryIInv
  <2> SUFFICES ASSUME LogInit PROVE HistoryIInv
    OBVIOUS
  <2>1. Busy = {} /\ file.state = "whole" /\ owed = {}
    BY DEF LogInit, Busy, NoJob, Whole
  <2> QED
    BY <2>1, LogInitIInv DEF HistoryIInv, HistoryFits, Lists
<1>2. HistoryIInv /\ [LogNext]_logVars => HistoryIInv'
  BY LogStepIInv, StepHistory DEF HistoryIInv
<1> QED
  BY <1>1, <1>2, PTL DEF LogSpec

\* For any number of threads: while no two calls overlapped and none was cut short, every
\* device that a finished call recorded is listed until the log is cleared.
THEOREM ThreatLogHistoryKept == LogSpec => []UndisturbedHistoryKept
<1>1. HistoryIInv => UndisturbedHistoryKept
  BY DEF HistoryIInv, HistoryFits, UndisturbedHistoryKept, Lists, ActiveThreats
<1> QED
  BY <1>1, ThreatLogHistory, PTL

\* A change keeps every incident it finds, and an incident adds its own.
LEMMA ChangedKeepsIncidents ==
  ASSUME NEW rows \in Seq(Row), NEW op, NEW row \in Row, NEW new,
         op = "incident" => row.action \in Incidents,
         Changed(rows, op, row, new)
  PROVE  /\ IncidentKeys(rows) \subseteq IncidentKeys(new)
         /\ op = "incident" => row.key \in IncidentKeys(new)
<1>1. CASE new = Append(rows, row)
  <2>1. /\ DOMAIN new = 1 .. Len(rows) + 1 /\ DOMAIN rows = 1 .. Len(rows)
        /\ \A i \in 1 .. Len(rows) : new[i] = rows[i]
        /\ new[Len(rows) + 1] = row /\ Len(rows) \in Nat
    BY <1>1
  <2> QED
    BY <2>1 DEF IncidentKeys
<1>2. ASSUME NEW i \in DOMAIN rows, FirstOf(rows, row.key, i), new = [rows EXCEPT ![i] = row],
             op = "incident"
      PROVE  IncidentKeys(rows) \subseteq IncidentKeys(new) /\ row.key \in IncidentKeys(new)
  <2>1. /\ DOMAIN new = DOMAIN rows /\ new[i] = row /\ rows[i].key = row.key
        /\ \A n \in DOMAIN rows : n # i => new[n] = rows[n]
    BY <1>2 DEF FirstOf
  <2> QED
    BY <1>2, <2>1 DEF IncidentKeys
<1> QED
  BY <1>1, <1>2 DEF Changed

\* The update of a call keeps every incident that the call has read, whatever it records.
THEOREM ThreatLogIncidentsSurvive == LogSpec => IncidentsSurviveUpdates
<1>1. ASSUME LogIInv, [LogNext]_logVars, NEW w \in Writer,
             job[w].stage = "read", job'[w].stage = "truncate"
      PROVE  IncidentKeys(file.rows) \subseteq IncidentKeys(job'[w].rows)
  <2>1. job \in [Writer -> LogCall] /\ RowFits(job[w]) /\ file.rows \in Seq(Row)
    BY <1>1 DEF LogIInv, LogTypeOK, File
  <2>2. ReadLog(w)
    <3>1. CASE UNCHANGED logVars
      BY <1>1, <3>1 DEF logVars
    <3>2. ASSUME NEW v \in Writer, NEW j, Begin(v, j)
          PROVE  v # w /\ job'[w] = job[w]
      BY <1>1, <2>1, <3>2 DEF Begin
    <3>3. ASSUME NEW v \in Writer, LogStep(v), v # w
          PROVE  job'[w] = job[w]
      BY <2>1, <3>3 DEF LogStep, DetectionKnown, ReadLog, TruncateLog, WriteLog
    <3>4. ~DetectionKnown(w) /\ ~TruncateLog(w) /\ ~WriteLog(w) /\ ~LogRestart
      BY <1>1, <2>1 DEF DetectionKnown, TruncateLog, WriteLog, LogRestart, NoJob
    <3> QED
      BY <1>1, <3>1, <3>2, <3>3, <3>4
      DEF LogNext, LogStep, RecordDetection, LogIncident, ClearThreatLog
  <2>3. PICK new : /\ Changed(file.rows, job[w].op, job[w].row, new)
                   /\ job' = [job EXCEPT ![w].stage = "truncate", ![w].rows = new]
    BY <2>2 DEF ReadLog
  <2>4. job'[w].rows = new
    BY <2>1, <2>3 DEF LogCall
  <2>5. /\ job[w].op = "incident" => job[w].row.action \in Incidents
        /\ job[w].row \in Row
    BY <1>1, <2>1 DEF RowFits, Row
  <2> QED
    BY <2>1, <2>3, <2>4, <2>5, ChangedKeepsIncidents
<1>2. LogIInv /\ [LogNext]_logVars =>
        \A w \in Writer : (job[w].stage = "read" /\ job'[w].stage = "truncate")
                            => IncidentKeys(file.rows) \subseteq IncidentKeys(job'[w].rows)
  BY <1>1
<1> QED
  BY <1>2, LogInvariant, PTL DEF LogSpec, IncidentsSurviveUpdates

=============================================================================
