------------------------------ MODULE AuditLog ------------------------------
(***************************************************************************)
(* AuditLogger of core/security.py: the audit trail, kept in memory and    *)
(* flushed to logs/audit_log.json.  Any request thread may write an entry. *)
(*                                                                         *)
(* The lock covers the list in memory; flush() leaves it before it touches *)
(* the disk.  A flush is then                                              *)
(*                                                                         *)
(*   copy the list  ->  open(tmp, 'w')  ->  json.dump  ->  os.replace      *)
(*     Snapshot           OpenTmp             Dump          Replace        *)
(*                                                                         *)
(* and every flush uses the same temporary name.  Files are inodes here,   *)
(* because a thread that has the temporary file open keeps writing into it *)
(* after another thread has renamed it to the log.                         *)
(***************************************************************************)
EXTENDS Naturals, Sequences

CONSTANTS Thread,        \* request threads that log
          Inode,         \* files the directory can hold
          None,          \* no file, no entry
          MAX_ENTRIES,   \* entries kept in memory
          MaxLogged      \* bound on the entries ever written

ASSUME AuditAssumption ==
    /\ MAX_ENTRIES \in Nat \ {0}
    /\ MaxLogged \in Nat
    /\ None \notin Inode \cup Nat

VARIABLES entries,     \* _entries, oldest first
          dirty,       \* _dirty
          call,        \* call[t]: where thread t stands in _write_entry or flush
          disk,        \* disk[f]: what inode f holds
          auditName,   \* the inode named audit_log.json
          tmpName,     \* the inode named audit_log.json.tmp, or None
          logged,      \* entries written so far; an entry is its number
          settled,     \* history: WARNING entries whose _write_entry has returned
          overlapped   \* history: two flushes were under way together, or one failed

vars == <<entries, dirty, call, disk, auditName, tmpName, logged, settled, overlapped>>

Entry == 1 .. MaxLogged

Content == [state : {"whole", "empty", "corrupt"}, entries : Seq(Entry)]
WholeFile(es) == [state |-> "whole", entries |-> es]
UnreadableFile(state) == [state |-> state, entries |-> << >>]

NoCall == [stage |-> "idle", entry |-> None, warning |-> FALSE,
           entries |-> << >>, file |-> None]
FlushCall == [stage : {"idle", "flush", "open", "dump", "replace"},
              entry : Entry \cup {None}, warning : BOOLEAN,
              entries : Seq(Entry), file : Inode \cup {None}]

Flushing == {t \in Thread : call[t].stage # "idle"}
EntriesIn(es) == {es[i] : i \in DOMAIN es}
OnDisk == disk[auditName]

-----------------------------------------------------------------------------

\* __init__ on a fresh directory: "[]" is written, and nothing is buffered.
Init ==
    /\ entries = << >>
    /\ dirty = FALSE
    /\ call = [t \in Thread |-> NoCall]
    /\ disk = [f \in Inode |-> WholeFile(<< >>)]
    /\ auditName \in Inode
    /\ tmpName = None
    /\ logged = 0
    /\ settled = {}
    /\ overlapped = FALSE

\* The thread's call returns; a WARNING entry it wrote is settled.
Return(t) ==
    /\ call' = [call EXCEPT ![t] = NoCall]
    /\ settled' = IF call[t].warning THEN settled \cup {call[t].entry} ELSE settled

\* A bug: the list is cut at the wrong end.
CappedDropsNewest(es) ==
    IF Len(es) > MAX_ENTRIES THEN SubSeq(es, 1, MAX_ENTRIES) ELSE es

\* The list keeps its last MAX_ENTRIES entries.
Capped(es) ==
    IF Len(es) > MAX_ENTRIES
    THEN SubSeq(es, Len(es) - MAX_ENTRIES + 1, Len(es))
    ELSE es

\* The part of _write_entry under the lock.  Whether the flush interval has passed
\* is left open; a WARNING entry is flushed whatever the interval says.
WriteEntry(t, warning) ==
    /\ call[t].stage = "idle"
    /\ logged < MaxLogged
    /\ logged' = logged + 1
    /\ entries' = Capped(Append(entries, logged + 1))
    /\ dirty' = TRUE
    /\ \/ /\ call' = [call EXCEPT ![t] = [NoCall EXCEPT !.stage = "flush",
                                                        !.entry = logged + 1,
                                                        !.warning = warning]]
          /\ overlapped' = (overlapped \/ Flushing # {})
       \/ /\ ~warning
          /\ UNCHANGED <<call, overlapped>>
    /\ UNCHANGED <<disk, auditName, tmpName, settled>>

\* atexit: flush what is buffered.
FlushAtExit(t) ==
    /\ call[t].stage = "idle"
    /\ call' = [call EXCEPT ![t] = [NoCall EXCEPT !.stage = "flush"]]
    /\ overlapped' = (overlapped \/ Flushing # {})
    /\ UNCHANGED <<entries, dirty, disk, auditName, tmpName, logged, settled>>

-----------------------------------------------------------------------------

\* A bug: the list is added to what the log holds, instead of taking its place.
SnapshotAppended(t) ==
    /\ call[t].stage = "flush"
    /\ dirty
    /\ dirty' = FALSE
    /\ call' = [call EXCEPT ![t].stage = "open", ![t].entries = OnDisk.entries \o entries]
    /\ UNCHANGED <<entries, disk, auditName, tmpName, logged, settled, overlapped>>

\* flush() under the lock: copy the list and take it for written.
Snapshot(t) ==
    /\ call[t].stage = "flush"
    /\ dirty
    /\ dirty' = FALSE
    /\ call' = [call EXCEPT ![t].stage = "open", ![t].entries = entries]
    /\ UNCHANGED <<entries, disk, auditName, tmpName, logged, settled, overlapped>>

\* flush() finds nothing buffered: another thread has copied the list already.
NothingToFlush(t) ==
    /\ call[t].stage = "flush"
    /\ ~dirty
    /\ Return(t)
    /\ UNCHANGED <<entries, dirty, disk, auditName, tmpName, logged, overlapped>>

\* An inode no name and no open file refers to.
FreeInodes == Inode \ ({auditName, tmpName} \cup {call[t].file : t \in Thread})

\* A bug: the log itself is opened for writing, with no temporary file.
OpenTmpInPlace(t) ==
    /\ call[t].stage = "open"
    /\ disk' = [disk EXCEPT ![auditName] = UnreadableFile("empty")]
    /\ call' = [call EXCEPT ![t].stage = "dump", ![t].file = auditName]
    /\ UNCHANGED <<entries, dirty, auditName, tmpName, logged, settled, overlapped>>

\* open(tmp, 'w'): a new file, or the present one emptied.
OpenTmp(t) ==
    /\ call[t].stage = "open"
    /\ \E f \in IF tmpName = None THEN FreeInodes ELSE {tmpName} :
          /\ tmpName' = f
          /\ disk' = [disk EXCEPT ![f] = UnreadableFile("empty")]
          /\ call' = [call EXCEPT ![t].stage = "dump", ![t].file = f]
    /\ UNCHANGED <<entries, dirty, auditName, logged, settled, overlapped>>

\* The text fills an empty file.  Over another thread's text it may leave a tail, and two
\* threads that hold the file open may write into each other's text.
Dumped(t) ==
    LET f == call[t].file
        shared == \E u \in Thread \ {t} : call[u].file = f
    IN  {WholeFile(call[t].entries)} \cup
        IF disk[f].state = "empty" /\ ~shared THEN {} ELSE {UnreadableFile("corrupt")}

\* json.dump and the close that writes it out.
Dump(t) ==
    /\ call[t].stage = "dump"
    /\ \E c \in Dumped(t) :
          disk' = [disk EXCEPT ![call[t].file] = c]
    /\ call' = [call EXCEPT ![t].stage = "replace", ![t].file = None]
    /\ UNCHANGED <<entries, dirty, auditName, tmpName, logged, settled, overlapped>>

\* os.replace: the temporary name becomes the log.  Without a temporary file, because
\* another thread has renamed it, it raises, and the error is only logged.
Replace(t) ==
    /\ call[t].stage = "replace"
    /\ auditName' = IF tmpName = None THEN auditName ELSE tmpName
    /\ tmpName' = None
    /\ Return(t)
    /\ UNCHANGED <<entries, dirty, disk, logged, overlapped>>

\* An OSError at any point of the disk work ends the flush.  The list stays marked as
\* written, so nothing retries until the next entry.
FlushFails(t) ==
    /\ call[t].stage \in {"open", "dump", "replace"}
    /\ disk' = IF call[t].stage = "dump"
               THEN [disk EXCEPT ![call[t].file] = UnreadableFile("corrupt")]
               ELSE disk
    /\ overlapped' = TRUE
    /\ Return(t)
    /\ UNCHANGED <<entries, dirty, auditName, tmpName, logged>>

FlushStep(t) == Snapshot(t) \/ NothingToFlush(t) \/ OpenTmp(t) \/ Dump(t) \/ Replace(t)

-----------------------------------------------------------------------------

\* A crash, then __init__: the list is what the log holds, if it can be parsed.
Restart ==
    /\ entries' = OnDisk.entries
    /\ dirty' = FALSE
    /\ call' = [t \in Thread |-> NoCall]
    /\ UNCHANGED <<disk, auditName, tmpName, logged, settled, overlapped>>

Next ==
    \/ \E t \in Thread :
          \/ \E warning \in BOOLEAN : WriteEntry(t, warning)
          \/ FlushAtExit(t)
          \/ FlushStep(t)
          \/ FlushFails(t)
    \/ Restart

Spec == Init /\ [][Next]_vars

-----------------------------------------------------------------------------

TypeOK ==
    /\ entries \in Seq(Entry)
    /\ dirty \in BOOLEAN
    /\ call \in [Thread -> FlushCall]
    /\ disk \in [Inode -> Content]
    /\ auditName \in Inode
    /\ tmpName \in Inode \cup {None}
    /\ logged \in 0 .. MaxLogged
    /\ settled \subseteq Entry
    /\ overlapped \in BOOLEAN

Increasing(es) == \A i, j \in DOMAIN es : i < j => es[i] < es[j]

\* The trail never repeats an entry or lists two out of order, in memory or in any file
\* that can be read, whatever flushes overlap and however often the process restarts.
TrailInOrder ==
    /\ Increasing(entries)
    /\ \A f \in Inode : Increasing(disk[f].entries)

\* As long as flushes came one at a time and none failed, the log is never half-written,
\* at whatever point of a flush the process dies.
LogWholeUnlessOverlapped == ~overlapped => OnDisk.state = "whole"

\* As long as flushes came one at a time and none failed, a security event whose call
\* has returned is in the log, or has left it for MAX_ENTRIES newer entries.
SecurityEventsPersisted ==
    ~overlapped =>
        \A e \in settled :
            \/ e \in EntriesIn(OnDisk.entries)
            \/ /\ Len(OnDisk.entries) = MAX_ENTRIES
               /\ \A n \in EntriesIn(OnDisk.entries) : n > e

\* "atomic: never a half-written log" (core/security.py:576), with no condition.
LogAlwaysWhole == OnDisk.state = "whole"

=============================================================================
