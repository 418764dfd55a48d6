--------------------------- MODULE AuditLogProofs ---------------------------
(***************************************************************************)
(* Theorems about AuditLog, for any number of threads and any bounds: its  *)
(* types, that the trail is never out of order, and that as long as no two *)
(* flushes overlap and none fails, the log is whole and has every security *)
(* event whose call has returned.                                          *)
(*                                                                         *)
(* TrailInOrder is not inductive: a flush writes the list it copied, and a *)
(* new entry comes last only if no list holds a later one.  The invariant  *)
(* that is therefore says of every list, in memory, in a call and on disk, *)
(* that it is in order and that nothing in it is newer than the last entry *)
(* logged; and that a call with a warning knows its entry.                 *)
(***************************************************************************)
EXTENDS AuditLog, TLAPS

Ordered(es, n) == Increasing(es) /\ \A i \in DOMAIN es : es[i] <= n

CallFits(c, n) == Ordered(c.entries, n) /\ (c.warning => c.entry # None)

AuditIInv ==
    /\ TypeOK
    /\ Ordered(entries, logged)
    /\ \A t \in Thread : CallFits(call[t], logged)
    /\ \A f \in Inode : Ordered(disk[f].entries, logged)

-----------------------------------------------------------------------------

\* A fresh list is in order.
LEMMA EmptyOrdered == << >> \in Seq(Entry) /\ \A n : Ordered(<< >>, n)
  BY DEF Ordered, Increasing

\* The entries of a list are numbers.
LEMMA EntriesAreNumbers ==
  ASSUME NEW es \in Seq(Entry)
  PROVE  \A i \in DOMAIN es : es[i] \in Nat
<1>1. \A i \in DOMAIN es : es[i] \in Entry
  OBVIOUS
<1>2. \A e \in Entry : e \in Nat
  BY AuditAssumption DEF Entry
<1> QED
  BY <1>1, <1>2

\* What cannot be parsed is read as no entries.
LEMMA UnreadableFits ==
  \A state \in {"empty", "corrupt"} :
     /\ UnreadableFile(state) \in Content
     /\ \A n : Ordered(UnreadableFile(state).entries, n)
  BY EmptyOrdered DEF UnreadableFile, Content

\* A list stays in order as more entries are logged.
LEMMA OrderedLater ==
  ASSUME NEW es \in Seq(Entry), NEW n \in Nat, Ordered(es, n)
  PROVE  Ordered(es, n + 1)
<1>1. \A i \in DOMAIN es : es[i] \in Nat
  BY EntriesAreNumbers
<1> QED
  BY <1>1 DEF Ordered

\* The entry just logged can be appended.
LEMMA AppendOrdered ==
  ASSUME NEW es \in Seq(Entry), NEW n \in Nat, Ordered(es, n), n + 1 \in Entry
  PROVE  /\ Append(es, n + 1) \in Seq(Entry)
         /\ Ordered(Append(es, n + 1), n + 1)
<1> DEFINE new == Append(es, n + 1)
<1>1. /\ new \in Seq(Entry)
      /\ DOMAIN new = 1 .. Len(es) + 1
      /\ DOMAIN es = 1 .. Len(es)
      /\ Len(es) \in Nat
      /\ \A i \in 1 .. Len(es) : new[i] = es[i]
      /\ new[Len(es) + 1] = n + 1
  OBVIOUS
<1>2. \A i \in DOMAIN es : es[i] \in Nat /\ es[i] <= n
  BY EntriesAreNumbers DEF Ordered
<1>3. \A i \in DOMAIN new : new[i] <= n + 1
  BY <1>1, <1>2
<1>4. ASSUME NEW i \in DOMAIN new, NEW j \in DOMAIN new, i < j
      PROVE  new[i] < new[j]
  <2>1. i \in DOMAIN es
    BY <1>1, <1>4
  <2>2. CASE j \in DOMAIN es
    BY <1>1, <1>4, <2>1, <2>2 DEF Ordered, Increasing
  <2>3. CASE j \notin DOMAIN es
    <3>1. j = Len(es) + 1
      BY <1>1, <2>3
    <3> QED
      BY <1>1, <1>2, <2>1, <3>1
  <2> QED
    BY <2>2, <2>3
<1> HIDE DEF new
<1> QED
  BY <1>1, <1>3, <1>4 DEF Ordered, Increasing

\* What the cap keeps of a list in order is in order.
LEMMA CappedOrdered ==
  ASSUME NEW es \in Seq(Entry), NEW n \in Nat, Ordered(es, n)
  PROVE  Capped(es) \in Seq(Entry) /\ Ordered(Capped(es), n)
<1>1. CASE Len(es) > MAX_ENTRIES
  <2> DEFINE k == Len(es) - MAX_ENTRIES
             kept == SubSeq(es, k + 1, Len(es))
  <2>1. MAX_ENTRIES \in Nat \ {0} /\ Len(es) \in Nat /\ k \in Nat /\ DOMAIN es = 1 .. Len(es)
    BY <1>1, AuditAssumption
  <2>2. \A i \in k + 1 .. Len(es) : es[i] \in Entry
    BY <2>1
  <2>3. kept \in Seq(Entry) /\ Len(kept) = MAX_ENTRIES
    BY <2>1, <2>2
  <2>4. DOMAIN kept = 1 .. MAX_ENTRIES
    BY <2>3
  <2>5. \A i \in 1 .. MAX_ENTRIES : i + k \in DOMAIN es /\ kept[i] = es[i + k]
    BY <2>1
  <2>6. Capped(es) = kept
    BY <1>1 DEF Capped
  <2>7. k \in Nat
    BY <2>1
  <2> HIDE DEF k, kept
  <2>8. ASSUME NEW i \in DOMAIN kept, NEW j \in DOMAIN kept, i < j
        PROVE  kept[i] < kept[j]
    <3>1. i + k < j + k
      BY <2>4, <2>7, <2>8, AuditAssumption
    <3> QED
      BY <2>4, <2>5, <2>8, <3>1 DEF Ordered, Increasing
  <2>9. \A i \in DOMAIN kept : kept[i] <= n
    BY <2>4, <2>5 DEF Ordered
  <2> QED
    BY <2>3, <2>6, <2>8, <2>9 DEF Ordered, Increasing
<1>2. CASE ~(Len(es) > MAX_ENTRIES)
  BY <1>2 DEF Capped
<1> QED
  BY <1>1, <1>2

-----------------------------------------------------------------------------

\* A new log satisfies the invariant.
LEMMA AuditInit == Init => AuditIInv
<1> SUFFICES ASSUME Init
             PROVE  AuditIInv
  OBVIOUS
<1>1. << >> \in Seq(Entry) /\ Ordered(<< >>, 0)
  BY EmptyOrdered
<1>2. NoCall \in FlushCall /\ NoCall.entries = << >> /\ NoCall.warning = FALSE
  BY <1>1 DEF NoCall, FlushCall
<1>3. WholeFile(<< >>) \in Content /\ WholeFile(<< >>).entries = << >>
  BY <1>1 DEF WholeFile, Content
<1>4. call \in [Thread -> FlushCall] /\ disk \in [Inode -> Content]
  BY <1>2, <1>3 DEF Init
<1>5. TypeOK
  <2>1. logged \in 0 .. MaxLogged
    BY AuditAssumption DEF Init
  <2>2. dirty \in BOOLEAN /\ overlapped \in BOOLEAN /\ settled \subseteq Entry
    BY DEF Init
  <2> QED
    BY <1>1, <1>4, <2>1, <2>2 DEF Init, TypeOK
<1>6. \A t \in Thread : CallFits(call[t], 0)
  BY <1>1, <1>2 DEF Init, CallFits
<1>7. \A f \in Inode : Ordered(disk[f].entries, 0)
  BY <1>1, <1>3 DEF Init
<1> QED
  BY <1>1, <1>5, <1>6, <1>7 DEF Init, AuditIInv

\* A returning call holds no list, and a warning settles an entry that was logged.
LEMMA ReturnKeeps ==
  ASSUME AuditIInv, NEW t \in Thread, Return(t)
  PROVE  /\ call' \in [Thread -> FlushCall]
         /\ settled' \subseteq Entry
         /\ \A u \in Thread : CallFits(call'[u], logged)
<1>1. NoCall \in FlushCall /\ CallFits(NoCall, logged)
  BY EmptyOrdered DEF NoCall, FlushCall, CallFits
<1>2. call[t] \in FlushCall /\ CallFits(call[t], logged)
  BY DEF AuditIInv, TypeOK
<1>3. call[t].warning => call[t].entry \in Entry
  BY <1>2 DEF FlushCall, CallFits
<1>4. settled' \subseteq Entry
  BY <1>3 DEF Return, AuditIInv, TypeOK
<1>5. call' = [call EXCEPT ![t] = NoCall] /\ call \in [Thread -> FlushCall]
  BY DEF Return, AuditIInv, TypeOK
<1>6. \A u \in Thread : call'[u] = IF u = t THEN NoCall ELSE call[u]
  BY <1>5
<1> QED
  BY <1>1, <1>4, <1>5, <1>6 DEF AuditIInv

-----------------------------------------------------------------------------

\* Every step preserves the invariant.
LEMMA AuditStep == AuditIInv /\ [Next]_vars => AuditIInv'
<1> SUFFICES ASSUME AuditIInv, [Next]_vars
             PROVE  AuditIInv'
  OBVIOUS
<1>1. ASSUME NEW t \in Thread, NEW warning \in BOOLEAN, WriteEntry(t, warning)
      PROVE  AuditIInv'
  <2>1. /\ entries \in Seq(Entry) /\ Ordered(entries, logged)
        /\ logged \in Nat /\ logged + 1 \in Entry /\ logged + 1 \in 0 .. MaxLogged
    BY <1>1, AuditAssumption DEF WriteEntry, AuditIInv, TypeOK, Entry
  <2>2. entries' \in Seq(Entry) /\ Ordered(entries', logged + 1)
    <3> DEFINE longer == Append(entries, logged + 1)
    <3>1. longer \in Seq(Entry) /\ Ordered(longer, logged + 1)
      BY <2>1, AppendOrdered
    <3>2. entries' = Capped(longer)
      BY <1>1 DEF WriteEntry
    <3>3. logged + 1 \in Nat
      BY <2>1
    <3> HIDE DEF longer
    <3> QED
      BY <3>1, <3>2, <3>3, CappedOrdered
  <2> DEFINE new == [NoCall EXCEPT !.stage = "flush", !.entry = logged + 1,
                                   !.warning = warning]
  <2>3. new \in FlushCall /\ CallFits(new, logged + 1)
    <3>1. new.entries = << >> /\ new.entry = logged + 1 /\ logged + 1 # None
      BY <2>1, AuditAssumption DEF NoCall
    <3>2. new \in FlushCall
      BY <2>1, EmptyOrdered DEF NoCall, FlushCall
    <3> QED
      BY <3>1, <3>2, EmptyOrdered DEF CallFits
  <2>4. \A u \in Thread : CallFits(call[u], logged + 1)
    <3> SUFFICES ASSUME NEW u \in Thread
                 PROVE  CallFits(call[u], logged + 1)
      OBVIOUS
    <3>1. call[u].entries \in Seq(Entry) /\ CallFits(call[u], logged)
      BY DEF AuditIInv, TypeOK, FlushCall
    <3> QED
      BY <2>1, <3>1, OrderedLater DEF CallFits
  <2> HIDE DEF new
  <2>5. /\ call' \in [Thread -> FlushCall]
        /\ \A u \in Thread : CallFits(call'[u], logged + 1)
    BY <1>1, <2>3, <2>4 DEF WriteEntry, AuditIInv, TypeOK, new
  <2>6. overlapped' \in BOOLEAN
    BY <1>1 DEF WriteEntry, AuditIInv, TypeOK
  <2>7. \A f \in Inode : Ordered(disk[f].entries, logged + 1)
    <3> SUFFICES ASSUME NEW f \in Inode
                 PROVE  Ordered(disk[f].entries, logged + 1)
      OBVIOUS
    <3>1. disk[f].entries \in Seq(Entry) /\ Ordered(disk[f].entries, logged)
      BY DEF AuditIInv, TypeOK, Content
    <3> QED
      BY <2>1, <3>1, OrderedLater
  <2>8. /\ logged' = logged + 1 /\ dirty' = TRUE
        /\ UNCHANGED <<disk, auditName, tmpName, settled>>
    BY <1>1 DEF WriteEntry
  <2> QED
    BY <2>1, <2>2, <2>5, <2>6, <2>7, <2>8 DEF AuditIInv, TypeOK
<1>2. ASSUME NEW t \in Thread, FlushAtExit(t)
      PROVE  AuditIInv'
  <2> DEFINE new == [NoCall EXCEPT !.stage = "flush"]
  <2>1. new \in FlushCall /\ CallFits(new, logged)
    BY EmptyOrdered DEF NoCall, FlushCall, CallFits
  <2> HIDE DEF new
  <2>2. call' \in [Thread -> FlushCall] /\ \A u \in Thread : CallFits(call'[u], logged)
    BY <1>2, <2>1 DEF FlushAtExit, AuditIInv, TypeOK, new
  <2>3. overlapped' \in BOOLEAN
    BY <1>2 DEF FlushAtExit, AuditIInv, TypeOK
  <2> QED
    BY <1>2, <2>2, <2>3 DEF FlushAtExit, AuditIInv, TypeOK
<1>3. ASSUME NEW t \in Thread, Snapshot(t)
      PROVE  AuditIInv'
  <2> DEFINE new == [call[t] EXCEPT !.stage = "open", !.entries = entries]
  <2>1. new \in FlushCall /\ CallFits(new, logged)
    BY ZenonT(60) DEF AuditIInv, TypeOK, FlushCall, CallFits
  <2>2. call' = [call EXCEPT ![t] = new]
    BY <1>3 DEF Snapshot, AuditIInv, TypeOK, FlushCall
  <2> HIDE DEF new
  <2>3. call' \in [Thread -> FlushCall] /\ \A u \in Thread : CallFits(call'[u], logged)
    BY <2>1, <2>2 DEF AuditIInv, TypeOK
  <2>4. dirty' \in BOOLEAN
    BY <1>3 DEF Snapshot
  <2> QED
    BY <1>3, <2>3, <2>4 DEF Snapshot, AuditIInv, TypeOK
<1>4. ASSUME NEW t \in Thread, NothingToFlush(t)
      PROVE  AuditIInv'
  BY <1>4, ReturnKeeps DEF NothingToFlush, AuditIInv, TypeOK
<1>5. ASSUME NEW t \in Thread, OpenTmp(t)
      PROVE  AuditIInv'
  <2>1. PICK f \in Inode :
           /\ tmpName' = f
           /\ disk' = [disk EXCEPT ![f] = UnreadableFile("empty")]
           /\ call' = [call EXCEPT ![t].stage = "dump", ![t].file = f]
    BY <1>5 DEF OpenTmp, FreeInodes, AuditIInv, TypeOK
  <2> DEFINE new == [call[t] EXCEPT !.stage = "dump", !.file = f]
  <2>2. new \in FlushCall /\ CallFits(new, logged)
    BY ZenonT(60) DEF AuditIInv, TypeOK, FlushCall, CallFits
  <2>3. call' = [call EXCEPT ![t] = new]
    BY <2>1 DEF AuditIInv, TypeOK, FlushCall
  <2> HIDE DEF new
  <2>4. call' \in [Thread -> FlushCall] /\ \A u \in Thread : CallFits(call'[u], logged)
    BY <2>2, <2>3 DEF AuditIInv, TypeOK
  <2>5. /\ disk' \in [Inode -> Content]
        /\ \A g \in Inode : Ordered(disk'[g].entries, logged)
    BY <2>1, UnreadableFits DEF AuditIInv, TypeOK
  <2> QED
    BY <1>5, <2>1, <2>4, <2>5 DEF OpenTmp, AuditIInv, TypeOK
<1>6. ASSUME NEW t \in Thread, Dump(t)
      PROVE  AuditIInv'
  <2>1. call[t] \in FlushCall /\ CallFits(call[t], logged)
    BY DEF AuditIInv, TypeOK
  <2>2. PICK c \in Dumped(t) : disk' = [disk EXCEPT ![call[t].file] = c]
    BY <1>6 DEF Dump
  <2>3. c \in Content /\ Ordered(c.entries, logged)
    <3>1. c = WholeFile(call[t].entries) \/ c = UnreadableFile("corrupt")
      BY DEF Dumped
    <3>2. WholeFile(call[t].entries) \in Content
      BY <2>1 DEF WholeFile, Content, FlushCall
    <3>3. Ordered(WholeFile(call[t].entries).entries, logged)
      BY <2>1 DEF WholeFile, CallFits
    <3> QED
      BY <3>1, <3>2, <3>3, UnreadableFits
  <2>4. /\ disk' \in [Inode -> Content]
        /\ \A g \in Inode : Ordered(disk'[g].entries, logged)
    BY <2>2, <2>3 DEF AuditIInv, TypeOK
  <2> DEFINE new == [call[t] EXCEPT !.stage = "replace", !.file = None]
  <2>5. new \in FlushCall /\ CallFits(new, logged)
    BY <2>1 DEF FlushCall, CallFits
  <2>6. call' = [call EXCEPT ![t] = new]
    BY <1>6 DEF Dump, AuditIInv, TypeOK, FlushCall
  <2> HIDE DEF new
  <2>7. call' \in [Thread -> FlushCall] /\ \A u \in Thread : CallFits(call'[u], logged)
    BY <2>5, <2>6 DEF AuditIInv, TypeOK
  <2> QED
    BY <1>6, <2>4, <2>7 DEF Dump, AuditIInv, TypeOK
<1>7. ASSUME NEW t \in Thread, Replace(t)
      PROVE  AuditIInv'
  <2>1. Return(t)
    BY <1>7 DEF Replace
  <2>2. auditName' \in Inode /\ tmpName' \in Inode \cup {None}
    BY <1>7 DEF Replace, AuditIInv, TypeOK
  <2> QED
    BY <1>7, <2>1, <2>2, ReturnKeeps DEF Replace, AuditIInv, TypeOK
<1>8. ASSUME NEW t \in Thread, FlushFails(t)
      PROVE  AuditIInv'
  <2>1. Return(t)
    BY <1>8 DEF FlushFails
  <2>2. /\ disk' \in [Inode -> Content]
        /\ \A g \in Inode : Ordered(disk'[g].entries, logged)
    BY <1>8, UnreadableFits DEF FlushFails, AuditIInv, TypeOK
  <2> QED
    BY <1>8, <2>1, <2>2, ReturnKeeps DEF FlushFails, AuditIInv, TypeOK
<1>9. CASE Restart
  <2>1. disk[auditName] \in Content /\ Ordered(disk[auditName].entries, logged)
    BY DEF AuditIInv, TypeOK
  <2>2. entries' \in Seq(Entry) /\ Ordered(entries', logged)
    BY <1>9, <2>1 DEF Restart, OnDisk, Content
  <2>3. NoCall \in FlushCall /\ CallFits(NoCall, logged)
    BY EmptyOrdered DEF NoCall, FlushCall, CallFits
  <2>4. call' \in [Thread -> FlushCall] /\ \A u \in Thread : CallFits(call'[u], logged)
    BY <1>9, <2>3 DEF Restart
  <2>5. dirty' \in BOOLEAN
    BY <1>9 DEF Restart
  <2> QED
    BY <1>9, <2>2, <2>4, <2>5 DEF Restart, AuditIInv, TypeOK
<1>10. CASE UNCHANGED vars
  BY <1>10 DEF vars, AuditIInv, TypeOK
<1> QED
  BY <1>1, <1>2, <1>3, <1>4, <1>5, <1>6, <1>7, <1>8, <1>9, <1>10 DEF Next, FlushStep

\* The variables keep their types: in particular the log always has a name, though two
\* threads rename the same temporary file, and only logged warnings are ever settled.
THEOREM AuditTypes == Spec => []TypeOK
<1>1. AuditIInv => TypeOK
  BY DEF AuditIInv
<1> QED
  BY <1>1, AuditInit, AuditStep, PTL DEF Spec

\* The trail never repeats an entry or lists two out of order, in memory or in any file,
\* for any number of threads, overlapping flushes, failures and restarts.
THEOREM AuditTrailInOrder == Spec => []TrailInOrder
<1>1. AuditIInv => TrailInOrder
  BY DEF AuditIInv, Ordered, TrailInOrder
<1> QED
  BY <1>1, AuditInit, AuditStep, PTL DEF Spec

-----------------------------------------------------------------------------
(* Flushes that come one at a time.  The list that the one flush under way  *)
(* carries holds what is settled and the entry of its own call, and so does *)
(* the temporary file when it takes the log's place.                        *)

\* The list holds these entries, or has let go of them for newer ones.
Persisted(es, S) ==
    \A e \in S : \/ e \in EntriesIn(es)
                 \/ Len(es) = MAX_ENTRIES /\ \A n \in EntriesIn(es) : n > e

\* What is settled when the call returns.
SettledBy(c) == IF c.warning THEN settled \cup {c.entry} ELSE settled

FlushFits(c) ==
    /\ Persisted(entries, SettledBy(c))
    /\ c.stage = "flush" /\ c.warning => dirty
    /\ c.stage \in {"open", "dump", "replace"} => Persisted(c.entries, SettledBy(c))
    /\ c.stage = "dump" => c.file = tmpName /\ tmpName # None /\ disk[tmpName].state = "empty"
    /\ c.stage = "replace" => tmpName # None /\ disk[tmpName] = WholeFile(c.entries)

OneAtATime ==
    ~overlapped =>
        /\ \A t, u \in Flushing : t = u
        /\ tmpName # auditName
        /\ OnDisk.state = "whole"
        /\ Persisted(OnDisk.entries, settled)
        /\ Persisted(entries, settled)
        /\ \A t \in Flushing : FlushFits(call[t])

\* What was logged is no newer than the last entry, and only a dump has the file open.
CallsFit ==
    /\ \A e \in settled : e <= logged
    /\ \A t \in Thread : /\ call[t].warning => call[t].entry <= logged
                         /\ call[t].stage # "dump" => call[t].file = None

SafeIInv == AuditIInv /\ CallsFit /\ OneAtATime

\* Logging one more entry, and cutting the list to its cap, keeps what was persisted.
LEMMA CappedPersists ==
  ASSUME NEW es \in Seq(Entry), NEW n \in Nat, Ordered(es, n), n + 1 \in Entry,
         NEW S \in SUBSET Entry, \A e \in S : e <= n, Persisted(es, S)
  PROVE  Persisted(Capped(Append(es, n + 1)), S \cup {n + 1})
<1> DEFINE new == Append(es, n + 1)
           L == Len(es)
<1>1. /\ new \in Seq(Entry) /\ L \in Nat /\ Len(new) = L + 1
      /\ DOMAIN new = 1 .. L + 1 /\ DOMAIN es = 1 .. L
      /\ \A i \in 1 .. L : new[i] = es[i]
      /\ new[L + 1] = n + 1
  OBVIOUS
<1>2. \A i \in 1 .. L : es[i] \in Nat /\ es[i] <= n
  BY <1>1, EntriesAreNumbers DEF Ordered
<1>3. \A e \in S : e \in Nat /\ e <= n
  BY AuditAssumption DEF Entry
<1>4. MAX_ENTRIES \in Nat \ {0}
  BY AuditAssumption
<1>5. \A i, j \in 1 .. L + 1 : i < j => new[i] < new[j]
  <2>1. Ordered(new, n + 1)
    BY AppendOrdered
  <2> QED
    BY <1>1, <2>1 DEF Ordered, Increasing
<1> HIDE DEF new, L
<1>6. CASE L + 1 > MAX_ENTRIES
  <2> DEFINE k == L + 1 - MAX_ENTRIES
             kept == SubSeq(new, k + 1, L + 1)
  <2>1. k \in Nat
    BY <1>1, <1>4, <1>6
  <2>2. \A i \in k + 1 .. L + 1 : new[i] \in Entry
    BY <1>1, <2>1
  <2>3. Len(kept) = MAX_ENTRIES /\ DOMAIN kept = 1 .. MAX_ENTRIES
    BY <1>1, <1>4, <2>1, <2>2
  <2>4. \A i \in 1 .. MAX_ENTRIES : i + k \in k + 1 .. L + 1 /\ kept[i] = new[i + k]
    BY <1>1, <1>4, <2>1
  <2>5. Capped(new) = kept
    <3>1. Len(new) = L + 1 /\ Len(new) > MAX_ENTRIES
      BY <1>1, <1>6
    <3>2. Capped(new) = SubSeq(new, Len(new) - MAX_ENTRIES + 1, Len(new))
      BY <3>1 DEF Capped
    <3>3. Len(new) - MAX_ENTRIES + 1 = k + 1
      BY <1>1, <1>4
    <3> QED
      BY <1>1, <3>2, <3>3
  <2>6. \A i \in k + 1 .. L + 1 : i - k \in 1 .. MAX_ENTRIES /\ kept[i - k] = new[i]
    <3> SUFFICES ASSUME NEW i \in k + 1 .. L + 1
                 PROVE  i - k \in 1 .. MAX_ENTRIES /\ kept[i - k] = new[i]
      OBVIOUS
    <3>1. i - k \in 1 .. MAX_ENTRIES /\ (i - k) + k = i
      BY <1>1, <1>4, <2>1
    <3> QED
      BY <2>4, <3>1
  <2> HIDE DEF kept
  <2>7. EntriesIn(kept) = {new[i] : i \in k + 1 .. L + 1}
    BY <2>3, <2>4, <2>6 DEF EntriesIn
  <2>8. n + 1 \in EntriesIn(kept)
    <3>1. L + 1 \in k + 1 .. L + 1
      BY <1>1, <1>4, <2>1
    <3> QED
      BY <1>1, <2>7, <3>1
  <2>9. ASSUME NEW e \in S
        PROVE  e \in EntriesIn(kept) \/ \A m \in EntriesIn(kept) : m > e
    <3>1. CASE e \in EntriesIn(es)
      <4>1. PICK i \in 1 .. L : e = new[i]
        BY <1>1, <3>1 DEF EntriesIn
      <4>2. CASE i > k
        <5>1. i \in k + 1 .. L + 1
          BY <1>1, <2>1, <4>2
        <5> QED
          BY <2>7, <4>1, <5>1
      <4>3. CASE ~(i > k)
        <5>1. \A j \in k + 1 .. L + 1 : i < j /\ j \in 1 .. L + 1
          BY <1>1, <2>1, <4>3
        <5>2. \A j \in k + 1 .. L + 1 : new[j] > e
          BY <1>1, <1>2, <1>5, <4>1, <5>1
        <5> QED
          BY <2>7, <5>2
      <4> QED
        BY <4>2, <4>3
    <3>2. CASE e \notin EntriesIn(es)
      <4>1. \A i \in 1 .. L : es[i] > e
        BY <1>1, <3>2 DEF Persisted, EntriesIn
      <4>2. \A j \in k + 1 .. L + 1 : new[j] > e
        <5> SUFFICES ASSUME NEW j \in k + 1 .. L + 1
                     PROVE  new[j] > e
          OBVIOUS
        <5>1. j \in 1 .. L \/ j = L + 1
          BY <1>1, <2>1
        <5> QED
          BY <1>1, <1>2, <1>3, <4>1, <5>1
      <4> QED
        BY <2>7, <4>2
    <3> QED
      BY <3>1, <3>2
  <2> QED
    BY <2>3, <2>5, <2>8, <2>9 DEF Persisted, new
<1>7. CASE ~(L + 1 > MAX_ENTRIES)
  <2>1. Capped(new) = new
    BY <1>1, <1>7 DEF Capped
  <2>2. EntriesIn(es) \subseteq EntriesIn(new) /\ n + 1 \in EntriesIn(new)
    BY <1>1 DEF EntriesIn
  <2>3. L # MAX_ENTRIES
    BY <1>1, <1>4, <1>7
  <2> QED
    BY <2>1, <2>2, <2>3 DEF Persisted, new, L
<1> QED
  BY <1>6, <1>7

LEMMA SafeInit == Init => SafeIInv
<1> SUFFICES ASSUME Init PROVE SafeIInv
  OBVIOUS
<1>1. AuditIInv
  BY AuditInit
<1>2. CallsFit /\ Flushing = {}
  BY DEF Init, CallsFit, NoCall, Flushing
<1>3. OnDisk.state = "whole" /\ tmpName # auditName /\ settled = {}
  BY AuditAssumption DEF Init, OnDisk, WholeFile
<1> QED
  BY <1>1, <1>2, <1>3 DEF SafeIInv, OneAtATime, Persisted

\* The call of t becomes c, and what no other call holds goes on as it was.
LEMMA OneFlush ==
  ASSUME SafeIInv, ~overlapped, NEW t \in Thread, t \in Flushing, NEW c,
         call' = [call EXCEPT ![t] = c]
  PROVE  /\ \A u \in Thread : call'[u] = IF u = t THEN c ELSE call[u]
         /\ Flushing' = IF c.stage = "idle" THEN {} ELSE {t}
<1>1. \A u \in Thread : call'[u] = IF u = t THEN c ELSE call[u]
  BY DEF SafeIInv, AuditIInv, TypeOK
<1>2. \A u \in Flushing : u = t
  BY DEF SafeIInv, OneAtATime
<1> QED
  BY <1>1, <1>2 DEF Flushing

\* The calls know no entry that was not logged, after every step.
LEMMA StepCallsFit == SafeIInv /\ [Next]_vars => CallsFit'
<1> SUFFICES ASSUME SafeIInv, [Next]_vars PROVE CallsFit'
  OBVIOUS
<1>0. /\ TypeOK /\ CallsFit /\ logged \in Nat
      /\ \A t \in Thread : call[t] \in FlushCall /\ CallFits(call[t], logged)
  BY AuditAssumption DEF SafeIInv, AuditIInv, TypeOK
<1>0a. \A e \in settled : e \in Nat
  BY <1>0, AuditAssumption DEF TypeOK, Entry
<1>0b. \A t \in Thread : call[t].warning => call[t].entry \in Nat
  BY <1>0, AuditAssumption DEF FlushCall, CallFits, Entry
<1>1. ASSUME NEW t \in Thread, NEW warning \in BOOLEAN, WriteEntry(t, warning)
      PROVE  CallsFit'
  <2>1. logged' = logged + 1 /\ settled' = settled
    BY <1>1 DEF WriteEntry
  <2> DEFINE new == [NoCall EXCEPT !.stage = "flush", !.entry = logged + 1,
                                   !.warning = warning]
  <2>2. new.entry = logged + 1 /\ new.file = None
    BY DEF NoCall
  <2>3. \A u \in Thread : call'[u] = call[u] \/ call'[u] = new
    BY <1>0, <1>1 DEF WriteEntry, TypeOK
  <2> HIDE DEF new
  <2> QED
    BY <1>0, <1>0a, <1>0b, <2>1, <2>2, <2>3 DEF CallsFit
<1>2. ASSUME NEW t \in Thread, Return(t), UNCHANGED logged
      PROVE  CallsFit'
  <2>1. \A u \in Thread : call'[u] = IF u = t THEN NoCall ELSE call[u]
    BY <1>0, <1>2 DEF Return, TypeOK
  <2>2. NoCall.warning = FALSE /\ NoCall.file = None
    BY DEF NoCall
  <2>3. \A e \in settled' : e <= logged
    BY <1>0, <1>2 DEF Return, CallsFit
  <2> QED
    BY <1>0, <1>2, <2>1, <2>2, <2>3 DEF CallsFit
<1>3. ASSUME NEW t \in Thread, NEW stage, NEW es, NEW file,
             call' = [call EXCEPT ![t] = [call[t] EXCEPT !.stage = stage, !.entries = es,
                                                         !.file = file]],
             stage # "dump" => file = None,
             UNCHANGED <<logged, settled>>
      PROVE  CallsFit'
  <2>1. call[t] \in FlushCall
    BY <1>0
  <2>2. /\ call'[t].warning = call[t].warning /\ call'[t].entry = call[t].entry
        /\ call'[t].stage = stage /\ call'[t].file = file
        /\ \A u \in Thread : u # t => call'[u] = call[u]
    BY <1>0, <1>3, <2>1 DEF TypeOK, FlushCall
  <2> QED
    BY <1>0, <1>3, <2>2 DEF CallsFit
<1>4. ASSUME NEW t \in Thread, FlushAtExit(t)
      PROVE  CallsFit'
  <2>1. \A u \in Thread : call'[u] = call[u] \/ call'[u] = [NoCall EXCEPT !.stage = "flush"]
    BY <1>0, <1>4 DEF FlushAtExit, TypeOK
  <2>2. UNCHANGED <<logged, settled>>
    BY <1>4 DEF FlushAtExit
  <2> QED
    BY <1>0, <2>1, <2>2 DEF CallsFit, NoCall
<1>5. ASSUME NEW t \in Thread, Snapshot(t)
      PROVE  CallsFit'
  <2>1. call[t].file = None /\ call[t] \in FlushCall
    BY <1>0, <1>5 DEF CallsFit, Snapshot
  <2>2. call' = [call EXCEPT ![t] = [call[t] EXCEPT !.stage = "open", !.entries = entries,
                                                    !.file = call[t].file]]
    BY <1>0, <1>5, <2>1 DEF Snapshot, TypeOK, FlushCall
  <2>3. UNCHANGED <<logged, settled>>
    BY <1>5 DEF Snapshot
  <2> QED
    BY <1>3, <2>1, <2>2, <2>3
<1>6. ASSUME NEW t \in Thread, OpenTmp(t)
      PROVE  CallsFit'
  <2>1. PICK f : call' = [call EXCEPT ![t].stage = "dump", ![t].file = f]
    BY <1>6 DEF OpenTmp
  <2>2. call' = [call EXCEPT ![t] = [call[t] EXCEPT !.stage = "dump",
                                                    !.entries = call[t].entries, !.file = f]]
    BY <1>0, <2>1 DEF TypeOK, FlushCall
  <2> QED
    BY <1>3, <1>6, <2>2 DEF OpenTmp
<1>7. ASSUME NEW t \in Thread, Dump(t)
      PROVE  CallsFit'
  <2>1. call' = [call EXCEPT ![t] = [call[t] EXCEPT !.stage = "replace",
                                                    !.entries = call[t].entries, !.file = None]]
    BY <1>0, <1>7 DEF Dump, TypeOK, FlushCall
  <2>2. UNCHANGED <<logged, settled>>
    BY <1>7 DEF Dump
  <2> QED
    BY <1>3, <2>1, <2>2
<1>8. CASE Restart
  BY <1>0, <1>8 DEF Restart, CallsFit, NoCall
<1>9. CASE UNCHANGED vars
  BY <1>0, <1>9 DEF vars, CallsFit
<1> QED
  BY <1>1, <1>2, <1>4, <1>5, <1>6, <1>7, <1>8, <1>9
  DEF Next, FlushStep, NothingToFlush, Replace, FlushFails

\* What a call settles is entries that were logged.
LEMMA SettledIsLogged ==
  ASSUME SafeIInv, NEW t \in Thread
  PROVE  SettledBy(call[t]) \subseteq Entry /\ \A e \in SettledBy(call[t]) : e <= logged
<1>1. settled \subseteq Entry /\ call[t] \in FlushCall /\ CallFits(call[t], logged)
  BY DEF SafeIInv, AuditIInv, TypeOK
<1>2. call[t].warning => call[t].entry \in Entry
  BY <1>1 DEF FlushCall, CallFits
<1> QED
  BY <1>1, <1>2 DEF SafeIInv, CallsFit, SettledBy

\* A list that holds more holds less.
LEMMA PersistedLess ==
  ASSUME NEW es, NEW S, NEW T, S \subseteq T, Persisted(es, T)
  PROVE  Persisted(es, S)
  BY DEF Persisted

\* A call that is alone returns, and what it settles is in the list and in the log.
LEMMA LastReturns ==
  ASSUME SafeIInv, ~overlapped, NEW t \in Thread, t \in Flushing, Return(t),
         tmpName' # auditName', OnDisk'.state = "whole",
         Persisted(OnDisk'.entries, SettledBy(call[t])), UNCHANGED entries
  PROVE  OneAtATime'
<1>1. /\ Persisted(entries, SettledBy(call[t]))
      /\ call \in [Thread -> FlushCall]
      /\ \A u \in Flushing : u = t
  BY DEF SafeIInv, AuditIInv, TypeOK, OneAtATime, FlushFits
<1>2. settled' = SettledBy(call[t])
  BY DEF Return, SettledBy
<1>3. Flushing' = {}
  BY <1>1 DEF Return, NoCall, Flushing
<1> QED
  BY <1>1, <1>2, <1>3 DEF OneAtATime

\* A call that is alone goes on to its next stage.
LEMMA OnlyCallGoesOn ==
  ASSUME SafeIInv, ~overlapped, NEW t \in Thread, t \in Flushing, NEW c,
         call' = [call EXCEPT ![t] = c], FlushFits(call[t])',
         tmpName' # auditName', OnDisk' = OnDisk, UNCHANGED <<entries, settled>>
  PROVE  OneAtATime'
<1>1. /\ \A u \in Thread : call'[u] = IF u = t THEN c ELSE call[u]
      /\ Flushing' \subseteq {t}
  BY OneFlush
<1>2. OneAtATime /\ ~overlapped
  BY DEF SafeIInv
<1> QED
  BY <1>1, <1>2 DEF OneAtATime

LEMMA StepOneAtATime == SafeIInv /\ [Next]_vars => OneAtATime'
<1> SUFFICES ASSUME SafeIInv, [Next]_vars, ~overlapped' PROVE OneAtATime'
  BY DEF OneAtATime
<1>0. ~overlapped
  BY DEF Next, FlushStep, WriteEntry, FlushAtExit, Snapshot, NothingToFlush, OpenTmp, Dump,
         Replace, FlushFails, Restart, vars
<1>0a. /\ TypeOK /\ AuditIInv /\ CallsFit /\ logged \in Nat
       /\ \A t \in Thread : call[t] \in FlushCall
       /\ \A t, u \in Flushing : t = u
       /\ tmpName # auditName
       /\ OnDisk.state = "whole"
       /\ Persisted(OnDisk.entries, settled)
       /\ Persisted(entries, settled)
       /\ \A t \in Flushing : FlushFits(call[t])
       /\ Flushing \subseteq Thread
  BY <1>0, AuditAssumption DEF SafeIInv, AuditIInv, TypeOK, OneAtATime, Flushing
<1>1. ASSUME NEW t \in Thread, NEW warning \in BOOLEAN, WriteEntry(t, warning)
      PROVE  OneAtATime'
  <2>1. /\ logged' = logged + 1 /\ logged + 1 \in Entry /\ dirty'
        /\ entries' = Capped(Append(entries, logged + 1))
        /\ UNCHANGED <<disk, auditName, tmpName, settled>>
        /\ OnDisk' = OnDisk
    BY <1>0a, <1>1, AuditAssumption DEF WriteEntry, Entry, OnDisk
  <2>2. ASSUME NEW S \in SUBSET Entry, \A e \in S : e <= logged, Persisted(entries, S)
        PROVE  Persisted(entries', S \cup {logged + 1})
    <3>1. entries \in Seq(Entry) /\ Ordered(entries, logged)
      BY <1>0a DEF AuditIInv, TypeOK
    <3> QED
      BY <1>0a, <2>1, <2>2, <3>1, CappedPersists
  <2>3. Persisted(entries', settled \cup {logged + 1})
    BY <1>0a, <2>2 DEF TypeOK, CallsFit
  <2>4. Persisted(entries', settled)
    BY <2>3, PersistedLess
  <2>5. CASE UNCHANGED call
    <3>1. Flushing' = Flushing
      BY <2>5 DEF Flushing
    <3>2. ASSUME NEW u \in Flushing PROVE FlushFits(call[u])'
      <4>1. u \in Thread /\ FlushFits(call[u])
        BY <1>0a
      <4>2. SettledBy(call[u]) \subseteq Entry /\ \A e \in SettledBy(call[u]) : e <= logged
        BY <4>1, SettledIsLogged
      <4>3. Persisted(entries, SettledBy(call[u]))
        BY <4>1 DEF FlushFits
      <4>4. Persisted(entries', SettledBy(call[u]) \cup {logged + 1})
        BY <2>2, <4>2, <4>3
      <4>5. Persisted(entries', SettledBy(call[u]))
        BY <4>4, PersistedLess
      <4>6. SettledBy(call[u])' = SettledBy(call[u])
        BY <2>1, <2>5 DEF SettledBy
      <4> QED
        BY <2>1, <2>5, <4>1, <4>5, <4>6 DEF FlushFits
    <3> QED
      BY <1>0a, <2>1, <2>4, <2>5, <3>1, <3>2 DEF OneAtATime
  <2> DEFINE new == [NoCall EXCEPT !.stage = "flush", !.entry = logged + 1,
                                   !.warning = warning]
  <2>6. new.stage = "flush" /\ new.entry = logged + 1 /\ new.warning = warning
    BY DEF NoCall
  <2>7. call' = [call EXCEPT ![t] = new] => Flushing = {}
    <3> SUFFICES ASSUME call' = [call EXCEPT ![t] = new] PROVE Flushing = {}
      OBVIOUS
    <3>1. call'[t] = new /\ call[t].stage = "idle"
      BY <1>0a, <1>1 DEF TypeOK, WriteEntry
    <3>2. call' # call
      BY <2>6, <3>1
    <3> QED
      BY <1>1, <3>2 DEF WriteEntry
  <2>8. call' = [call EXCEPT ![t] = new] \/ UNCHANGED call
    BY <1>1 DEF WriteEntry
  <2> HIDE DEF new
  <2>9. CASE call' = [call EXCEPT ![t] = new]
    <3>1. \A u \in Thread : call'[u] = IF u = t THEN new ELSE call[u]
      BY <1>0a, <2>9 DEF TypeOK
    <3>2. Flushing' \subseteq {t}
      BY <2>7, <2>9, <3>1 DEF Flushing
    <3>3. SettledBy(call[t])' \subseteq settled \cup {logged + 1}
      BY <2>1, <2>6, <3>1 DEF SettledBy
    <3>4. Persisted(entries, SettledBy(call[t]))'
      BY <2>3, <3>3, PersistedLess
    <3>5. FlushFits(call[t])'
      BY <2>1, <2>6, <3>1, <3>4 DEF FlushFits
    <3> QED
      BY <1>0a, <2>1, <2>4, <3>2, <3>5 DEF OneAtATime
  <2> QED
    BY <2>5, <2>8, <2>9
<1>2. ASSUME NEW t \in Thread, FlushAtExit(t)
      PROVE  OneAtATime'
  <2> DEFINE new == [NoCall EXCEPT !.stage = "flush"]
  <2>1. new.stage = "flush" /\ new.warning = FALSE
    BY DEF NoCall
  <2>2. /\ Flushing = {}
        /\ \A u \in Thread : call'[u] = IF u = t THEN new ELSE call[u]
        /\ UNCHANGED <<entries, disk, auditName, tmpName, settled>>
        /\ OnDisk' = OnDisk
    BY <1>0a, <1>2 DEF FlushAtExit, TypeOK, OnDisk
  <2> HIDE DEF new
  <2>3. Flushing' \subseteq {t}
    BY <2>2 DEF Flushing
  <2>4. FlushFits(call[t])'
    BY <1>0a, <2>1, <2>2 DEF FlushFits, SettledBy
  <2> QED
    BY <1>0a, <2>2, <2>3, <2>4 DEF OneAtATime
<1>3. ASSUME NEW t \in Thread, Snapshot(t)
      PROVE  OneAtATime'
  <2> DEFINE new == [call[t] EXCEPT !.stage = "open", !.entries = entries]
  <2>1. t \in Flushing /\ FlushFits(call[t]) /\ call[t] \in FlushCall
    BY <1>0a, <1>3 DEF Snapshot, Flushing
  <2>2. /\ new.stage = "open" /\ new.entries = entries
        /\ new.warning = call[t].warning /\ new.entry = call[t].entry
    BY <2>1 DEF FlushCall
  <2>3. call' = [call EXCEPT ![t] = new] /\ call'[t] = new
    BY <1>0a, <1>3, <2>1 DEF Snapshot, TypeOK, FlushCall
  <2>4. OnDisk' = OnDisk /\ UNCHANGED <<entries, auditName, tmpName, settled>>
    BY <1>3 DEF Snapshot, OnDisk
  <2> HIDE DEF new
  <2>5. FlushFits(call[t])'
    BY <2>1, <2>2, <2>3, <2>4 DEF FlushFits, SettledBy
  <2> QED
    BY <1>0, <1>0a, <2>1, <2>3, <2>4, <2>5, OnlyCallGoesOn
<1>4. ASSUME NEW t \in Thread, NothingToFlush(t)
      PROVE  OneAtATime'
  <2>1. t \in Flushing /\ FlushFits(call[t])
    BY <1>0a, <1>4 DEF NothingToFlush, Flushing
  <2>2. SettledBy(call[t]) = settled
    BY <1>4, <2>1 DEF NothingToFlush, FlushFits, SettledBy
  <2>3. OnDisk' = OnDisk /\ UNCHANGED <<entries, auditName, tmpName>>
    BY <1>4 DEF NothingToFlush, OnDisk
  <2> QED
    BY <1>0, <1>0a, <1>4, <2>1, <2>2, <2>3, LastReturns DEF NothingToFlush
<1>5. ASSUME NEW t \in Thread, OpenTmp(t)
      PROVE  OneAtATime'
  <2>1. PICK f \in Inode :
           /\ f # auditName /\ f # None
           /\ tmpName' = f
           /\ disk' = [disk EXCEPT ![f] = UnreadableFile("empty")]
           /\ call' = [call EXCEPT ![t].stage = "dump", ![t].file = f]
    BY <1>0a, <1>5, AuditAssumption DEF OpenTmp, FreeInodes, TypeOK
  <2> DEFINE new == [call[t] EXCEPT !.stage = "dump", !.file = f]
  <2>2. t \in Flushing /\ FlushFits(call[t]) /\ call[t] \in FlushCall
    BY <1>0a, <1>5 DEF OpenTmp, Flushing
  <2>3. /\ new.stage = "dump" /\ new.file = f /\ new.entries = call[t].entries
        /\ new.warning = call[t].warning /\ new.entry = call[t].entry
    BY <2>2 DEF FlushCall
  <2>4. call' = [call EXCEPT ![t] = new] /\ call'[t] = new
    BY <1>0a, <2>1, <2>2 DEF TypeOK, FlushCall
  <2>5. UNCHANGED <<entries, auditName, settled>> /\ OnDisk' = OnDisk
    BY <1>0a, <1>5, <2>1 DEF OpenTmp, OnDisk, TypeOK
  <2>6. disk'[f].state = "empty"
    BY <1>0a, <2>1 DEF TypeOK, UnreadableFile
  <2> HIDE DEF new
  <2>7. Persisted(call[t].entries, SettledBy(call[t]))
    BY <1>5, <2>2 DEF OpenTmp, FlushFits
  <2>8. FlushFits(call[t])'
    BY <2>1, <2>2, <2>3, <2>4, <2>5, <2>6, <2>7 DEF FlushFits, SettledBy
  <2> QED
    BY <1>0, <1>0a, <2>1, <2>2, <2>4, <2>5, <2>8, OnlyCallGoesOn
<1>6. ASSUME NEW t \in Thread, Dump(t)
      PROVE  OneAtATime'
  <2>1. t \in Flushing /\ FlushFits(call[t]) /\ call[t] \in FlushCall /\ call[t].stage = "dump"
    BY <1>0a, <1>6 DEF Dump, Flushing
  <2>2. call[t].file = tmpName /\ tmpName \in Inode /\ disk[tmpName].state = "empty"
    BY <1>0a, <2>1 DEF FlushFits, TypeOK
  <2>3. tmpName # None
    BY <2>1 DEF FlushFits
  <2>4. \A u \in Thread \ {t} : call[u].file # call[t].file
    <3> SUFFICES ASSUME NEW u \in Thread, u # t PROVE call[u].file # call[t].file
      OBVIOUS
    <3>1. call[u].stage # "dump"
      BY <1>0a, <2>1 DEF Flushing
    <3> QED
      BY <1>0a, <2>2, <2>3, <3>1 DEF CallsFit
  <2>5. Dumped(t) = {WholeFile(call[t].entries)}
    BY <2>2, <2>4 DEF Dumped
  <2>6. /\ disk' = [disk EXCEPT ![tmpName] = WholeFile(call[t].entries)]
        /\ UNCHANGED <<entries, auditName, tmpName, settled>>
    BY <1>6, <2>2, <2>5 DEF Dump
  <2>7. OnDisk' = OnDisk /\ disk'[tmpName] = WholeFile(call[t].entries)
    BY <1>0a, <2>2, <2>6 DEF OnDisk, TypeOK
  <2> DEFINE new == [call[t] EXCEPT !.stage = "replace", !.file = None]
  <2>8. /\ new.stage = "replace" /\ new.entries = call[t].entries
        /\ new.warning = call[t].warning /\ new.entry = call[t].entry
    BY <2>1 DEF FlushCall
  <2>9. call' = [call EXCEPT ![t] = new] /\ call'[t] = new
    BY <1>0a, <1>6, <2>1 DEF Dump, TypeOK, FlushCall
  <2> HIDE DEF new
  <2>10. FlushFits(call[t])'
    BY <2>1, <2>3, <2>6, <2>7, <2>8, <2>9 DEF FlushFits, SettledBy
  <2> QED
    BY <1>0, <1>0a, <2>1, <2>6, <2>7, <2>9, <2>10, OnlyCallGoesOn
<1>7. ASSUME NEW t \in Thread, Replace(t)
      PROVE  OneAtATime'
  <2>1. t \in Flushing /\ FlushFits(call[t]) /\ call[t].stage = "replace"
    BY <1>0a, <1>7 DEF Replace, Flushing
  <2>2. /\ tmpName # None /\ disk[tmpName] = WholeFile(call[t].entries)
        /\ Persisted(call[t].entries, SettledBy(call[t]))
    BY <2>1 DEF FlushFits
  <2>3. /\ auditName' = tmpName /\ tmpName' = None /\ auditName' # None
        /\ UNCHANGED <<entries, disk>>
    BY <1>7, <2>2 DEF Replace
  <2>4. OnDisk'.state = "whole" /\ OnDisk'.entries = call[t].entries
    BY <2>2, <2>3 DEF OnDisk, WholeFile
  <2> QED
    BY <1>0, <1>7, <2>1, <2>2, <2>3, <2>4, LastReturns DEF Replace
<1>8. ASSUME NEW t \in Thread, FlushFails(t)
      PROVE  OneAtATime'
  BY <1>8 DEF FlushFails
<1>9. CASE Restart
  <2>1. Flushing' = {}
    BY <1>9 DEF Restart, Flushing, NoCall
  <2>2. OnDisk' = OnDisk /\ entries' = OnDisk.entries /\ UNCHANGED <<auditName, tmpName, settled>>
    BY <1>9 DEF Restart, OnDisk
  <2> QED
    BY <1>0a, <2>1, <2>2 DEF OneAtATime
<1>10. CASE UNCHANGED vars
  <2>1. Flushing' = Flushing /\ OnDisk' = OnDisk /\ UNCHANGED vars
    BY <1>10 DEF vars, Flushing, OnDisk
  <2>2. ASSUME NEW u \in Flushing PROVE FlushFits(call[u])'
    BY <1>0a, <2>1 DEF FlushFits, SettledBy, vars
  <2> QED
    BY <1>0a, <2>1, <2>2 DEF OneAtATime, vars
<1> QED
  BY <1>1, <1>2, <1>3, <1>4, <1>5, <1>6, <1>7, <1>8, <1>9, <1>10 DEF Next, FlushStep

LEMMA SafeStep == SafeIInv /\ [Next]_vars => SafeIInv'
  BY AuditStep, StepCallsFit, StepOneAtATime DEF SafeIInv

\* As long as flushes come one at a time and none fails, the log is never half-written,
\* at whatever point of a flush the process dies.
THEOREM AuditLogWhole == Spec => []LogWholeUnlessOverlapped
<1>1. SafeIInv => LogWholeUnlessOverlapped
  BY DEF SafeIInv, OneAtATime, LogWholeUnlessOverlapped
<1> QED
  BY <1>1, SafeInit, SafeStep, PTL DEF Spec

\* As long as flushes come one at a time and none fails, a security event whose call has
\* returned is in the log, or has left it for MAX_ENTRIES newer entries.
THEOREM AuditSecurityPersisted == Spec => []SecurityEventsPersisted
<1>1. SafeIInv => SecurityEventsPersisted
  BY DEF SafeIInv, OneAtATime, Persisted, SecurityEventsPersisted
<1> QED
  BY <1>1, SafeInit, SafeStep, PTL DEF Spec
=============================================================================
