--------------------------- MODULE BackendProofs ---------------------------
(***************************************************************************)
(* Theorems about the parts of the backend that keep its own records: the  *)
(* jobs of the scheduler, the access policy they apply, and the accounts.  *)
(* The three models share no state.                                        *)
(***************************************************************************)
EXTENDS DeviceJobs, TimePolicy, Accounts, TLAPS

-----------------------------------------------------------------------------
(***************************************************************************)
(* The jobs: none is paused for good, a lone request finds the jobs        *)
(* paused, and it gives them their due times back.                         *)
(***************************************************************************)

\* Where a request stands, in the order of its statements.
OpFits(o) ==
    /\ op[o].stage = "idle" => op[o].todo = {} /\ op[o].at = None
    /\ op[o].stage = "work" => op[o].todo = Job /\ op[o].at = None
    /\ op[o].at # None => op[o].at \in op[o].todo
    /\ (op[o].stage = "resume" /\ op[o].at # None) => remembered[o][op[o].at] # None

\* Request o has still to resume job j.
Owes(o, j) ==
    \/ op[o].stage \in {"pause", "work"}
    \/ op[o].stage = "resume" /\ j \in op[o].todo /\ op[o].at # j

\* A paused job is owed a resume by some request.
PausedIsOwed == \A j \in Job : left[j] = None => \E o \in Operation : Owes(o, j)

\* t gives job j the due time it would have had, if only the grace period is added.
Kept(t, j) == t \in Nat /\ Later(t, Grace) = Later(cadence[j], Grace)

\* Request o has paused job j and not begun to resume it.
Holds(o, j) ==
    \/ op[o].stage = "pause" /\ j \notin op[o].todo
    \/ op[o].stage = "work"
    \/ op[o].stage = "resume" /\ j \in op[o].todo /\ op[o].at # j

\* What request o, alone, has made of job j.
AloneWith(o, j) ==
    /\ Holds(o, j) => left[j] = None
    /\ (Holds(o, j) \/ op[o].at = j) => Kept(remembered[o][j], j)
    /\ (op[o].stage = "pause" /\ j \in op[o].todo) => Kept(left[j], j)
    /\ (op[o].stage = "resume" /\ j \notin op[o].todo) => Kept(left[j], j)

\* While no two requests have overlapped, a job has its own due time, or the one request
\* under way has remembered it.
OneAtATime ==
    ~overlapped =>
        /\ \A o, p \in Operation : (op[o].stage # "idle" /\ op[p].stage # "idle") => o = p
        /\ (\A o \in Operation : op[o].stage = "idle") => \A j \in Job : Kept(left[j], j)
        /\ \A o \in Operation, j \in Job : op[o].stage # "idle" => AloneWith(o, j)

\* The invariant is inductive: a job without a due time is owed one, and as long as
\* requests come one at a time the due time of a job is either its own or remembered.
JobsIInv ==
    /\ TypeOK
    /\ cadence \in [Job -> Nat]
    /\ \A o \in Operation : OpFits(o)
    /\ PausedIsOwed
    /\ OneAtATime

-----------------------------------------------------------------------------

\* None is no time.
LEMMA NoneIsNoTime == None \notin Nat /\ None \notin Job /\ Grace \in Nat
BY JobsAssumption

\* At first no request is under way and every job is due.
LEMMA JobsInit == Init => JobsIInv
<1> SUFFICES ASSUME Init
             PROVE  JobsIInv
  OBVIOUS
<1> USE NoneIsNoTime
<1>1. left \in [Job -> Nat] /\ cadence = left
  BY JobsAssumption DEF Init
<1>2. Idle \in Op
  BY DEF Idle, Op
<1>2a. remembered \in [Operation -> [Job -> Due]] /\ left \in [Job -> Due]
  BY <1>1 DEF Init, Due, Time
<1>2b. op \in [Operation -> Op]
  BY <1>2 DEF Init
<1>3. TypeOK /\ cadence \in [Job -> Nat]
  BY <1>1, <1>2a, <1>2b, JobsAssumption DEF Init, TypeOK
<1>4. \A o \in Operation : OpFits(o)
  BY DEF Init, Idle, OpFits
<1>5. PausedIsOwed
  BY <1>1 DEF PausedIsOwed
<1>6. OneAtATime
  BY <1>1 DEF OneAtATime, Init, Idle, Kept
<1> QED
  BY <1>3, <1>4, <1>5, <1>6 DEF JobsIInv

\* Dealing with a job leaves the request at its other jobs, or in its next stage.
LEMMA DoneWith ==
  ASSUME NEW o \in Operation, NEW j \in Job, NEW next \in {"work", "idle"},
         op \in [Operation -> Op], Done(o, j, next)
  PROVE  /\ op' \in [Operation -> Op]
         /\ \A p \in Operation \ {o} : op'[p] = op[p]
         /\ op'[o].at = None
         /\ op[o].todo = {j} =>
               /\ op'[o].stage = next
               /\ op'[o].todo = IF next = "idle" THEN {} ELSE Job
         /\ op[o].todo # {j} =>
               op'[o].stage = op[o].stage /\ op'[o].todo = op[o].todo \ {j}
<1> DEFINE finished == [stage |-> next, todo |-> IF next = "idle" THEN {} ELSE Job, at |-> None]
           further == [op[o] EXCEPT !.todo = @ \ {j}, !.at = None]
<1>1. op[o] \in Op
  OBVIOUS
<1>2. finished \in Op
  BY DEF Op
<1>3. /\ further \in Op /\ further.at = None
      /\ further.stage = op[o].stage /\ further.todo = op[o].todo \ {j}
  BY <1>1 DEF Op
<1>4. op' = [op EXCEPT ![o] = IF op[o].todo = {j} THEN finished ELSE further]
  BY DEF Done
<1> HIDE DEF finished, further
<1>5. op' \in [Operation -> Op] /\ \A p \in Operation \ {o} : op'[p] = op[p]
  BY <1>2, <1>3, <1>4
<1>6. op'[o] = IF op[o].todo = {j} THEN finished ELSE further
  BY <1>4
<1> QED
  BY <1>3, <1>5, <1>6 DEF finished

-----------------------------------------------------------------------------

\* A request begins.
LEMMA RequestKeeps ==
  ASSUME JobsIInv, NEW o \in Operation, Request(o)
  PROVE  JobsIInv'
<1> USE NoneIsNoTime DEF JobsIInv
<1> DEFINE asked == [stage |-> "pause", todo |-> Job, at |-> None]
<1>1. asked \in Op
  BY DEF Op
<1>2. op' \in [Operation -> Op] /\ op'[o] = asked /\ \A p \in Operation \ {o} : op'[p] = op[p]
  BY <1>1 DEF Request, TypeOK
<1>3. /\ remembered' \in [Operation -> [Job -> Due]]
      /\ \A p \in Operation \ {o} : remembered'[p] = remembered[p]
  BY DEF Request, TypeOK, Due
<1>4. requests' \in 0 .. MaxRequests
  BY JobsAssumption DEF Request, TypeOK
<1>5. TypeOK' /\ cadence' \in [Job -> Nat]
  BY <1>2, <1>3, <1>4 DEF Request, TypeOK
<1>6. (\A p \in Operation : OpFits(p))'
  BY <1>2, <1>3 DEF OpFits, TypeOK
<1>7. PausedIsOwed'
  BY <1>2 DEF PausedIsOwed, Owes, Request
<1>8. OneAtATime'
  <2> SUFFICES ASSUME ~overlapped'
               PROVE  OneAtATime'
    BY DEF OneAtATime
  <2>1. ~overlapped /\ \A p \in Operation : op[p].stage = "idle"
    BY DEF Request, Active, TypeOK
  <2>2. \A j \in Job : Kept(left[j], j)
    BY <2>1 DEF OneAtATime
  <2>3. \A p \in Operation : op'[p].stage # "idle" => p = o
    BY <2>1, <1>2
  <2>4. \A j \in Job : AloneWith(o, j)'
    BY <2>2, <1>2 DEF AloneWith, Holds, Kept, Request
  <2> QED
    BY <2>3, <2>4, <1>2 DEF OneAtATime
<1> QED
  BY <1>5, <1>6, <1>7, <1>8

\* It reads the due time of a job.
LEMMA RememberKeeps ==
  ASSUME JobsIInv, NEW o \in Operation, NEW j \in Job, Remember(o, j)
  PROVE  JobsIInv'
<1> USE NoneIsNoTime DEF JobsIInv
<1>1. /\ op' \in [Operation -> Op] /\ \A p \in Operation \ {o} : op'[p] = op[p]
      /\ op'[o].stage = "pause" /\ op'[o].todo = op[o].todo /\ op'[o].at = j
  <2>1. op[o] \in Op
    BY DEF TypeOK
  <2>2. [op[o] EXCEPT !.at = j] \in Op
    BY <2>1 DEF Op
  <2> QED
    BY <2>1, <2>2 DEF Remember, TypeOK, Op
<1>2. /\ remembered' \in [Operation -> [Job -> Due]]
      /\ \A p \in Operation, k \in Job :
            remembered'[p][k] = IF p = o /\ k = j THEN left[j] ELSE remembered[p][k]
  BY DEF Remember, TypeOK
<1>3. TypeOK' /\ cadence' \in [Job -> Nat]
  BY <1>1, <1>2 DEF Remember, TypeOK
<1>4. (\A p \in Operation : OpFits(p))'
  BY <1>1, <1>2 DEF OpFits, Remember, TypeOK, Op
<1>5. PausedIsOwed'
  BY <1>1 DEF PausedIsOwed, Owes, Remember
<1>6. OneAtATime'
  BY <1>1, <1>2 DEF OneAtATime, AloneWith, Holds, Kept, Remember
<1> QED
  BY <1>3, <1>4, <1>5, <1>6

\* It pauses the job it has read.
LEMMA PauseKeeps ==
  ASSUME JobsIInv, NEW o \in Operation, NEW j \in Job, Pause(o, j)
  PROVE  JobsIInv'
<1> USE NoneIsNoTime DEF JobsIInv
<1>0. j \in op[o].todo /\ op[o].stage = "pause" /\ op[o].at = j
  BY DEF Pause, OpFits
<1>1. /\ op' \in [Operation -> Op]
      /\ \A p \in Operation \ {o} : op'[p] = op[p]
      /\ op'[o].at = None
      /\ op[o].todo = {j} => op'[o].stage = "work" /\ op'[o].todo = Job
      /\ op[o].todo # {j} => op'[o].stage = "pause" /\ op'[o].todo = op[o].todo \ {j}
  BY <1>0, DoneWith DEF Pause, TypeOK
<1>2. left' \in [Job -> Due] /\ \A k \in Job : left'[k] = IF k = j THEN None ELSE left[k]
  BY DEF Pause, TypeOK, Due
<1>3. TypeOK' /\ cadence' \in [Job -> Nat]
  BY <1>1, <1>2 DEF Pause, TypeOK
<1>4. (\A p \in Operation : OpFits(p))'
  BY <1>0, <1>1 DEF OpFits, Pause
<1>5. PausedIsOwed'
  BY <1>1 DEF PausedIsOwed, Owes
<1>6. OneAtATime'
  BY <1>0, <1>1, <1>2 DEF OneAtATime, AloneWith, Holds, Kept, Pause
<1> QED
  BY <1>3, <1>4, <1>5, <1>6

\* It does its work.
LEMMA WorkKeeps ==
  ASSUME JobsIInv, NEW o \in Operation, Work(o)
  PROVE  JobsIInv'
<1> USE NoneIsNoTime DEF JobsIInv
<1>1. /\ op' \in [Operation -> Op] /\ \A p \in Operation \ {o} : op'[p] = op[p]
      /\ op'[o].stage = "resume" /\ op'[o].todo = Job /\ op'[o].at = None
  <2>1. op[o] \in Op /\ op[o].todo = Job /\ op[o].at = None
    BY DEF TypeOK, OpFits, Work
  <2>2. [op[o] EXCEPT !.stage = "resume"] \in Op
    BY <2>1 DEF Op
  <2> QED
    BY <2>1, <2>2 DEF Work, TypeOK, Op
<1>3. TypeOK' /\ cadence' \in [Job -> Nat]
  BY <1>1 DEF Work, TypeOK
<1>4. (\A p \in Operation : OpFits(p))'
  BY <1>1 DEF OpFits, Work
<1>5. PausedIsOwed'
  BY <1>1 DEF PausedIsOwed, Owes, Work
<1>6. OneAtATime'
  BY <1>1 DEF OneAtATime, AloneWith, Holds, Kept, Work
<1> QED
  BY <1>3, <1>4, <1>5, <1>6

\* It resumes the next job.
LEMMA ResumeKeeps ==
  ASSUME JobsIInv, NEW o \in Operation, NEW j \in Job, Resume(o, j)
  PROVE  JobsIInv'
<1> USE NoneIsNoTime DEF JobsIInv
<1>0. j \in op[o].todo /\ op[o].stage = "resume" /\ op[o].at = None
  BY DEF Resume
<1>1. /\ left' \in [Job -> Due]
      /\ \A k \in Job : (left'[k] # None /\ k = j) \/ left'[k] = left[k]
  BY JobsAssumption DEF Resume, TypeOK, Due, Time
<1>2. left'[j] # None
  BY JobsAssumption DEF Resume, TypeOK
<1>3. CASE remembered[o][j] = None
  <2>1. /\ op' \in [Operation -> Op]
        /\ \A p \in Operation \ {o} : op'[p] = op[p]
        /\ op'[o].at = None
        /\ op[o].todo = {j} => op'[o].stage = "idle" /\ op'[o].todo = {}
        /\ op[o].todo # {j} => op'[o].stage = "resume" /\ op'[o].todo = op[o].todo \ {j}
    BY <1>0, <1>3, DoneWith DEF Resume, TypeOK
  <2>2. overlapped
    <3> SUFFICES ASSUME ~overlapped
                 PROVE  FALSE
      BY DEF TypeOK
    <3>1. AloneWith(o, j) /\ Holds(o, j)
      BY <1>0 DEF OneAtATime, Holds
    <3> QED
      BY <3>1, <1>3 DEF AloneWith, Kept
  <2>3. TypeOK' /\ cadence' \in [Job -> Nat]
    BY <1>1, <2>1 DEF Resume, TypeOK
  <2>4. (\A p \in Operation : OpFits(p))'
    BY <1>0, <2>1 DEF OpFits, Resume
  <2>5. PausedIsOwed'
    BY <1>0, <1>1, <1>2, <2>1 DEF PausedIsOwed, Owes
  <2>6. OneAtATime'
    BY <2>2 DEF OneAtATime, Resume
  <2> QED
    BY <2>3, <2>4, <2>5, <2>6
<1>4. CASE remembered[o][j] # None
  <2>1. /\ op' \in [Operation -> Op] /\ \A p \in Operation \ {o} : op'[p] = op[p]
        /\ op'[o].stage = "resume" /\ op'[o].todo = op[o].todo /\ op'[o].at = j
    <3>1. op[o] \in Op
      BY DEF TypeOK
    <3>2. [op[o] EXCEPT !.at = j] \in Op
      BY <3>1 DEF Op
    <3>3. op' = [op EXCEPT ![o].at = j]
      BY <1>4 DEF Resume
    <3>4. op' \in [Operation -> Op] /\ op'[o] = [op[o] EXCEPT !.at = j]
      BY <3>2, <3>3 DEF TypeOK
    <3>5. \A p \in Operation \ {o} : op'[p] = op[p]
      BY <3>3 DEF TypeOK
    <3> QED
      BY <1>0, <3>1, <3>4, <3>5 DEF Op
  <2>3. TypeOK' /\ cadence' \in [Job -> Nat]
    BY <1>1, <2>1 DEF Resume, TypeOK
  <2>4. (\A p \in Operation : OpFits(p))'
    BY <1>0, <1>4, <2>1 DEF OpFits, Resume
  <2>5. PausedIsOwed'
    BY <1>0, <1>1, <1>2, <2>1 DEF PausedIsOwed, Owes
  <2>6. OneAtATime'
    <3> SUFFICES ASSUME ~overlapped
                 PROVE  OneAtATime'
      BY DEF OneAtATime, Resume
    <3>1. \A p \in Operation : op'[p].stage # "idle" => p = o
      BY <1>0, <2>1 DEF OneAtATime
    <3>2. ASSUME NEW k \in Job
          PROVE  AloneWith(o, k)'
      <4>1. AloneWith(o, k)
        BY <1>0 DEF OneAtATime
      <4> QED
        BY <4>1, <1>0, <1>1, <2>1 DEF AloneWith, Holds, Kept, Resume
    <3> QED
      BY <3>1, <3>2, <2>1 DEF OneAtATime
  <2> QED
    BY <2>3, <2>4, <2>5, <2>6
<1> QED
  BY <1>3, <1>4

\* It gives a job its due time back.
LEMMA RestoreKeeps ==
  ASSUME JobsIInv, NEW o \in Operation, NEW j \in Job, Restore(o, j)
  PROVE  JobsIInv'
<1> USE NoneIsNoTime DEF JobsIInv
<1>0. j \in op[o].todo /\ op[o].stage = "resume" /\ op[o].at = j /\ remembered[o][j] \in Nat
  BY DEF Restore, OpFits, TypeOK, Due, Time
<1>1. /\ op' \in [Operation -> Op]
      /\ \A p \in Operation \ {o} : op'[p] = op[p]
      /\ op'[o].at = None
      /\ op[o].todo = {j} => op'[o].stage = "idle" /\ op'[o].todo = {}
      /\ op[o].todo # {j} => op'[o].stage = "resume" /\ op'[o].todo = op[o].todo \ {j}
  BY <1>0, DoneWith DEF Restore, TypeOK
<1>2. Later(remembered[o][j], Grace) \in Nat
  BY <1>0 DEF Later
<1>3. /\ left' \in [Job -> Due]
      /\ \A k \in Job : left'[k] = IF k = j THEN Later(remembered[o][j], Grace) ELSE left[k]
  BY <1>2 DEF Restore, TypeOK, Due, Time
<1>4. TypeOK' /\ cadence' \in [Job -> Nat]
  BY <1>1, <1>3 DEF Restore, TypeOK
<1>5. (\A p \in Operation : OpFits(p))'
  BY <1>0, <1>1 DEF OpFits, Restore
<1>6. PausedIsOwed'
  BY <1>0, <1>1, <1>2, <1>3 DEF PausedIsOwed, Owes
<1>7. OneAtATime'
  <2> SUFFICES ASSUME ~overlapped
               PROVE  OneAtATime'
    BY DEF OneAtATime, Restore
  <2>1. \A p \in Operation : op'[p].stage # "idle" => p = o
    BY <1>0, <1>1 DEF OneAtATime
  <2>2. \A k \in Job : AloneWith(o, k)
    BY <1>0 DEF OneAtATime
  <2>3. Kept(left'[j], j)
    BY <2>2, <1>0, <1>2, <1>3 DEF AloneWith, Kept, Later
  <2>4. \A k \in Job : AloneWith(o, k)' \/ op'[o].stage = "idle"
    BY <2>2, <2>3, <1>0, <1>1, <1>3 DEF AloneWith, Holds, Kept, Restore
  <2>5. op'[o].stage = "idle" => \A k \in Job : Kept(left'[k], k)
    BY <2>2, <2>3, <1>0, <1>1, <1>3 DEF AloneWith
  <2> QED
    BY <2>1, <2>4, <2>5 DEF OneAtATime, Kept, Restore
<1> QED
  BY <1>4, <1>5, <1>6, <1>7

\* The scheduler starts a job that is due.
LEMMA StartKeeps ==
  ASSUME JobsIInv, NEW j \in Job, Start(j)
  PROVE  JobsIInv'
<1> USE NoneIsNoTime DEF JobsIInv
<1>1. PICK n \in 1 .. Interval[j] : /\ left' = [left EXCEPT ![j] = n]
                                    /\ cadence' = [cadence EXCEPT ![j] = n]
  BY DEF Start
<1>2. n \in Nat
  BY JobsAssumption
<1>3. /\ left' \in [Job -> Due] /\ cadence' \in [Job -> Nat] /\ cadence' \in [Job -> Due]
      /\ \A k \in Job : /\ left'[k] = IF k = j THEN n ELSE left[k]
                        /\ cadence'[k] = IF k = j THEN n ELSE cadence[k]
  BY <1>1, <1>2 DEF TypeOK, Due, Time
<1>4. TypeOK'
  BY <1>3 DEF Start, TypeOK
<1>5. (\A p \in Operation : OpFits(p))'
  BY DEF OpFits, Start
<1>6. PausedIsOwed'
  BY <1>2, <1>3 DEF PausedIsOwed, Owes, Start
<1>7. OneAtATime'
  <2> SUFFICES ASSUME ~overlapped'
               PROVE  OneAtATime'
    BY DEF OneAtATime
  <2>1. ~overlapped /\ \A p \in Operation : op[p].at # j
    BY DEF Start, TypeOK
  <2>2. op' = op /\ remembered' = remembered /\ left[j] # None
    BY DEF Start
  <2>3. Kept(left[j], j)'
    BY <1>2, <1>3 DEF Kept
  <2>4. \A k \in Job : Kept(left[k], k) => Kept(left[k], k)'
    BY <2>3, <1>3 DEF Kept
  <2>5. ASSUME NEW p \in Operation, NEW k \in Job, op[p].stage # "idle"
        PROVE  AloneWith(p, k)'
    <3>1. AloneWith(p, k)
      BY <2>1, <2>5 DEF OneAtATime
    <3>2. CASE k = j
      <4>1. ~Holds(p, j) /\ op[p].at # j
        BY <3>1, <3>2, <2>1, <2>2 DEF AloneWith
      <4> QED
        BY <3>2, <4>1, <2>2, <2>3 DEF AloneWith, Holds
    <3>3. CASE k # j
      BY <3>1, <3>3, <2>2, <1>3 DEF AloneWith, Holds, Kept
    <3> QED
      BY <3>2, <3>3
  <2> QED
    BY <2>1, <2>2, <2>4, <2>5 DEF OneAtATime
<1> QED
  BY <1>3, <1>4, <1>5, <1>6, <1>7

\* A time that passes stays a time, and keeps up with another that was as late.
LEMMA TimePasses ==
  /\ \A t \in Due : Passed(t) \in Due /\ (Passed(t) = None <=> t = None)
  /\ \A t \in Nat : Passed(t) \in Nat
  /\ \A t, u \in Nat : Later(t, Grace) = Later(u, Grace)
                          => Later(Passed(t), Grace) = Later(Passed(u), Grace)
BY NoneIsNoTime DEF Passed, Due, Time, Later

\* Time passes.
LEMMA TickKeeps ==
  ASSUME JobsIInv, Tick
  PROVE  JobsIInv'
<1> USE NoneIsNoTime DEF JobsIInv
<1>1. /\ \A k \in Job : left'[k] = Passed(left[k]) /\ cadence'[k] = Passed(cadence[k])
      /\ \A p \in Operation, k \in Job : remembered'[p][k] = Passed(remembered[p][k])
  BY DEF Tick
<1>2. /\ left' \in [Job -> Due] /\ cadence' \in [Job -> Nat] /\ cadence' \in [Job -> Due]
  BY TimePasses DEF Tick, TypeOK
<1>2a. \A p \in Operation, k \in Job : remembered[p][k] \in Due
  BY DEF TypeOK
<1>2b. \A p \in Operation : [k \in Job |-> Passed(remembered[p][k])] \in [Job -> Due]
  BY <1>2a, TimePasses
<1>2c. remembered' \in [Operation -> [Job -> Due]]
  BY <1>2b DEF Tick
<1>3. TypeOK'
  BY <1>2, <1>2c DEF Tick, TypeOK
<1>4. op' = op
  BY DEF Tick
<1>5. \A k \in Job : left'[k] = None <=> left[k] = None
  BY <1>1, TimePasses DEF TypeOK
<1>6. \A p \in Operation, k \in Job : remembered'[p][k] = None <=> remembered[p][k] = None
  BY <1>1, <1>2a, TimePasses
<1>7. (\A p \in Operation : OpFits(p))'
  <2> SUFFICES ASSUME NEW p \in Operation
               PROVE  OpFits(p)'
    OBVIOUS
  <2>1. OpFits(p) /\ (op[p].at # None => op[p].at \in Job)
    BY DEF TypeOK, Op
  <2> QED
    BY <2>1, <1>4, <1>6 DEF OpFits
<1>8. PausedIsOwed'
  BY <1>4, <1>5 DEF PausedIsOwed, Owes
<1>9. OneAtATime'
  <2>1. \A k \in Job, t \in Due : Kept(t, k) => (t \in Nat /\ Kept(Passed(t), k)')
    BY <1>1, TimePasses DEF Kept
  <2>2. \A k \in Job : Kept(left[k], k) => Kept(left[k], k)'
    BY <2>1, <1>1 DEF TypeOK, Kept
  <2>3. \A p \in Operation, k \in Job :
           Kept(remembered[p][k], k) => Kept(remembered[p][k], k)'
    BY <2>1, <1>1 DEF TypeOK, Kept
  <2>4. \A p \in Operation, k \in Job : Holds(p, k)' <=> Holds(p, k)
    BY <1>4 DEF Holds
  <2>5. \A p \in Operation, k \in Job : AloneWith(p, k) => AloneWith(p, k)'
    BY <2>2, <2>3, <2>4, <1>4, <1>5 DEF AloneWith
  <2> QED
    BY <2>2, <2>5, <1>4 DEF OneAtATime, Tick
<1> QED
  BY <1>2, <1>3, <1>7, <1>8, <1>9

\* A job ends, or nothing happens.
LEMMA OthersKeep ==
  ASSUME JobsIInv, UNCHANGED vars \/ \E j \in Job : Finish(j)
  PROVE  JobsIInv'
<1>1. UNCHANGED <<left, op, remembered, requests, cadence, overlapped>> /\ running' \subseteq Job
  BY DEF JobsIInv, TypeOK, vars, Finish
<1> QED
  BY <1>1 DEF JobsIInv, TypeOK, OpFits, PausedIsOwed, Owes, OneAtATime, AloneWith, Holds, Kept

\* Every step keeps the invariant.
LEMMA JobsStep == JobsIInv /\ [Next]_vars => JobsIInv'
BY RequestKeeps, RememberKeeps, PauseKeeps, WorkKeeps, ResumeKeeps, RestoreKeeps,
   StartKeeps, TickKeeps, OthersKeep DEF Next, OpStep

-----------------------------------------------------------------------------

\* The due times, the requests and what each request remembers keep their types: a job
\* never gets a due time that is none of the scheduler's.
THEOREM JobsTypes == Spec => []TypeOK
<1>1. JobsIInv => TypeOK
  BY DEF JobsIInv
<1> QED
  BY <1>1, JobsInit, JobsStep, PTL DEF Spec

\* No overlap of requests ever leaves a job without a due time: the request that paused
\* it last, or one that paused it before, still has it to resume.
THEOREM JobsNoJobStuck == Spec => []NoJobStuck
<1>1. JobsIInv => NoJobStuck
  BY DEF JobsIInv, PausedIsOwed, Owes, NoJobStuck, Active
<1> QED
  BY <1>1, JobsInit, JobsStep, PTL DEF Spec

\* A request that was alone works with every job paused.
THEOREM JobsQuietWhenAlone == Spec => []QuietWhenAlone
<1>1. JobsIInv => QuietWhenAlone
  BY DEF JobsIInv, OneAtATime, AloneWith, Holds, QuietWhenAlone
<1> QED
  BY <1>1, JobsInit, JobsStep, PTL DEF Spec

\* A request that was alone gives every job the due time it would have had without the
\* request, or the grace period: for any intervals, any grace and any duration, and
\* after any number of requests before it.
THEOREM JobsCadenceRestored == Spec => CadenceRestored
<1>1. ASSUME JobsIInv, [Next]_vars, NEW o \in Operation, NEW j \in Job,
             op[o].stage = "resume", op[o].at = j, op'[o].at # j, ~overlapped
      PROVE  left'[j] = Later(cadence[j], Grace)
  <2>1. AloneWith(o, j)
    BY <1>1 DEF JobsIInv, OneAtATime
  <2>2. Later(remembered[o][j], Grace) = Later(cadence[j], Grace)
    BY <1>1, <2>1 DEF AloneWith, Kept
  <2>3. Restore(o, j)
    <3>1. Next /\ op' # op
      BY <1>1 DEF vars
    <3>2. \A p \in Operation : op[p].stage \notin {"idle"} => p = o
      BY <1>1 DEF JobsIInv, OneAtATime
    <3>3. PICK p \in Operation : Request(p) \/ OpStep(p)
      BY <3>1 DEF Next, Start, Finish, Tick
    <3>4. ~Request(p)
      BY <1>1 DEF Request, LoopFree
    <3>5. p = o
      BY <3>2, <3>3, <3>4 DEF OpStep, Remember, Pause, Work, Resume, Restore
    <3> QED
      BY <1>1, <3>3, <3>4, <3>5, NoneIsNoTime DEF OpStep, Remember, Pause, Work, Resume, Restore
  <2> QED
    BY <2>2, <2>3, <1>1 DEF Restore, JobsIInv, TypeOK
<1>2. JobsIInv /\ [Next]_vars =>
        [\A o \in Operation, j \in Job :
            (op[o].stage = "resume" /\ op[o].at = j /\ op'[o].at # j /\ ~overlapped)
               => left'[j] = Later(cadence[j], Grace)]_vars
  BY <1>1
<1> QED
  BY <1>2, JobsInit, JobsStep, PTL DEF Spec, CadenceRestored

-----------------------------------------------------------------------------
(***************************************************************************)
(* The access policy. PolicyHeldAfterQuietRun speaks of the moment after a *)
(* run; the invariant behind it says how far a run that is still quiet has *)
(* brought the devices, stage by stage.                                    *)
(***************************************************************************)

\* What a run that is still quiet has done: it is alone, it goes by the policy of this
\* moment, and each device it has been through has what the policy asks for.
QuietRunAgrees(r) ==
    run[r].quiet =>
        /\ run[r].stage # "idle"
        /\ \A q \in Run \ {r} : run[q].stage = "idle"
        /\ run[r].restricted = RestrictedNow
        /\ run[r].stage # "cisco" => acl = RestrictedNow
        /\ run[r].stage = "check" => RestrictedNow
        /\ run[r].stage \in {"wan", "wifi"} => (rules > 0) = RestrictedNow
        /\ run[r].stage = "wifi" => wan = ~RestrictedNow

\* The invariant: a quiet run has brought the devices it has been through to the policy of
\* this moment, and what one leaves agrees with it.
PolicyIInv ==
    /\ PolicyTypeOK
    /\ \A r \in Run : QuietRunAgrees(r)
    /\ settled => AccessAgrees /\ \A r \in Run : run[r].stage = "idle"

\* A run of the policy.
RunType == [stage : RunStages, restricted : BOOLEAN, quiet : BOOLEAN]

\* The policy restricts, or does not.
LEMMA RestrictedIsBoolean == RestrictedNow \in BOOLEAN
<1>1. \A w, h : Restricted(w, h) \in BOOLEAN
  BY DEF Restricted
<1> QED
  BY <1>1 DEF RestrictedNow

\* Something changes under the runs, none of which is quiet any more.
LEMMA DisturbedRuns ==
    ASSUME PolicyTypeOK, run' = [r \in Run |-> [run[r] EXCEPT !.quiet = FALSE]]
    PROVE  /\ run' \in [Run -> RunType]
           /\ \A r \in Run : ~run'[r].quiet
<1>1. \A r \in Run : run[r] \in RunType
  BY DEF PolicyTypeOK, RunType
<1>2. \A r \in Run : LET w == [run[r] EXCEPT !.quiet = FALSE] IN w \in RunType /\ ~w.quiet
  BY <1>1 DEF RunType
<1> QED
  BY <1>2

\* A step after which no run is quiet keeps the invariant.
LEMMA DisturbedStep ==
    ASSUME PolicyIInv, run' \in [Run -> RunType], \A r \in Run : ~run'[r].quiet,
           settled' = FALSE, PolicyTypeOK'
    PROVE  PolicyIInv'
  BY DEF PolicyIInv, QuietRunAgrees

\* A step of a run that raised.
LEMMA SkipsRuns ==
    ASSUME PolicyIInv, NEW r \in Run, run[r].stage # "idle",
           NEW stage \in RunStages, Skips(r, stage)
    PROVE  /\ run' \in [Run -> RunType] /\ ~run'[r].quiet
           /\ \A q \in Run \ {r} : run'[q] = run[q] /\ ~run'[q].quiet
           /\ policyFaults' \in 0..MaxPolicyFaults
           /\ settled' = settled /\ ~settled
<1>1. run \in [Run -> RunType] /\ policyFaults \in 0..MaxPolicyFaults
  BY DEF PolicyIInv, PolicyTypeOK, RunType
<1>2. policyFaults' \in 0..MaxPolicyFaults /\ settled' = settled
  BY <1>1, PolicyAssumption DEF Skips
<1>3. PICK w \in RunType : ~w.quiet /\ run' = [run EXCEPT ![r] = w]
  <2>1. NoRun \in RunType /\ ~NoRun.quiet
    BY DEF NoRun, RunType, RunStages
  <2> DEFINE w == [run[r] EXCEPT !.stage = stage, !.quiet = FALSE]
  <2>2. w \in RunType /\ ~w.quiet
    BY <1>1 DEF RunType
  <2>3. run' = [run EXCEPT ![r] = IF stage = "idle" THEN NoRun ELSE w]
    BY DEF Skips
  <2> HIDE DEF w
  <2> QED
    BY <2>1, <2>2, <2>3
<1>4. \A q \in Run \ {r} : ~run[q].quiet
  BY DEF PolicyIInv, QuietRunAgrees
<1>5. ~settled
  BY DEF PolicyIInv
<1> QED
  BY <1>1, <1>2, <1>3, <1>4, <1>5

\* A step of a run that goes on.
LEMMA GotoRuns ==
    ASSUME PolicyIInv, NEW r \in Run, run[r].stage # "idle",
           NEW stage \in RunStages, PolicyGoto(r, stage)
    PROVE  /\ run' \in [Run -> RunType]
           /\ run'[r].stage = stage /\ run'[r].quiet = run[r].quiet
           /\ run'[r].restricted = run[r].restricted
           /\ \A q \in Run \ {r} : run'[q] = run[q] /\ ~run'[q].quiet
           /\ settled' = settled /\ ~settled
<1>1. run \in [Run -> RunType]
  BY DEF PolicyIInv, PolicyTypeOK, RunType
<1> DEFINE w == [run[r] EXCEPT !.stage = stage]
<1>2. /\ w \in RunType /\ w.stage = stage /\ w.quiet = run[r].quiet
      /\ w.restricted = run[r].restricted
  BY <1>1 DEF RunType
<1>3. run' = [run EXCEPT ![r] = w] /\ settled' = settled
  BY <1>1 DEF PolicyGoto
<1> HIDE DEF w
<1>4. \A q \in Run \ {r} : ~run[q].quiet
  BY DEF PolicyIInv, QuietRunAgrees
<1>5. ~settled
  BY DEF PolicyIInv
<1> QED
  BY <1>1, <1>2, <1>3, <1>4, <1>5

-----------------------------------------------------------------------------

\* A run goes on to a stage for which its devices agree.
LEMMA GoesOnStep ==
    ASSUME PolicyIInv, NEW r \in Run, run[r].stage # "idle",
           NEW stage \in RunStages \ {"idle", "cisco"}, PolicyGoto(r, stage),
           UNCHANGED <<hour, policyFile, setting, broadcast, changes, policyFaults>>,
           acl' \in BOOLEAN, wan' \in BOOLEAN, rules' \in Nat,
           run[r].quiet =>
              /\ acl' = RestrictedNow
              /\ stage = "check" => RestrictedNow
              /\ stage \in {"wan", "wifi"} => (rules' > 0) = RestrictedNow
              /\ stage = "wifi" => wan' = ~RestrictedNow
    PROVE  PolicyIInv'
<1>1. /\ run' \in [Run -> RunType]
      /\ run'[r].stage = stage /\ run'[r].quiet = run[r].quiet
      /\ run'[r].restricted = run[r].restricted
      /\ \A q \in Run \ {r} : run'[q] = run[q] /\ ~run'[q].quiet
      /\ settled' = settled /\ ~settled
  BY GotoRuns
<1>2. PolicyTypeOK'
  BY <1>1 DEF PolicyIInv, PolicyTypeOK, RunType
<1>3. RestrictedNow' = RestrictedNow
  BY DEF RestrictedNow, Loaded
<1>4. QuietRunAgrees(r)'
  <2> SUFFICES ASSUME run'[r].quiet PROVE QuietRunAgrees(r)'
    BY DEF QuietRunAgrees
  <2>1. run[r].quiet /\ QuietRunAgrees(r)
    BY <1>1 DEF PolicyIInv
  <2> QED
    BY <1>1, <1>3, <2>1 DEF QuietRunAgrees
<1>5. \A q \in Run \ {r} : QuietRunAgrees(q)'
  BY <1>1 DEF QuietRunAgrees
<1> QED
  BY <1>1, <1>2, <1>4, <1>5 DEF PolicyIInv

\* A run goes on after a device that raised: it is not quiet any more.
LEMMA SkipsStep ==
    ASSUME PolicyIInv, NEW r \in Run, run[r].stage # "idle",
           NEW stage \in RunStages, Skips(r, stage),
           UNCHANGED <<hour, policyFile, setting, changes>>,
           acl' \in BOOLEAN, wan' \in BOOLEAN, rules' \in Nat, broadcast' \subseteq Ssid
    PROVE  PolicyIInv'
<1>1. /\ run' \in [Run -> RunType] /\ ~run'[r].quiet
      /\ \A q \in Run \ {r} : run'[q] = run[q] /\ ~run'[q].quiet
      /\ policyFaults' \in 0..MaxPolicyFaults
      /\ settled' = settled /\ ~settled
  BY SkipsRuns
<1>2. PolicyTypeOK'
  BY <1>1 DEF PolicyIInv, PolicyTypeOK, RunType
<1>3. \A q \in Run : QuietRunAgrees(q)'
  BY <1>1 DEF QuietRunAgrees
<1> QED
  BY <1>1, <1>2, <1>3 DEF PolicyIInv

\* Every step of a run keeps the invariant.
LEMMA PolicyRunStep ==
    ASSUME PolicyIInv, NEW r \in Run, RunStep(r)
    PROVE  PolicyIInv'
<1>1. /\ run[r].restricted \in BOOLEAN /\ acl \in BOOLEAN /\ wan \in BOOLEAN
      /\ rules \in Nat /\ broadcast \subseteq Ssid /\ RestrictedNow \in BOOLEAN
      /\ QuietRunAgrees(r)
  BY RestrictedIsBoolean DEF PolicyIInv, PolicyTypeOK
<1>2. {"check", "rule", "wan", "wifi", "idle"} \subseteq RunStages
  BY DEF RunStages
<1>3. CASE EnforceCisco(r)
  <2> DEFINE stage == IF run[r].restricted THEN "check" ELSE "rule"
  <2>1. /\ run[r].stage = "cisco" /\ stage \in {"check", "rule"}
        /\ UNCHANGED <<hour, policyFile, setting, rules, wan, broadcast, changes>>
    BY <1>3 DEF EnforceCisco
  <2>2. CASE acl' = run[r].restricted /\ UNCHANGED policyFaults /\ PolicyGoto(r, stage)
    <3>1. run[r].quiet => acl' = RestrictedNow /\ (stage = "check" => RestrictedNow)
      BY <1>1, <2>1, <2>2 DEF QuietRunAgrees
    <3>2. acl' \in BOOLEAN
      BY <1>1, <2>2, Zenon
    <3> HIDE DEF stage
    <3> QED
      BY <1>1, <1>2, <2>1, <2>2, <3>1, <3>2, GoesOnStep
  <2>3. CASE acl' \in {acl, FALSE, run[r].restricted} /\ Skips(r, stage)
    <3>1. acl' \in BOOLEAN
      BY <1>1, <2>3, Zenon
    <3> HIDE DEF stage
    <3> QED
      BY <1>1, <1>2, <2>1, <2>3, <3>1, SkipsStep
  <2> QED
    BY <1>3, <2>2, <2>3, Zenon DEF EnforceCisco
<1>4. CASE CheckRule(r)
  <2>1. /\ run[r].stage = "check"
        /\ UNCHANGED <<hour, policyFile, setting, acl, rules, wan, broadcast, changes>>
    BY <1>4 DEF CheckRule, deviceVars
  <2>2. CASE UNCHANGED policyFaults /\ PolicyGoto(r, IF rules > 0 THEN "wan" ELSE "rule")
    <3> DEFINE stage == IF rules > 0 THEN "wan" ELSE "rule"
    <3>1. run[r].quiet => /\ acl' = RestrictedNow /\ RestrictedNow
                          /\ stage = "wan" => rules' > 0
      BY <1>1, <2>1 DEF QuietRunAgrees
    <3>2. stage \in {"wan", "rule"} /\ PolicyGoto(r, stage)
      BY <2>2
    <3> HIDE DEF stage
    <3>3. run[r].quiet => (stage \in {"wan", "wifi"} => (rules' > 0) = RestrictedNow)
      BY <1>1, <3>1, <3>2
    <3> QED
      BY <1>1, <1>2, <2>1, <2>2, <3>1, <3>2, <3>3, GoesOnStep
  <2>3. CASE Skips(r, "rule") \/ Skips(r, "wifi")
    BY <1>1, <1>2, <2>1, <2>3, SkipsStep
  <2> QED
    BY <1>4, <2>2, <2>3 DEF CheckRule
<1>5. CASE ChangeRules(r)
  <2>1. /\ run[r].stage = "rule"
        /\ UNCHANGED <<hour, policyFile, setting, acl, wan, broadcast, changes>>
    BY <1>5 DEF ChangeRules
  <2>2. CASE /\ rules' = (IF run[r].restricted THEN rules + 1 ELSE 0)
             /\ UNCHANGED policyFaults /\ PolicyGoto(r, "wan")
    <3>1. rules' \in Nat /\ (rules' > 0 <=> run[r].restricted)
      BY <1>1, <2>2
    <3>2. run[r].quiet => /\ acl' = RestrictedNow
                          /\ (rules' > 0) = RestrictedNow
      BY <1>1, <2>1, <3>1 DEF QuietRunAgrees
    <3> QED
      BY <1>1, <1>2, <2>1, <2>2, <3>1, <3>2, GoesOnStep
  <2>3. CASE /\ rules' \in IF run[r].restricted THEN {rules, rules + 1} ELSE 0..rules
             /\ Skips(r, "wifi")
    BY <1>1, <1>2, <2>1, <2>3, SkipsStep
  <2> QED
    BY <1>5, <2>2, <2>3 DEF ChangeRules
<1>6. CASE SwitchWan(r)
  <2>1. /\ run[r].stage = "wan"
        /\ UNCHANGED <<hour, policyFile, setting, acl, rules, broadcast, changes>>
    BY <1>6 DEF SwitchWan
  <2>2. CASE wan' = ~run[r].restricted /\ UNCHANGED policyFaults /\ PolicyGoto(r, "wifi")
    <3>1. run[r].quiet => /\ acl' = RestrictedNow
                          /\ (rules' > 0) = RestrictedNow
                          /\ wan' = ~RestrictedNow
      BY <1>1, <2>1, <2>2 DEF QuietRunAgrees
    <3> QED
      BY <1>1, <1>2, <2>1, <2>2, <3>1, GoesOnStep
  <2>3. CASE wan' \in {wan, ~run[r].restricted} /\ Skips(r, "wifi")
    <3>1. wan' \in BOOLEAN
      BY <1>1, <2>3
    <3> QED
      BY <1>1, <1>2, <2>1, <2>3, <3>1, SkipsStep
  <2> QED
    BY <1>6, <2>2, <2>3 DEF SwitchWan
<1>7. CASE SwitchSsids(r)
  <2>1. /\ run[r].stage = "wifi"
        /\ UNCHANGED <<hour, policyFile, setting, acl, rules, wan, changes>>
    BY <1>7 DEF SwitchSsids
  <2>2. CASE /\ broadcast' = AsScheduled(r)
             /\ UNCHANGED policyFaults
             /\ run' = [run EXCEPT ![r] = NoRun]
             /\ settled' = run[r].quiet
    <3>1. run \in [Run -> RunType] /\ run[r].quiet \in BOOLEAN
      BY DEF PolicyIInv, PolicyTypeOK, RunType
    <3>2. NoRun \in RunType /\ ~NoRun.quiet /\ NoRun.stage = "idle"
      BY DEF NoRun, RunType, RunStages
    <3>3. /\ run' \in [Run -> RunType] /\ run'[r] = NoRun
          /\ \A q \in Run \ {r} : run'[q] = run[q]
      BY <2>2, <3>1, <3>2
    <3>4. broadcast' \subseteq Ssid
      BY <1>1, <2>2, PolicyAssumption DEF AsScheduled
    <3>5. PolicyTypeOK'
      <4>1. settled' \in BOOLEAN
        BY <2>2, <3>1, Zenon
      <4> QED
        BY <2>1, <2>2, <3>3, <3>4, <4>1 DEF PolicyIInv, PolicyTypeOK, RunType
    <3>6. \A q \in Run : ~run'[q].quiet
      <4>1. \A q \in Run \ {r} : ~run[q].quiet
        BY <2>1 DEF PolicyIInv, QuietRunAgrees
      <4> QED
        BY <3>2, <3>3, <4>1
    <3>7. run[r].quiet => AccessAgrees' /\ \A q \in Run : run'[q].stage = "idle"
      <4> SUFFICES ASSUME run[r].quiet
                   PROVE  AccessAgrees' /\ \A q \in Run : run'[q].stage = "idle"
        OBVIOUS
      <4>1. RestrictedNow' = RestrictedNow
        BY <2>1 DEF RestrictedNow, Loaded
      <4>2. /\ acl' = RestrictedNow /\ (rules' > 0) = RestrictedNow /\ wan' = ~RestrictedNow
            /\ run[r].restricted = RestrictedNow
            /\ \A q \in Run \ {r} : run[q].stage = "idle"
        BY <1>1, <2>1 DEF QuietRunAgrees
      <4>3. broadcast' \ ProtectedSsid = IF RestrictedNow THEN {} ELSE Ssid \ ProtectedSsid
        BY <1>1, <2>2, <4>2 DEF AsScheduled
      <4> QED
        BY <3>2, <3>3, <4>1, <4>2, <4>3 DEF AccessAgrees
    <3>8. settled' => run[r].quiet
      BY <2>2
    <3> QED
      BY <3>5, <3>6, <3>7, <3>8 DEF PolicyIInv, QuietRunAgrees
  <2>3. CASE /\ \E some \in SUBSET Ssid :
                    broadcast' = {s \in Ssid : IF s \in some THEN s \in AsScheduled(r)
                                               ELSE s \in broadcast}
             /\ Skips(r, "idle")
    <3>1. broadcast' \subseteq Ssid
      BY <2>3
    <3> QED
      BY <1>1, <1>2, <2>1, <2>3, <3>1, SkipsStep
  <2> QED
    BY <1>7, <2>2, <2>3 DEF SwitchSsids
<1> QED
  BY <1>3, <1>4, <1>5, <1>6, <1>7 DEF RunStep

\* Every step keeps the invariant.
LEMMA PolicyStep == PolicyIInv /\ [PolicyNext]_policyVars => PolicyIInv'
<1> SUFFICES ASSUME PolicyIInv, [PolicyNext]_policyVars PROVE PolicyIInv'
  OBVIOUS
<1>0. /\ PolicyTypeOK
      /\ run \in [Run -> RunType]
  BY DEF PolicyIInv, PolicyTypeOK, RunType
<1>1. ASSUME Disturb
      PROVE  /\ run' \in [Run -> RunType] /\ \A r \in Run : ~run'[r].quiet
             /\ settled' = FALSE /\ changes' \in 0..MaxChanges
  BY <1>0, <1>1, DisturbedRuns, PolicyAssumption DEF Disturb, PolicyTypeOK
<1>2. CASE HourPasses
  <2>1. hour' \in Hours
    BY <1>0, <1>2, PolicyAssumption DEF HourPasses, PolicyTypeOK, Hours
  <2>2. PolicyTypeOK'
    BY <1>0, <1>1, <1>2, <2>1 DEF HourPasses, PolicyTypeOK, deviceVars, RunType
  <2> QED
    BY <1>1, <1>2, <2>2, DisturbedStep DEF HourPasses
<1>3. ASSUME NEW w \in Window, SetWindow(w)
      PROVE  PolicyIInv'
  <2>1. PolicyTypeOK'
    BY <1>0, <1>1, <1>3 DEF SetWindow, PolicyTypeOK, deviceVars, RunType
  <2> QED
    BY <1>1, <1>3, <2>1, DisturbedStep DEF SetWindow
<1>4. CASE WindowSaved
  <2>1. /\ run' \in [Run -> RunType] /\ \A r \in Run : ~run'[r].quiet
        /\ settled' = FALSE
    BY <1>0, <1>4, DisturbedRuns DEF WindowSaved
  <2>2. PolicyTypeOK'
    BY <1>0, <1>4, <2>1 DEF WindowSaved, PolicyTypeOK, deviceVars, RunType
  <2> QED
    BY <2>1, <2>2, DisturbedStep
<1>5. ASSUME NEW s \in Ssid, ToggleSsid(s)
      PROVE  PolicyIInv'
  <2>1. broadcast' \subseteq Ssid
    BY <1>0, <1>5 DEF ToggleSsid, PolicyTypeOK
  <2>2. PolicyTypeOK'
    BY <1>0, <1>1, <1>5, <2>1 DEF ToggleSsid, PolicyTypeOK, RunType
  <2> QED
    BY <1>1, <1>5, <2>2, DisturbedStep DEF ToggleSsid
<1>6. CASE PolicyRestart
  <2>1. NoRun \in RunType /\ ~NoRun.quiet
    BY DEF NoRun, RunType, RunStages
  <2>2. run' \in [Run -> RunType] /\ \A r \in Run : ~run'[r].quiet
    BY <1>6, <2>1 DEF PolicyRestart
  <2>3. PolicyTypeOK'
    <3>1. changes' \in 0..MaxChanges
      BY <1>0, <1>6, PolicyAssumption DEF PolicyRestart, PolicyTypeOK
    <3> QED
      BY <1>0, <1>6, <2>2, <3>1 DEF PolicyRestart, PolicyTypeOK, deviceVars, RunType
  <2> QED
    BY <1>6, <2>2, <2>3, DisturbedStep DEF PolicyRestart
<1>7. ASSUME NEW r \in Run, BeginRun(r)
      PROVE  PolicyIInv'
  <2> DEFINE alone == \A q \in Run : run[q].stage = "idle"
             begun == [stage |-> "cisco", restricted |-> RestrictedNow, quiet |-> alone]
  <2>1. /\ run' = [q \in Run |-> IF q = r THEN begun ELSE [run[q] EXCEPT !.quiet = FALSE]]
        /\ settled' = FALSE
        /\ UNCHANGED <<hour, policyFile, setting, deviceVars, policyFaults>>
        /\ changes' = changes \/ (changes < MaxChanges /\ changes' = changes + 1)
    BY <1>7 DEF BeginRun
  <2>2. /\ begun \in RunType /\ begun.stage = "cisco" /\ begun.restricted = RestrictedNow
        /\ begun.quiet = alone
    BY RestrictedIsBoolean DEF RunType, RunStages
  <2>3. \A q \in Run : LET w == [run[q] EXCEPT !.quiet = FALSE]
                       IN  w \in RunType /\ ~w.quiet /\ w.stage = run[q].stage
    BY <1>0 DEF RunType
  <2> HIDE DEF begun
  <2>4. /\ run' \in [Run -> RunType] /\ run'[r] = begun
        /\ \A q \in Run \ {r} : ~run'[q].quiet /\ run'[q].stage = run[q].stage
    BY <2>1, <2>2, <2>3
  <2>5. RestrictedNow' = RestrictedNow
    BY <2>1 DEF RestrictedNow, Loaded
  <2>6. PolicyTypeOK'
    <3>1. changes' \in 0..MaxChanges
      BY <1>0, <2>1, PolicyAssumption DEF PolicyTypeOK
    <3> QED
      BY <1>0, <2>1, <2>4, <3>1 DEF PolicyTypeOK, deviceVars, RunType
  <2>7. QuietRunAgrees(r)'
    BY <2>2, <2>4, <2>5 DEF QuietRunAgrees
  <2> QED
    BY <2>1, <2>4, <2>6, <2>7 DEF PolicyIInv, QuietRunAgrees
<1>8. CASE UNCHANGED policyVars
  <2>1. RestrictedNow' = RestrictedNow
    BY <1>8 DEF RestrictedNow, Loaded, policyVars
  <2>2. PolicyTypeOK' /\ \A r \in Run : QuietRunAgrees(r)'
    BY <1>8, <2>1 DEF policyVars, deviceVars, PolicyIInv, PolicyTypeOK, QuietRunAgrees
  <2>3. settled' => AccessAgrees' /\ \A r \in Run : run'[r].stage = "idle"
    BY <1>8, <2>1 DEF policyVars, deviceVars, PolicyIInv, AccessAgrees
  <2> QED
    BY <2>2, <2>3 DEF PolicyIInv
<1> QED
  BY <1>2, <1>3, <1>4, <1>5, <1>6, <1>7, <1>8, PolicyRunStep DEF PolicyNext

\* At first no run is under way.
LEMMA PolicyInitIInv == PolicyInit => PolicyIInv
<1> SUFFICES ASSUME PolicyInit PROVE PolicyIInv
  OBVIOUS
<1>1. NoRun \in RunType /\ ~NoRun.quiet
  BY DEF NoRun, RunType, RunStages
<1>2. run \in [Run -> RunType] /\ \A r \in Run : ~run[r].quiet
  BY <1>1 DEF PolicyInit
<1>3. 0 \in 0..MaxChanges /\ 0 \in 0..MaxPolicyFaults /\ 0 \in Nat
  BY PolicyAssumption
<1>4. PolicyTypeOK
  BY <1>2, <1>3 DEF PolicyInit, PolicyTypeOK, RunType
<1> QED
  BY <1>2, <1>4 DEF PolicyInit, PolicyIInv, QuietRunAgrees

\* The invariant holds in every state.
LEMMA PolicyInvariant == PolicySpec => []PolicyIInv
  BY PolicyInitIInv, PolicyStep, PTL DEF PolicySpec

\* The window, the devices and the runs keep their types.
THEOREM PolicyTypes == PolicySpec => []PolicyTypeOK
<1>1. PolicyIInv => PolicyTypeOK
  BY DEF PolicyIInv
<1> QED
  BY <1>1, PolicyInvariant, PTL

\* For any windows, SSIDs and runs: after a run that was alone and met no failure, and until
\* the next change, every device does what the policy asks for.
THEOREM PolicyIsHeld == PolicySpec => []PolicyHeldAfterQuietRun
<1>1. PolicyIInv => PolicyHeldAfterQuietRun
  BY DEF PolicyIInv, PolicyHeldAfterQuietRun
<1> QED
  BY <1>1, PolicyInvariant, PTL

-----------------------------------------------------------------------------
(***************************************************************************)
(* The accounts, for any names and any threads that save them.             *)
(*                                                                         *)
(* What a restart loads depends on the file alone, so the invariant adds   *)
(* to RestartKeepsAccounts that a name without a role has no password      *)
(* either, in the process and in the file, and that both have an admin as  *)
(* long as no create has put its role over that of another: the file may   *)
(* be empty, for what a process then makes has an admin too.               *)
(***************************************************************************)

\* A name without an account has no password.
NamesFit(accounts) ==
    \A n \in Account : accounts[n].role = "none" => accounts[n] = NoAccount

\* Somebody may manage the accounts.
HasAdmin(accounts) == \E n \in Account : accounts[n].role = "admin"

\* What a restart would find is what the process has, and has an admin as well.
AccountsIInv ==
    /\ AccountsTypeOK
    /\ NamesFit(users) /\ NamesFit(store.users)
    /\ RestartKeepsAccounts
    /\ ~replaced =>
          /\ HasAdmin(users)
          /\ \/ HasAdmin(store.users)
             \/ \A n \in Account : store.users[n].role = "none"

\* What a process makes on a fresh system.
LEMMA SeededFit ==
  /\ SeededUsers \in [Account -> AccountType]
  /\ NamesFit(SeededUsers) /\ HasAdmin(SeededUsers)
  /\ \A n \in Account \ Seeded : SeededUsers[n] = NoAccount
<1>1. 0 \in Stamp /\ Boss \in Account
  BY AccountsAssumption DEF Stamp
<1>2. \A n \in Account :
        SeededUsers[n] = [role |-> IF n = Boss THEN "admin"
                                   ELSE IF n \in Seeded THEN "viewer" ELSE "none",
                          secret |-> 0, born |-> 0]
  BY DEF SeededUsers, NoAccount
<1>3. SeededUsers \in [Account -> AccountType]
  BY <1>1, <1>2 DEF SeededUsers, AccountType, NoAccount
<1> QED
  BY <1>1, <1>2, <1>3, AccountsAssumption DEF NamesFit, HasAdmin, NoAccount

\* What a process loads fits together, whatever the file has.
LEMMA LoadedFit ==
  ASSUME AccountsIInv
  PROVE  /\ LoadUsers \in [Account -> AccountType]
         /\ NamesFit(LoadUsers)
         /\ ~replaced => HasAdmin(LoadUsers)
<1>1. \A n \in Account : LoadUsers[n] = IF store.whole /\ store.users[n].role # "none"
                                       THEN store.users[n] ELSE SeededUsers[n]
  BY DEF LoadUsers
<1>2. LoadUsers \in [Account -> AccountType]
  BY SeededFit DEF LoadUsers, AccountsIInv, AccountsTypeOK
<1>3. NamesFit(LoadUsers)
  BY <1>1, SeededFit DEF NamesFit
<1>4. ASSUME ~replaced
      PROVE  HasAdmin(LoadUsers)
  <2>1. CASE store.whole /\ HasAdmin(store.users)
    BY <1>1, <2>1 DEF HasAdmin
  <2>2. CASE ~(store.whole /\ HasAdmin(store.users))
    <3>1. \A n \in Account : LoadUsers[n] = SeededUsers[n]
      BY <1>1, <1>4, <2>2 DEF AccountsIInv
    <3> QED
      BY <3>1, SeededFit DEF HasAdmin
  <2> QED
    BY <2>1, <2>2
<1> QED
  BY <1>2, <1>3, <1>4

\* A fresh system has the seeded accounts.
LEMMA AccountsInitIInv == AccountsInit => AccountsIInv
<1> SUFFICES ASSUME AccountsInit PROVE AccountsIInv
  OBVIOUS
<1>1. 0 \in Stamp /\ Boss \in Account /\ 0 \in 0..MaxCrashes /\ 0 \in 0..MaxSaveFailures
  BY AccountsAssumption DEF Stamp
<1>2. NoAccount \in AccountType
  BY <1>1 DEF NoAccount, AccountType
<1>3. store.users = [n \in Account |-> NoAccount] /\ store.whole = TRUE
  BY DEF AccountsInit
<1>4. AccountsTypeOK
  BY <1>1, <1>2, SeededFit DEF AccountsInit, AccountsTypeOK, Free, AccountCall
<1>5. NamesFit(store.users) /\ \A n \in Account : store.users[n].role = "none"
  BY <1>3 DEF NamesFit, NoAccount
<1>6. RestartKeepsAccounts
  <2>1. \A n \in Account : LoadUsers[n] = users[n]
    BY <1>5 DEF LoadUsers, AccountsInit
  <2> QED
    BY <2>1 DEF RestartKeepsAccounts, AccountsKept
<1> QED
  BY <1>4, <1>5, <1>6, SeededFit DEF AccountsInit, AccountsIInv

\* Every step of the accounts keeps the invariant.
LEMMA AccountsStep == AccountsIInv /\ [AccountsNext]_accountVars => AccountsIInv'
<1> SUFFICES ASSUME AccountsIInv, [AccountsNext]_accountVars PROVE AccountsIInv'
  OBVIOUS
<1>0. /\ AccountsTypeOK /\ NamesFit(users) /\ NamesFit(store.users)
      /\ ~replaced => HasAdmin(users)
  BY DEF AccountsIInv
\* A step that leaves a thread at work, and the file as it was.
<1>1. ASSUME NEW h \in Handler, NEW c, handler' = [handler EXCEPT ![h] = c],
             c \in AccountCall, c.at # "free",
             UNCHANGED <<store, tangled, unsaved, saveFailures, crashes>>, accountCalls' \in Stamp,
             replaced' \in BOOLEAN, users' \in [Account -> AccountType],
             NamesFit(users'), ~replaced' => ~replaced /\ HasAdmin(users')
      PROVE  AccountsIInv'
  <2>1. handler'[h] = c
    BY <1>0, <1>1 DEF AccountsTypeOK
  <2>2. RestartKeepsAccounts'
    BY <1>1, <2>1 DEF RestartKeepsAccounts, BetweenCalls
  <2>3. AccountsTypeOK'
    BY <1>0, <1>1 DEF AccountsTypeOK
  <2> QED
    BY <1>1, <2>2, <2>3 DEF AccountsIInv, HasAdmin, NamesFit
<1>2. ASSUME NEW h \in Handler, CallBegins(h)
      PROVE  accountCalls' \in Stamp /\ accountCalls + 1 \in Stamp /\ 0 \in Stamp
  BY <1>0, <1>2, AccountsAssumption DEF CallBegins, AccountsTypeOK, Stamp
<1>3. ASSUME NEW h \in Handler, NEW n \in Account, NEW role \in {"admin", "viewer"},
             CreateUser(h, n, role)
      PROVE  AccountsIInv'
  <2> DEFINE c == [Free EXCEPT !.at = "hash", !.name = n, !.role = role,
                               !.stamp = accountCalls + 1]
  <2>1. accountCalls' \in Stamp /\ accountCalls + 1 \in Stamp /\ 0 \in Stamp
    BY <1>2, <1>3 DEF CreateUser
  <2>2. /\ c \in AccountCall
        /\ c.at # "free"
    BY <2>1 DEF Free, AccountCall
  <2>3. handler' = [handler EXCEPT ![h] = c] /\ UNCHANGED <<users, store, tangled, unsaved, replaced, saveFailures, crashes>>
    BY <1>3 DEF CreateUser
  <2> HIDE DEF c
  <2> QED
    BY <1>0, <1>1, <2>1, <2>2, <2>3 DEF AccountsTypeOK
<1>4. ASSUME NEW h \in Handler, NEW n \in Account, SetPassword(h, n)
      PROVE  AccountsIInv'
  <2> DEFINE c == [Free EXCEPT !.at = "hash", !.kind = "password", !.name = n,
                               !.stamp = accountCalls + 1, !.born = users[n].born]
  <2>1. accountCalls' \in Stamp /\ accountCalls + 1 \in Stamp /\ users[n].born \in Stamp
    BY <1>0, <1>2, <1>4 DEF SetPassword, AccountsTypeOK, AccountType
  <2>2. /\ c \in AccountCall
        /\ c.at # "free"
    BY <2>1 DEF Free, AccountCall
  <2>3. handler' = [handler EXCEPT ![h] = c] /\ UNCHANGED <<users, store, tangled, unsaved, replaced, saveFailures, crashes>>
    BY <1>4 DEF SetPassword
  <2> HIDE DEF c
  <2> QED
    BY <1>0, <1>1, <2>1, <2>2, <2>3 DEF AccountsTypeOK
<1>5. ASSUME NEW n \in Account, DeleteUser(n)
      PROVE  AccountsIInv'
  <2> DEFINE c == [Free EXCEPT !.at = "open", !.name = n]
  <2>1. EventLoop \in Handler
    BY DEF Handler
  <2>2. accountCalls' \in Stamp /\ 0 \in Stamp
    BY <1>2, <1>5, <2>1 DEF DeleteUser
  <2>3. /\ c \in AccountCall
        /\ c.at # "free"
    BY <2>2 DEF Free, AccountCall
  <2>4. /\ handler' = [handler EXCEPT ![EventLoop] = c]
        /\ UNCHANGED <<store, tangled, unsaved, replaced, saveFailures, crashes>>
        /\ \A m \in Account : users'[m] = IF m = n THEN NoAccount ELSE users[m]
        /\ users' = [users EXCEPT ![n] = NoAccount]
    BY <1>0, <1>5 DEF DeleteUser, AccountsTypeOK
  <2>5. users' \in [Account -> AccountType]
    BY <1>0, <2>2, <2>4 DEF AccountsTypeOK, NoAccount, AccountType
  <2>6. NamesFit(users')
    BY <1>0, <2>4 DEF NamesFit
  <2>7. ~replaced' => ~replaced /\ HasAdmin(users')
    <3> SUFFICES ASSUME ~replaced PROVE HasAdmin(users')
      BY <2>4
    <3>1. PICK m \in Account : users[m].role = "admin" /\ m # n
      BY <1>0, <1>5 DEF DeleteUser, HasAdmin, Admins
    <3> QED
      BY <2>4, <3>1 DEF HasAdmin
  <2> HIDE DEF c
  <2> QED
    BY <1>0, <1>1, <2>1, <2>2, <2>3, <2>4, <2>5, <2>6, <2>7 DEF AccountsTypeOK
<1>6. ASSUME NEW h \in Handler, Hashed(h)
      PROVE  AccountsIInv'
  <2> DEFINE c == handler[h]
             new == [role |-> c.role, secret |-> c.stamp, born |-> c.stamp]
             done == [handler[h] EXCEPT !.at = "open"]
  <2>1. /\ c \in AccountCall
        /\ done \in AccountCall
        /\ done.at = "open"
    BY <1>0 DEF AccountsTypeOK, AccountCall
  <2>2. handler' = [handler EXCEPT ![h] = done] /\ UNCHANGED <<store, tangled, unsaved, accountCalls, saveFailures, crashes>>
    BY <1>0, <1>6 DEF Hashed, AccountsTypeOK
  <2>3. new \in AccountType /\ new.role # "none"
    BY <2>1 DEF AccountType, AccountCall
  <2>4. replaced' = (replaced \/ (c.kind = "create" /\ Exists(c.name)))
    BY <1>6 DEF Hashed
  <2>5. CASE c.kind = "create"
    <3>1. users' = [users EXCEPT ![c.name] = new]
      BY <1>6, <2>5 DEF Hashed
    <3>2. \A m \in Account : users'[m] = IF m = c.name THEN new ELSE users[m]
      BY <1>0, <3>1 DEF AccountsTypeOK
    <3>3. users' \in [Account -> AccountType]
      BY <1>0, <2>3, <3>1 DEF AccountsTypeOK
    <3>4. NamesFit(users')
      BY <1>0, <2>3, <3>2 DEF NamesFit
    <3>5. ~replaced' => ~replaced /\ HasAdmin(users')
      <4> SUFFICES ASSUME ~replaced' PROVE HasAdmin(users')
        BY <2>4
      <4>1. PICK m \in Account : users[m].role = "admin"
        BY <1>0, <2>4 DEF HasAdmin
      <4>2. m # c.name
        BY <2>4, <2>5, <4>1 DEF Exists
      <4> QED
        BY <3>2, <4>1, <4>2 DEF HasAdmin
    <3> HIDE DEF new, done
    <3> QED
      BY <1>0, <1>1, <2>1, <2>2, <2>4, <3>3, <3>4, <3>5 DEF AccountsTypeOK
  <2>6. CASE c.kind # "create"
    <3>1. /\ users' \in [Account -> AccountType]
          /\ \A m \in Account : /\ users'[m].role = users[m].role
                                /\ users[m].role = "none" => users'[m] = users[m]
      <4>1. CASE Exists(c.name) /\ users[c.name].born = c.born
        <5>1. users' = [users EXCEPT ![c.name].secret = c.stamp]
          BY <1>6, <2>6, <4>1 DEF Hashed
        <5>2. \A m \in Account : users[m] \in AccountType
          BY <1>0 DEF AccountsTypeOK
        <5> QED
          BY <1>0, <2>1, <4>1, <5>1, <5>2 DEF AccountsTypeOK, AccountType, AccountCall, Exists
      <4>2. CASE ~(Exists(c.name) /\ users[c.name].born = c.born)
        <5>1. users' = users
          BY <1>6, <2>6, <4>2 DEF Hashed
        <5> QED
          BY <1>0, <5>1 DEF AccountsTypeOK
      <4> QED
        BY <4>1, <4>2
    <3>2. NamesFit(users') /\ (HasAdmin(users) => HasAdmin(users'))
      BY <1>0, <3>1 DEF NamesFit, HasAdmin
    <3>3. replaced' = replaced
      BY <1>0, <2>4, <2>6 DEF AccountsTypeOK
    <3> HIDE DEF new, done
    <3> QED
      BY <1>0, <1>1, <2>1, <2>2, <3>1, <3>2, <3>3 DEF AccountsTypeOK
  <2> QED
    BY <2>5, <2>6
<1>7. ASSUME NEW h \in Handler, OpenStore(h)
      PROVE  AccountsIInv'
  <2>1. store' = [store EXCEPT !.whole = FALSE] /\ UNCHANGED <<users, tangled, unsaved, replaced, accountCalls, saveFailures, crashes>>
    BY <1>7 DEF OpenStore
  <2> DEFINE opens(shared) == [handler[h] EXCEPT !.at = "dump", !.shared = shared]
             shares(g) == [handler[g] EXCEPT !.shared = TRUE]
             others == {g \in Handler : Saving(g)}
  <2>1a. h \notin others
    BY <1>7 DEF OpenStore, Saving
  <2>1b. handler' = [g \in Handler |->
              CASE g = h -> [handler[g] EXCEPT !.at = "dump", !.shared = others # {}]
                [] g \in others -> [handler[g] EXCEPT !.shared = TRUE]
                [] OTHER -> handler[g]]
    BY <1>7, ZenonT(30) DEF OpenStore
  <2>1c. /\ handler' = [g \in Handler |-> handler'[g]]
         /\ handler'[h] = opens(others # {})
         /\ \A g \in Handler \ {h} : handler'[g] = IF g \in others THEN shares(g) ELSE handler[g]
    <3> HIDE DEF others
    <3> QED BY <2>1a, <2>1b
  <2>2. \A g \in Handler :
          handler[g] \in AccountCall
    BY <1>0 DEF AccountsTypeOK
  <2>3. handler' \in [Handler -> AccountCall]
    <3>1. /\ opens(others # {}) \in AccountCall
          /\ \A g \in Handler : shares(g) \in AccountCall
      BY <2>2 DEF AccountCall
    <3> HIDE DEF opens, shares, others
    <3> QED
      BY <2>1a, <2>1c, <2>2, <3>1
  <2>4. handler'[h].at = "dump"
    <3>1. handler[h] \in AccountCall => opens(others # {}).at = "dump"
      BY DEF AccountCall
    <3> HIDE DEF opens, shares, others
    <3> QED
      BY <2>1c, <2>2, <3>1
  <2>5. store'.users = store.users /\ AccountsTypeOK'
    BY <1>0, <2>1, <2>3 DEF AccountsTypeOK
  <2>6. RestartKeepsAccounts'
    BY <2>4 DEF RestartKeepsAccounts, BetweenCalls
  <2> QED
    BY <2>1, <2>5, <2>6 DEF AccountsIInv, NamesFit, HasAdmin
<1>8. ASSUME NEW h \in Handler, DumpStore(h)
      PROVE  AccountsIInv'
  <2> DEFINE alone == /\ ~handler[h].shared
                      /\ \A g \in Handler \ {h} : handler[g].at = "free"
  <2>1. /\ \/ store' = [users |-> users, whole |-> TRUE]
           \/ ~alone /\ \E whole \in {FALSE, store.whole} : store' = [store EXCEPT !.whole = whole]
        /\ tangled' = ~alone
        /\ unsaved' = (unsaved /\ ~alone)
        /\ handler' = [handler EXCEPT ![h] = Free]
        /\ UNCHANGED <<users, replaced, accountCalls, saveFailures, crashes>>
    BY <1>8 DEF DumpStore
  <2>2. /\ store' \in [users : [Account -> AccountType], whole : BOOLEAN]
        /\ store'.users = users \/ store'.users = store.users
    <3>1. CASE store' = [users |-> users, whole |-> TRUE]
      BY <1>0, <3>1 DEF AccountsTypeOK
    <3>2. ASSUME NEW whole \in BOOLEAN, store' = [store EXCEPT !.whole = whole]
          PROVE  /\ store' \in [users : [Account -> AccountType], whole : BOOLEAN]
                 /\ store'.users = store.users
      BY <1>0, <3>2 DEF AccountsTypeOK
    <3>3. store.whole \in BOOLEAN
      BY <1>0 DEF AccountsTypeOK
    <3> QED
      BY <2>1, <3>1, <3>2, <3>3
  <2>3. Free \in AccountCall
    BY AccountsAssumption DEF Free, Stamp, AccountCall
  <2>4. AccountsTypeOK'
    BY <1>0, <2>1, <2>2, <2>3 DEF AccountsTypeOK
  <2>5. RestartKeepsAccounts'
    <3> SUFFICES ASSUME ~tangled', NEW n \in Account, users[n].role # "none" \/ n \notin Seeded
                 PROVE  LoadUsers'[n] = users[n]
      BY <2>1 DEF RestartKeepsAccounts, AccountsKept, Exists
    <3>1. store' = [users |-> users, whole |-> TRUE]
      BY <2>1
    <3>2. LoadUsers'[n] = IF users[n].role # "none" THEN users[n] ELSE SeededUsers[n]
      BY <3>1 DEF LoadUsers
    <3> QED
      BY <1>0, <3>2, SeededFit DEF NamesFit
  <2> QED
    BY <1>0, <2>1, <2>2, <2>4, <2>5 DEF AccountsIInv, NamesFit, HasAdmin
<1>9. CASE AccountsRestart
  <2>1. /\ users' = LoadUsers /\ UNCHANGED <<store, replaced, accountCalls, saveFailures>>
        /\ unsaved' = FALSE
        /\ handler' = [h \in Handler |-> Free]
    BY <1>9 DEF AccountsRestart
  <2>2. crashes' \in 0..MaxCrashes /\ tangled' \in BOOLEAN
    BY <1>0, <1>9, AccountsAssumption DEF AccountsRestart, AccountsTypeOK
  <2>3. Free \in AccountCall
    BY AccountsAssumption DEF Free, Stamp, AccountCall
  <2>4. AccountsTypeOK'
    BY <1>0, <2>1, <2>2, <2>3, LoadedFit DEF AccountsTypeOK
  <2>5. RestartKeepsAccounts'
    BY <2>1 DEF RestartKeepsAccounts, AccountsKept, LoadUsers
  <2> QED
    BY <2>1, <2>4, <2>5, LoadedFit DEF AccountsIInv, NamesFit, HasAdmin
<1>10. ASSUME NEW h \in Handler, SaveFails(h)
       PROVE  AccountsIInv'
  <2>1. /\ handler[h].at \in {"open", "dump"}
        /\ saveFailures < MaxSaveFailures
        /\ saveFailures' = saveFailures + 1
        /\ store' = store \/ store' = [store EXCEPT !.whole = FALSE]
        /\ handler' = [g \in Handler |->
              IF g = h THEN Free ELSE [handler[g] EXCEPT !.shared = @ \/ Saving(g)]]
        /\ unsaved' = TRUE
        /\ UNCHANGED <<users, tangled, replaced, accountCalls, crashes>>
    BY <1>10 DEF SaveFails
  <2>2. /\ store' \in [users : [Account -> AccountType], whole : BOOLEAN]
        /\ store'.users = store.users
    BY <1>0, <2>1 DEF AccountsTypeOK
  <2>3. Free \in AccountCall
    BY AccountsAssumption DEF Free, Stamp, AccountCall
  <2>4. \A g \in Handler : [handler[g] EXCEPT !.shared = @ \/ Saving(g)] \in AccountCall
    <3>1. \A g \in Handler : handler[g] \in AccountCall
      BY <1>0 DEF AccountsTypeOK
    <3>2. \A g \in Handler : Saving(g) \in BOOLEAN
      BY DEF Saving
    <3> QED
      BY <3>1, <3>2 DEF AccountCall
  <2>5. handler' \in [Handler -> AccountCall]
    BY <2>1, <2>3, <2>4
  <2>6. saveFailures' \in 0..MaxSaveFailures
    BY <1>0, <2>1, AccountsAssumption DEF AccountsTypeOK
  <2>7. AccountsTypeOK'
    BY <1>0, <2>1, <2>2, <2>5, <2>6 DEF AccountsTypeOK
  <2>8. RestartKeepsAccounts'
    BY <2>1 DEF RestartKeepsAccounts
  <2> QED
    BY <2>1, <2>2, <2>7, <2>8 DEF AccountsIInv, NamesFit, HasAdmin
<1>11. CASE UNCHANGED accountVars
  BY <1>11 DEF accountVars, AccountsIInv, AccountsTypeOK, NamesFit, HasAdmin,
     RestartKeepsAccounts, AccountsKept, BetweenCalls, LoadUsers, Exists
<1> QED
  BY <1>3, <1>4, <1>5, <1>6, <1>7, <1>8, <1>9, <1>10, <1>11 DEF AccountsNext

\* The invariant holds in every state.
LEMMA AccountsInvariant == AccountsSpec => []AccountsIInv
  BY AccountsInitIInv, AccountsStep, PTL DEF AccountsSpec

\* The accounts, the file and the calls keep their types.
THEOREM AccountsTypes == AccountsSpec => []AccountsTypeOK
<1>1. AccountsIInv => AccountsTypeOK
  BY DEF AccountsIInv
<1> QED
  BY <1>1, AccountsInvariant, PTL

\* For any number of threads and accounts: between calls, a restart loads the accounts that
\* there are, unless a save overlapped another one, was cut off, or failed, and no good save
\* followed.
THEOREM AccountsSurviveRestart == AccountsSpec => []RestartKeepsAccounts
<1>1. AccountsIInv => RestartKeepsAccounts
  BY DEF AccountsIInv
<1> QED
  BY <1>1, AccountsInvariant, PTL

\* For any number of threads and accounts: there is an admin, now and after a restart, as
\* long as no create takes over an account, and whichever saves fail.
THEOREM AccountsKeepAnAdmin == AccountsSpec => []AdminRemains
<1>1. AccountsIInv => AdminRemains
  <2> SUFFICES ASSUME AccountsIInv, ~replaced
               PROVE  Admins # {} /\ \E n \in Account : LoadUsers[n].role = "admin"
    BY DEF AdminRemains
  <2>1. HasAdmin(users) /\ HasAdmin(LoadUsers)
    BY LoadedFit DEF AccountsIInv
  <2> QED
    BY <2>1 DEF HasAdmin, Admins
<1> QED
  BY <1>1, AccountsInvariant, PTL

=============================================================================
