----------------------------- MODULE DeviceJobs -----------------------------
(***************************************************************************)
(* The scheduled device jobs and the admin operations that pause them:     *)
(* start_scheduler, pause_device_jobs and resume_device_jobs of            *)
(* services/scheduler.py, and the provision and de-provision requests of   *)
(* api/endpoints.py that call them.                                        *)
(*                                                                         *)
(* A request pauses the jobs, does its work in a worker thread, and        *)
(* resumes them in a finally clause.  Pausing and resuming run on the      *)
(* event loop without an await, so those of two requests never interleave; *)
(* the scheduler's own thread may come between any two statements.         *)
(*                                                                         *)
(* A due time is kept as the time left until it, which Tick counts down:   *)
(* what a request remembered counts down too, and stays at 0 when past.    *)
(***************************************************************************)
EXTENDS Integers

CONSTANTS Job,         \* _DEVICE_JOB_IDS that are enabled
          Operation,   \* concurrent admin requests
          Interval,    \* Interval[j]: time between two runs of job j
          Grace,       \* _RESUME_GRACE_SECONDS
          None,        \* no due time: the job is paused
          MaxRequests  \* bound on the requests

ASSUME JobsAssumption ==
    /\ Interval \in [Job -> Nat \ {0}]
    /\ Grace \in Nat
    /\ None \notin Int \cup Job
    /\ MaxRequests \in Nat

VARIABLES left,        \* left[j]: time until next_run_time, or None
          running,     \* jobs with an instance in the executor
          op,          \* op[o]: where request o stands
          remembered,  \* remembered[o]: the token of request o
          requests,    \* requests so far
          cadence,     \* history: time left had no request touched the job
          overlapped   \* history: two requests were under way together, or a job was
                       \*   started between the two statements that pause or resume it

vars == <<left, running, op, remembered, requests, cadence, overlapped>>

Time == Nat

Idle == [stage |-> "idle", todo |-> {}, at |-> None]
Op == [stage : {"idle", "pause", "work", "resume"}, todo : SUBSET Job, at : Job \cup {None}]

Active == {o \in Operation : op[o].stage # "idle"}
LoopFree == \A o \in Operation : op[o].stage \notin {"pause", "resume"}
Later(a, b) == IF a >= b THEN a ELSE b

\* Request o has dealt with job j, and turns to another one or to its next stage.
Done(o, j, next) ==
    op' = [op EXCEPT ![o] =
              IF op[o].todo = {j}
              THEN [stage |-> next, todo |-> IF next = "idle" THEN {} ELSE Job, at |-> None]
              ELSE [op[o] EXCEPT !.todo = @ \ {j}, !.at = None]]

-----------------------------------------------------------------------------

\* start_scheduler: every enabled job is first due an interval from now.
Init ==
    /\ left = [j \in Job |-> Interval[j]]
    /\ running = {}
    /\ op = [o \in Operation |-> Idle]
    /\ remembered = [o \in Operation |-> [j \in Job |-> None]]
    /\ requests = 0
    /\ cadence = left
    /\ overlapped = FALSE

\* A request arrives and pause_device_jobs begins.
Request(o) ==
    /\ op[o].stage = "idle"
    /\ LoopFree
    /\ requests < MaxRequests
    /\ requests' = requests + 1
    /\ op' = [op EXCEPT ![o] = [stage |-> "pause", todo |-> Job, at |-> None]]
    /\ remembered' = [remembered EXCEPT ![o] = [j \in Job |-> None]]
    /\ overlapped' = (overlapped \/ Active # {})
    /\ UNCHANGED <<left, running, cadence>>

\* remembered[job_id] = job.next_run_time, which is None for a job already paused.
Remember(o, j) ==
    /\ op[o].stage = "pause"
    /\ op[o].at = None
    /\ j \in op[o].todo
    /\ remembered' = [remembered EXCEPT ![o][j] = left[j]]
    /\ op' = [op EXCEPT ![o].at = j]
    /\ UNCHANGED <<left, running, requests, cadence, overlapped>>

\* A bug: a job whose instance is running is left alone.
PauseUnlessRunning(o, j) ==
    /\ op[o].stage = "pause"
    /\ op[o].at = j
    /\ left' = IF j \in running THEN left ELSE [left EXCEPT ![j] = None]
    /\ Done(o, j, "work")
    /\ UNCHANGED <<running, remembered, requests, cadence, overlapped>>

\* job.pause()
Pause(o, j) ==
    /\ op[o].stage = "pause"
    /\ op[o].at = j
    /\ left' = [left EXCEPT ![j] = None]
    /\ Done(o, j, "work")
    /\ UNCHANGED <<running, remembered, requests, cadence, overlapped>>

\* The work of the request returns or raises, and the finally clause is entered.
Work(o) ==
    /\ op[o].stage = "work"
    /\ LoopFree
    /\ op' = [op EXCEPT ![o].stage = "resume"]
    /\ UNCHANGED <<left, running, remembered, requests, cadence, overlapped>>

\* A bug: the remembered due time is put back as it is, which is no due time at all
\* when another request had paused the job first.
ResumeRemembered(o, j) ==
    /\ op[o].stage = "resume"
    /\ op[o].at = None
    /\ j \in op[o].todo
    /\ left' = [left EXCEPT ![j] = remembered[o][j]]
    /\ Done(o, j, "idle")
    /\ UNCHANGED <<running, remembered, requests, cadence, overlapped>>

\* job.resume(): due at the next multiple of the interval since the job was added,
\* which may be at once.  Nothing more happens to a job the request found paused.
Resume(o, j) ==
    /\ op[o].stage = "resume"
    /\ op[o].at = None
    /\ j \in op[o].todo
    /\ \E n \in 0 .. Interval[j] - 1 : left' = [left EXCEPT ![j] = n]
    /\ IF remembered[o][j] = None
       THEN Done(o, j, "idle")
       ELSE op' = [op EXCEPT ![o].at = j]
    /\ UNCHANGED <<running, remembered, requests, cadence, overlapped>>

\* A bug: the job is due a grace period after the request, whenever it was due before.
RestoreGraceOnly(o, j) ==
    /\ op[o].stage = "resume"
    /\ op[o].at = j
    /\ left' = [left EXCEPT ![j] = Grace]
    /\ Done(o, j, "idle")
    /\ UNCHANGED <<running, remembered, requests, cadence, overlapped>>

\* job.modify(next_run_time=max(original, now + grace)): a due time that has passed is moved
\* to the end of the grace period, and so is one that lies within it.
Restore(o, j) ==
    /\ op[o].stage = "resume"
    /\ op[o].at = j
    /\ left' = [left EXCEPT ![j] = Later(remembered[o][j], Grace)]
    /\ Done(o, j, "idle")
    /\ UNCHANGED <<running, remembered, requests, cadence, overlapped>>

OpStep(o) ==
    \/ \E j \in Job : Remember(o, j) \/ Pause(o, j) \/ Resume(o, j) \/ Restore(o, j)
    \/ Work(o)

-----------------------------------------------------------------------------

\* The scheduler's thread finds job j due.  It starts it, unless the last instance is
\* still running (max_instances is 1); the next run is due an interval after this one
\* was, so sooner than an interval from now if the thread was late.
Start(j) ==
    /\ left[j] = 0
    /\ running' = running \cup {j}
    /\ \E n \in 1 .. Interval[j] :
          /\ left' = [left EXCEPT ![j] = n]
          /\ cadence' = [cadence EXCEPT ![j] = n]
    /\ overlapped' = (overlapped \/ \E o \in Operation : op[o].at = j)
    /\ UNCHANGED <<op, remembered, requests>>

Finish(j) ==
    /\ j \in running
    /\ running' = running \ {j}
    /\ UNCHANGED <<left, op, remembered, requests, cadence, overlapped>>

Passed(t) == IF t = None \/ t = 0 THEN t ELSE t - 1

Tick ==
    /\ left' = [j \in Job |-> Passed(left[j])]
    /\ cadence' = [j \in Job |-> Passed(cadence[j])]
    /\ remembered' = [o \in Operation |-> [j \in Job |-> Passed(remembered[o][j])]]
    /\ UNCHANGED <<running, op, requests, overlapped>>

Next ==
    \/ \E o \in Operation : Request(o) \/ OpStep(o)
    \/ \E j \in Job : Start(j) \/ Finish(j)
    \/ Tick

Spec == Init /\ [][Next]_vars

\* Time passes, the scheduler's thread and the event loop run, jobs and requests return.
FairSpec ==
    /\ Spec
    /\ WF_vars(Tick)
    /\ \A j \in Job : WF_vars(Start(j)) /\ WF_vars(Finish(j))
    /\ \A o \in Operation : WF_vars(OpStep(o))

-----------------------------------------------------------------------------

Due == Time \cup {None}

TypeOK ==
    /\ left \in [Job -> Due]
    /\ running \subseteq Job
    /\ op \in [Operation -> Op]
    /\ remembered \in [Operation -> [Job -> Due]]
    /\ requests \in 0 .. MaxRequests
    /\ cadence \in [Job -> Due]
    /\ overlapped \in BOOLEAN

\* Whenever no request is under way every job has a due time, however many requests
\* overlapped and in whatever order they paused and resumed the jobs: rogue detection
\* and the time policy are never switched off for good.
NoJobStuck == Active = {} => \A j \in Job : left[j] # None

\* A request that was alone finds no job due while it works.
QuietWhenAlone ==
    ~overlapped => \A o \in Operation, j \in Job : op[o].stage = "work" => left[j] = None

\* A request that was alone gives every job the due time it would have had without the
\* request, but none within the grace period from now: what was due sooner, passed or not,
\* is due at its end, however long the request took.
CadenceRestored ==
    [][\A o \in Operation, j \in Job :
          (op[o].stage = "resume" /\ op[o].at = j /\ op'[o].at # j /\ ~overlapped)
             => left'[j] = Later(cadence[j], Grace)]_vars

\* Every job is started again and again, through any overlap of requests.
JobsKeepRunning == \A j \in Job : []<><<Start(j)>>_vars

-----------------------------------------------------------------------------

\* "restoring their original due time", which a grace period replaces for "a job whose due
\* time passed while it was paused" (services/scheduler.py:474-478): the due time that a
\* request alone gives back is the job's own, unless it has passed.
DueTimeRestored ==
    [][\A o \in Operation, j \in Job :
          (op[o].stage = "resume" /\ op[o].at = j /\ op'[o].at # j /\ ~overlapped)
             => cadence[j] = 0 \/ left'[j] = cadence[j]]_vars

\* "Background jobs that touch the same devices are paused for the duration"
\* (api/endpoints.py:1175), with no condition.
PausedForTheDuration ==
    \A o \in Operation, j \in Job : op[o].stage = "work" => left[j] = None

=============================================================================
