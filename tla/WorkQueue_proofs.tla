--------------------------- MODULE WorkQueue_proofs ---------------------------
(* Invariance theorems about WorkQueue, for every value of its constants.  *)
EXTENDS WorkQueue, Sums, TLAPS

-----------------------------------------------------------------------------
(* Updates of a table row, a task or a scheduler keep its shape.           *)

TaskPlaces == {"idle", "starting", "begun", "resumed", "parked", "queued",
               "session", "ending", "closing"}
Jobs == {"idle", "claimed", "running", "settle"}

LEMMA TaskUpdate ==
  ASSUME NEW t \in Task, NEW x \in TaskPlaces, NEW d \in Dispositions, NEW c \in BOOLEAN
  PROVE  /\ [t EXCEPT !.at = x] \in Task
         /\ [t EXCEPT !.at = x, !.disp = d] \in Task
         /\ [t EXCEPT !.cancel = c] \in Task
         /\ [NoTask EXCEPT !.at = x] \in Task
         /\ [NoTask EXCEPT !.at = x, !.cancel = c] \in Task
         /\ NoTask \in Task
         /\ t.disp \in Dispositions
  BY ZenonT(60) DEF Task, TaskPlaces, Dispositions, NoTask

LEMMA JobUpdate ==
  ASSUME NEW j \in Scheduler, NEW x \in Jobs, NEW d \in Dispositions, NEW w \in Work
  PROVE  /\ [j EXCEPT !.at = x] \in Scheduler
         /\ [j EXCEPT !.at = x, !.disp = d] \in Scheduler
         /\ [j EXCEPT !.lost = TRUE] \in Scheduler
         /\ [NoJob EXCEPT !.at = x, !.work = w] \in Scheduler
         /\ NoJob \in Scheduler
         /\ j.disp \in Dispositions /\ j.work \in Work \cup {NoOne}
  BY Zenon DEF Scheduler, Jobs, Dispositions, NoJob

WorkStatuses == {"none"} \cup Unsettled \cup WorkTerminal

LEMMA WorkUpdate ==
  ASSUME NEW x \in WorkRow, NEW s \in WorkStatuses, NEW d \in Dispositions,
         NEW o \in Schedulers
  PROVE  /\ [x EXCEPT !.status = s] \in WorkRow
         /\ [x EXCEPT !.status = s, !.alloc = d] \in WorkRow
         /\ [x EXCEPT !.alloc = d, !.status = s] \in WorkRow
         /\ [x EXCEPT !.leased = FALSE] \in WorkRow
         /\ x.attempts + 1 \in 0..MaxAttempts =>
               [x EXCEPT !.status = s, !.attempts = @ + 1, !.owner = o, !.leased = TRUE]
                  \in WorkRow
         /\ x.status \in WorkStatuses /\ x.attempts \in 0..MaxAttempts
         /\ x.depth \in Nat /\ x.above \subseteq Runs
<1>1. /\ x.status \in WorkStatuses /\ x.attempts \in 0..MaxAttempts
      /\ x.depth \in Nat /\ x.above \subseteq Runs
  BY DEF WorkRow, WorkStatuses
<1>2. [x EXCEPT !.status = s] \in WorkRow /\ [x EXCEPT !.leased = FALSE] \in WorkRow
  BY Zenon DEF WorkRow, WorkStatuses
<1>3. [x EXCEPT !.status = s, !.alloc = d] \in WorkRow
  BY Zenon DEF WorkRow, WorkStatuses
<1>4. [x EXCEPT !.alloc = d, !.status = s] \in WorkRow
  BY Zenon DEF WorkRow, WorkStatuses
<1>5. ASSUME x.attempts + 1 \in 0..MaxAttempts
      PROVE  [x EXCEPT !.status = s, !.attempts = @ + 1, !.owner = o, !.leased = TRUE]
                \in WorkRow
  BY <1>5, Zenon DEF WorkRow, WorkStatuses, Schedulers
<1> QED
  BY <1>1, <1>2, <1>3, <1>4, <1>5

LEMMA RunUpdate ==
  ASSUME NEW x \in RunRow, NEW s \in {"running", "waiting"} \cup Dispositions,
         NEW d \in {"open"} \cup Dispositions
  PROVE  /\ [x EXCEPT !.status = s] \in RunRow
         /\ [status |-> s, alloc |-> d] \in RunRow
         /\ x.status \in {"none", "running", "waiting"} \cup Dispositions
  BY DEF RunRow

LEMMA Attempts == MaxAttempts \in Nat \ {0}
  BY WorkQueueAssumption

-----------------------------------------------------------------------------
(* The inductive invariant.                                                *)

\* A task past begin_run has a row in table runs.
StartedRunsHaveRows ==
    \A r \in Runs : task[r].at \notin {"idle", "starting"} => run[r].status # "none"

\* A run schedules its children while it is parked, and at no other time.
SchedulingRunsAreParked ==
    \A r \in Runs : sched[r].at # "idle" => task[r].at = "parked"

\* A scheduler that is busy has an item, and a registered task if it awaits one.
RunningJobsHaveTasks ==
    \A s \in Schedulers :
        /\ sched[s].at # "idle" => sched[s].work \in Work
        /\ sched[s].at = "running" => task[sched[s].work].at # "idle"

\* What a task has done so far agrees with the row and the wait of its run.
TasksMatchRows ==
    \A r \in Runs :
        /\ task[r].at \in {"begun", "queued", "session"} =>
              run[r].status = "running" /\ waits[r] = {}
        /\ task[r].at = "parked" => run[r].status = "waiting" /\ waits[r] # {}
        /\ task[r].at = "resumed" =>
              run[r].status = IF waits[r] = {} THEN "running" ELSE "waiting"

IInv == /\ TypeOK
        /\ StartedRunsHaveRows
        /\ SchedulingRunsAreParked
        /\ RunningJobsHaveTasks
        /\ SingleExecutor
        /\ WaitRowsMatchRuns
        /\ TasksMatchRows

-----------------------------------------------------------------------------
(* Type correctness is not inductive alone: FinishRun hands the status of  *)
(* a row that is not active to the caller, which is a disposition only     *)
(* because every task past begin_run has a row.                            *)

LEMMA TypeInit == Init => TypeOK
<1> SUFFICES ASSUME Init PROVE TypeOK
  OBVIOUS
<1>1. [status |-> "none", attempts |-> 0, owner |-> NoOne, leased |-> FALSE,
       parent |-> NoOne, depth |-> 0, above |-> {}, alloc |-> "none"] \in WorkRow
  BY Attempts DEF WorkRow, Unsettled, WorkTerminal, Dispositions
<1>2. [status |-> "none", alloc |-> "none"] \in RunRow
  BY DEF RunRow
<1>3. NoTask \in Task /\ NoJob \in Scheduler
  BY DEF NoTask, Task, NoJob, Scheduler, Dispositions
<1>4. crashes \in 0..MaxCrashes
  BY WorkQueueAssumption DEF Init
<1> QED
  BY <1>1, <1>2, <1>3, <1>4 DEF Init, TypeOK

LEMMA TypeTaskFails ==
  ASSUME TypeOK, NEW r \in Runs, NEW d \in Dispositions, TaskFails(r, d)
  PROVE  sched' \in [Schedulers -> Scheduler] /\ task' \in [Runs -> Task]
<1>1. NoJob \in Scheduler
  BY DEF NoJob, Scheduler, Dispositions
<1>2. NoTask \in Task
  BY DEF NoTask, Task, Dispositions
<1>3. \A q \in Runs : [task[q] EXCEPT !.at = "ending", !.disp = d] \in Task
  BY TaskUpdate DEF TypeOK, TaskPlaces
<1> QED
  BY <1>1, <1>2, <1>3 DEF TaskFails, TypeOK

LEMMA TypeStopScheduler ==
  ASSUME TypeOK, NEW S, NEW d \in Dispositions, StopScheduler(S, d)
  PROVE  sched' \in [Schedulers -> Scheduler] /\ task' \in [Runs -> Task]
<1>1. NoJob \in Scheduler
  BY DEF NoJob, Scheduler, Dispositions
<1>2. \A q \in Runs : [task[q] EXCEPT !.at = "ending", !.disp = d] \in Task
  BY TaskUpdate DEF TypeOK, TaskPlaces
<1> QED
  BY <1>1, <1>2 DEF StopScheduler, TypeOK

LEMMA TypeEnd ==
  ASSUME TypeOK, NEW r \in Runs, NEW d \in Dispositions, End(r, d)
  PROVE  task' \in [Runs -> Task]
<1>1. [task[r] EXCEPT !.at = "ending", !.disp = d] \in Task
  BY TaskUpdate DEF TypeOK, TaskPlaces
<1>2. task' = [task EXCEPT ![r] = [task[r] EXCEPT !.at = "ending", !.disp = d]]
  BY DEF End, TypeOK
<1> QED
  BY <1>1, <1>2 DEF TypeOK

\* A run's own steps keep the shape of every table, task and scheduler.
LEMMA TypeRun ==
  ASSUME TypeOK, StartedRunsHaveRows, NEW r \in Runs, RunStep(r)
  PROVE  TypeOK'
<1> USE DEF TaskPlaces, Jobs, WorkStatuses
<1>a. task[r] \in Task /\ run[r] \in RunRow /\ task[r].disp \in Dispositions
  BY TaskUpdate, Zenon DEF TypeOK, Dispositions
<1>1. CASE BeginRun(r)
  <2>1. \A x \in TaskPlaces : [task[r] EXCEPT !.at = x] \in Task
    BY <1>a, TaskUpdate, Zenon DEF Dispositions
  <2>2. \A s \in {"running", "waiting"} : [status |-> s, alloc |-> "open"] \in RunRow
    BY DEF RunRow
  <2> QED
    BY <1>1, <2>1, <2>2 DEF BeginRun, ResumedStatus, TypeOK
<1>2. CASE BeginRunDenied(r)
  BY <1>2, TypeTaskFails DEF BeginRunDenied, TypeOK, Dispositions
<1>3. CASE ReconcileEffects(r)
  BY <1>3, TypeEnd, TypeTaskFails DEF ReconcileEffects, TypeOK, Dispositions
<1>4. CASE StopTask(r)
  BY <1>4, TypeEnd DEF StopTask, TypeOK, Dispositions
<1>6. CASE \E d \in Answers : EndSession(r, d)
  <2>1. Answers \subseteq Dispositions
    BY WorkQueueAssumption DEF Dispositions
  <2> QED
    BY <1>6, <2>1, TypeEnd DEF EndSession, TypeOK
<1>5. CASE EnterLoop(r) \/ AcquireSlot(r)
  <2>1. \A x \in TaskPlaces : [task[r] EXCEPT !.at = x] \in Task
    BY <1>a, TaskUpdate, Zenon DEF Dispositions
  <2> QED
    BY <1>5, <2>1, Zenon DEF EnterLoop, AcquireSlot, TypeOK
<1>7. CASE ResumeWaiting(r) \/ \E W \in SUBSET Work : ParkRun(r, W)
  <2>1. \A x \in TaskPlaces : [task[r] EXCEPT !.at = x] \in Task
    BY <1>a, TaskUpdate, Zenon DEF Dispositions
  <2>2. \A s \in {"running", "waiting"} : [run[r] EXCEPT !.status = s] \in RunRow
    BY <1>a, RunUpdate DEF Dispositions
  <2>3. [run[r] EXCEPT !.status = run[r].status] \in RunRow
    BY <1>a DEF RunRow
  <2>4. CASE ResumeWaiting(r)
    BY <2>4, <2>1, <2>2, <2>3 DEF ResumeWaiting, TypeOK
  <2>5. CASE \E W \in SUBSET Work : ParkRun(r, W)
    BY <2>5, <2>1, <2>2, <2>3 DEF ParkRun, TypeOK
  <2> QED
    BY <1>7, <2>4, <2>5, Zenon
<1>8. CASE StopWaitingChildren(r)
  <2>1. \A q \in Runs : /\ [task[q] EXCEPT !.at = "closing"] \in Task
                        /\ [task[q] EXCEPT !.cancel = TRUE] \in Task
    BY TaskUpdate, Zenon DEF TypeOK, Dispositions
  <2>2. \A w \in Work : \A d \in {"cancelled", "exhausted"} : StopChild(w, d) \in WorkRow
    <3> SUFFICES ASSUME NEW w \in Work, NEW d \in {"cancelled", "exhausted"}
                 PROVE  StopChild(w, d) \in WorkRow
      OBVIOUS
    <3>1. work[w] \in WorkRow
      BY DEF TypeOK
    <3>2. work[w].status \in WorkStatuses
      BY <3>1 DEF WorkRow
    <3>3. d \in WorkStatuses /\ d \in Dispositions
      BY DEF WorkTerminal, Dispositions
    <3>4. \A s \in WorkStatuses : [work[w] EXCEPT !.alloc = d, !.status = s] \in WorkRow
      BY <3>1, <3>3 DEF WorkRow
    <3> QED
      BY <3>2, <3>3, <3>4 DEF StopChild
  <2> QED
    BY <1>8, <2>1, <2>2 DEF StopWaitingChildren, TypeOK
<1>9. CASE FinishRun(r)
  <2>1. \A d \in Dispositions : [status |-> d, alloc |-> d] \in RunRow
    BY DEF RunRow
  <2>2. NoTask \in Task
    BY <1>a, TaskUpdate
  <2>3. run' \in [Runs -> RunRow] /\ task' \in [Runs -> Task]
    BY <1>9, <1>a, <2>1, <2>2 DEF FinishRun, TypeOK
  <2>4. waits' \in [Runs -> SUBSET Work]
    BY <1>9 DEF FinishRun, WaitAfter, TypeOK
  <2>5. ASSUME NEW d \in Dispositions, Deliver(r, d)
        PROVE  sched' \in [Schedulers -> Scheduler]
    <3>1. \A s \in Schedulers : [sched[s] EXCEPT !.at = "settle", !.disp = d] \in Scheduler
      BY Zenon DEF TypeOK, Scheduler
    <3> QED
      BY <2>5, <3>1 DEF Deliver, TypeOK
  <2>6. sched' \in [Schedulers -> Scheduler]
    BY <1>9, <1>a, <2>5 DEF FinishRun, Ready, StartedRunsHaveRows, TypeOK, RunRow
  <2> QED
    BY <1>9, <2>3, <2>4, <2>6 DEF FinishRun, TypeOK
<1>10. CASE PassCancel(r) \/ HostCancel(r)
  <2>1. \A q \in Runs : [task[q] EXCEPT !.cancel = TRUE] \in Task
    BY TaskUpdate, Zenon DEF TypeOK, Dispositions
  <2> QED
    BY <1>10, <2>1 DEF PassCancel, HostCancel, TypeOK
<1>12. CASE \E w \in Work : RequestWork(r, w)
  <2> SUFFICES ASSUME NEW w \in Work, RequestWork(r, w) PROVE TypeOK'
    BY <1>12
  <2>1. DepthUnder(r) \in Nat /\ AboveUnder(r) \subseteq Runs
    BY DEF DepthUnder, AboveUnder, TypeOK, WorkRow
  <2>2. [status |-> "queued", attempts |-> 0, owner |-> r, leased |-> FALSE, parent |-> r,
         depth |-> DepthUnder(r), above |-> AboveUnder(r), alloc |-> "open"] \in WorkRow
    BY <2>1, Attempts DEF WorkRow, Unsettled, Schedulers
  <2> QED
    BY <2>2 DEF RequestWork, TypeOK
<1> QED
  BY <1>1, <1>2, <1>3, <1>4, <1>5, <1>6, <1>7, <1>8, <1>9, <1>10, <1>12 DEF RunStep

\* The steps of a scheduler do too.
LEMMA TypeScheduler ==
  ASSUME TypeOK, NEW s \in Schedulers, SchedulerStep(s)
  PROVE  TypeOK'
<1> USE DEF TaskPlaces, Jobs, WorkStatuses
<1>a. sched[s] \in Scheduler /\ sched[s].disp \in Dispositions /\ NoJob \in Scheduler
  <2>1. sched[s] \in Scheduler
    BY Zenon DEF TypeOK
  <2>2. sched[s].disp \in Dispositions
    BY <2>1, Zenon DEF Scheduler
  <2>3. NoJob \in Scheduler
    BY Zenon DEF Scheduler, NoJob, Dispositions
  <2> QED
    BY <2>1, <2>2, <2>3, Zenon
<1>b. \A x \in Work : Failing(x) \in WorkRow
  <2> SUFFICES ASSUME NEW x \in Work PROVE Failing(x) \in WorkRow
    OBVIOUS
  <2>1. work[x] \in WorkRow /\ "failed" \in WorkStatuses /\ "failed" \in Dispositions
    BY DEF TypeOK, WorkTerminal, Dispositions
  <2> QED
    BY <2>1, WorkUpdate, Zenon DEF Failing
<1>c. \A q \in Runs : [task[q] EXCEPT !.cancel = TRUE] \in Task
  BY TaskUpdate, Zenon DEF TypeOK, Dispositions
<1>1. CASE \E w \in Work, F \in SUBSET Work : ClaimWork(s, w, F)
  <2> SUFFICES ASSUME NEW w \in Work, NEW F \in SUBSET Work, ClaimWork(s, w, F)
               PROVE  TypeOK'
    BY <1>1
  <2>1. work[w] \in WorkRow /\ work[w].attempts \in 0..MaxAttempts
    BY DEF TypeOK, WorkRow
  <2>2. work[w].attempts < MaxAttempts
    BY <2>1, Attempts DEF ClaimWork, Exhausted
  <2>3. work[w].attempts + 1 \in 0..MaxAttempts
    BY <2>1, <2>2, Attempts
  <2>4. Claiming(w, s) \in WorkRow
    BY <2>1, <2>3, WorkUpdate, Zenon DEF Claiming, Unsettled, Dispositions
  <2>5. [NoJob EXCEPT !.at = "claimed", !.work = w] \in Scheduler
    BY DEF NoJob, Scheduler, Dispositions
  <2> QED
    BY <1>b, <2>4, <2>5 DEF ClaimWork, TypeOK
<1>2. CASE ClaimNothing(s)
  BY <1>2, <1>b DEF ClaimNothing, TypeOK
<1>3. CASE ReuseResult(s)
  <2>1. \A d \in Dispositions : [sched[s] EXCEPT !.at = "settle", !.disp = d] \in Scheduler
    BY <1>a DEF Scheduler
  <2>2. PICK d \in Dispositions : d = run[sched[s].work].status
    BY <1>3 DEF ReuseResult, RunTerminal
  <2>3. sched' = [sched EXCEPT ![s] = [sched[s] EXCEPT !.at = "settle", !.disp = d]]
    BY <1>3, <2>2 DEF ReuseResult, TypeOK
  <2> QED
    BY <1>3, <2>1, <2>3, Zenon DEF ReuseResult, TypeOK
<1>4. CASE RunClaimed(s)
  <2>1. \A c \in BOOLEAN : [NoTask EXCEPT !.at = "starting", !.cancel = c] \in Task
    BY DEF NoTask, Task, Dispositions
  <2>2. StopRequested(s) \in BOOLEAN
    BY DEF StopRequested, TypeOK, Task
  <2>3. [sched[s] EXCEPT !.at = "running"] \in Scheduler
    BY <1>a DEF Scheduler
  <2>4. ASSUME StopScheduler({s}, "interrupted")
        PROVE  sched' \in [Schedulers -> Scheduler] /\ task' \in [Runs -> Task]
    BY <2>4, TypeStopScheduler DEF Dispositions
  <2>5. sched' \in [Schedulers -> Scheduler] /\ task' \in [Runs -> Task]
    BY <1>4, <2>1, <2>2, <2>3, <2>4, ZenonT(60) DEF RunClaimed, TypeOK
  <2> QED
    BY <1>4, <2>5 DEF RunClaimed, TypeOK
<1>5. CASE RenewWork(s)
  <2>1. [sched[s] EXCEPT !.lost = TRUE] \in Scheduler
    BY <1>a DEF Scheduler
  <2> QED
    BY <1>5, <1>c, <2>1 DEF RenewWork, TypeOK
<1>6. CASE FinishWork(s)
  <2> DEFINE status == WorkStatusOf(sched[s].disp)
  <2>1. status \in WorkStatuses /\ status \in Dispositions
    BY <1>a DEF WorkStatusOf, Dispositions, Unsettled, WorkTerminal
  <2>2. \A x \in Work : [work[x] EXCEPT !.status = status, !.alloc = status] \in WorkRow
    <3> SUFFICES ASSUME NEW x \in Work
                 PROVE  [work[x] EXCEPT !.status = status, !.alloc = status] \in WorkRow
      OBVIOUS
    <3>1. work[x] \in WorkRow
      BY DEF TypeOK
    <3> HIDE DEF status
    <3> QED
      BY <2>1, <3>1, WorkUpdate, Zenon
  <2>3. ASSUME StopScheduler({s}, "interrupted")
        PROVE  sched' \in [Schedulers -> Scheduler] /\ task' \in [Runs -> Task]
    BY <2>3, TypeStopScheduler DEF Dispositions
  <2>4. sched' \in [Schedulers -> Scheduler] /\ task' \in [Runs -> Task]
    BY <1>6, <1>a, <2>3 DEF FinishWork, TypeOK
  <2>5. work' = work
          \/ work' = [work EXCEPT ![sched[s].work].status = status, ![sched[s].work].alloc = status]
    BY <1>6 DEF FinishWork
  <2>6. ASSUME NEW x \in Work,
               work' = [work EXCEPT ![x].status = status, ![x].alloc = status]
        PROVE  work' \in [Work -> WorkRow]
    <3>1. work' = [work EXCEPT ![x] = [work[x] EXCEPT !.status = status, !.alloc = status]]
      BY <2>6 DEF TypeOK
    <3> QED
      BY <3>1, <2>2 DEF TypeOK
  <2>7. sched[s].work \notin Work => work' = work
    BY <2>5 DEF TypeOK
  <2>8. work' \in [Work -> WorkRow]
    BY <2>5, <2>6, <2>7 DEF TypeOK
  <2> QED
    BY <1>6, <2>4, <2>8 DEF FinishWork, TypeOK
<1>7. CASE AbandonDrain(s)
  BY <1>7, <1>a, <1>c DEF AbandonDrain, TypeOK
<1> QED
  BY <1>1, <1>2, <1>3, <1>4, <1>5, <1>6, <1>7 DEF SchedulerStep

\* And so do a new root run, time, and the recovery after a crash.
LEMMA TypeEnvironment ==
  ASSUME TypeOK,
         \/ \E r \in Roots : StartRoot(r)
         \/ \E w \in Work : LeaseExpires(w)
         \/ DeadlinePasses
         \/ CrashAndRecover
  PROVE  TypeOK'
<1>1. NoTask \in Task /\ [NoTask EXCEPT !.at = "starting"] \in Task /\ NoJob \in Scheduler
  BY DEF NoTask, Task, NoJob, Scheduler, Dispositions
<1>2. CASE \E r \in Roots : StartRoot(r)
  BY <1>1, <1>2 DEF StartRoot, TypeOK, Runs
<1>3. CASE \E w \in Work : LeaseExpires(w)
  <2>1. \A w \in Work : [work[w] EXCEPT !.leased = FALSE] \in WorkRow
    BY ZenonT(60) DEF TypeOK, WorkRow
  <2> QED
    BY <1>3, <2>1 DEF LeaseExpires, TypeOK
<1>4. CASE DeadlinePasses
  BY <1>4 DEF DeadlinePasses, TypeOK
<1>5. CASE CrashAndRecover
  <2>1. \A w \in Work : RecoveredWork(w) \in WorkRow
    BY DEF RecoveredWork, TypeOK, WorkRow, Unsettled
  <2>2. \A r \in Runs : RecoveredRun(r) \in RunRow
    BY DEF RecoveredRun, TypeOK, RunRow, Dispositions
  <2>3. crashes' \in 0..MaxCrashes
    BY <1>5, WorkQueueAssumption DEF CrashAndRecover, TypeOK
  <2> QED
    BY <1>1, <1>5, <2>1, <2>2, <2>3 DEF CrashAndRecover, TypeOK
<1> QED
  BY <1>2, <1>3, <1>4, <1>5

-----------------------------------------------------------------------------
(* Where a task stands after a step that moves one, fails one or stops one. *)

LEMMA TaskAfterEnd ==
  ASSUME TypeOK, NEW r \in Runs, NEW d \in Dispositions, End(r, d)
  PROVE  \A q \in Runs : task'[q].at = IF q = r THEN "ending" ELSE task[q].at
<1>1. task' = [task EXCEPT ![r] = [task[r] EXCEPT !.at = "ending", !.disp = d]]
  BY DEF End, TypeOK
<1>2. [task[r] EXCEPT !.at = "ending", !.disp = d].at = "ending"
  BY DEF TypeOK, Task
<1> QED
  BY <1>1, <1>2 DEF TypeOK

LEMMA PlacesAfterTaskFails ==
  ASSUME TypeOK, NEW r \in Runs, NEW d \in Dispositions, TaskFails(r, d)
  PROVE  /\ \A q \in Runs : task'[q].at = IF q = r THEN "idle"
                                       ELSE IF q \in Caller(r) THEN "ending" ELSE task[q].at
         /\ \A s \in Schedulers : sched'[s].at = IF s \in Caller(r) THEN "idle" ELSE sched[s].at
<1>1. NoTask.at = "idle" /\ NoJob.at = "idle"
  BY DEF NoTask, NoJob
<1>2. \A q \in Runs : [task[q] EXCEPT !.at = "ending", !.disp = d].at = "ending"
  BY DEF TypeOK, Task
<1> QED
  BY <1>1, <1>2 DEF TaskFails

LEMMA PlacesAfterStopScheduler ==
  ASSUME TypeOK, NEW S, NEW d \in Dispositions, StopScheduler(S, d)
  PROVE  /\ \A q \in Runs : task'[q].at = IF q \in S THEN "ending" ELSE task[q].at
         /\ \A s \in Schedulers : sched'[s].at = IF s \in S THEN "idle" ELSE sched[s].at
<1>1. NoJob.at = "idle"
  BY DEF NoJob
<1>2. \A q \in Runs : [task[q] EXCEPT !.at = "ending", !.disp = d].at = "ending"
  BY DEF TypeOK, Task
<1> QED
  BY <1>1, <1>2 DEF StopScheduler

LEMMA PlacesAfterMove ==
  ASSUME TypeOK, NEW r \in Runs, NEW x \in TaskPlaces, task' = [task EXCEPT ![r].at = x]
  PROVE  \A q \in Runs : task'[q].at = IF q = r THEN x ELSE task[q].at
<1>1. [task[r] EXCEPT !.at = x].at = x
  BY DEF TypeOK, Task
<1> QED
  BY <1>1 DEF TypeOK

LEMMA PlacesAfterCancel ==
  ASSUME TypeOK, NEW r, task' = [task EXCEPT ![r].cancel = TRUE]
  PROVE  \A q \in Runs : task'[q].at = task[q].at
<1>1. \A q \in Runs : [task[q] EXCEPT !.cancel = TRUE].at = task[q].at
  BY DEF TypeOK, Task
<1> QED
  BY <1>1 DEF TypeOK

-----------------------------------------------------------------------------
(* The other parts of the invariant, one step of the queue at a time.      *)

RInv == /\ StartedRunsHaveRows
        /\ SchedulingRunsAreParked
        /\ RunningJobsHaveTasks
        /\ SingleExecutor
        /\ WaitRowsMatchRuns
        /\ TasksMatchRows

\* Moving the tasks of this process touches no table: what is left to show is
\* that the task that moved may stand where it stands.
LEMMA TasksMove ==
  ASSUME IInv, NEW r \in Runs, NEW x \in TaskPlaces \ {"idle", "parked"},
         \A q \in Runs : task'[q].at = IF q = r THEN x ELSE task[q].at,
         sched[r].at = "idle" \/ task[r].at = x,
         x # "starting" => run[r].status # "none",
         x \in {"begun", "queued", "session"} => run[r].status = "running" /\ waits[r] = {},
         x = "resumed" => run[r].status = IF waits[r] = {} THEN "running" ELSE "waiting",
         UNCHANGED <<work, run, waits, sched>>
  PROVE  RInv'
<1> USE DEF IInv, RInv
<1>1. StartedRunsHaveRows' /\ SchedulingRunsAreParked'
  BY DEF StartedRunsHaveRows, SchedulingRunsAreParked
<1>2. RunningJobsHaveTasks'
  BY DEF RunningJobsHaveTasks, TaskPlaces, Runs
<1>3. SingleExecutor'
  BY DEF SingleExecutor, Caller
<1>4. WaitRowsMatchRuns'
  BY DEF WaitRowsMatchRuns, ChildrenOf
<1>5. TasksMatchRows'
  BY DEF TasksMatchRows, TaskPlaces
<1> QED
  BY <1>1, <1>2, <1>3, <1>4, <1>5

\* Ending a task, too.
LEMMA TaskEnds ==
  ASSUME IInv, NEW r \in Runs, NEW d \in Dispositions, End(r, d),
         task[r].at \notin {"idle", "starting"}, sched[r].at = "idle",
         UNCHANGED <<work, run, waits, sched>>
  PROVE  RInv'
<1>1. \A q \in Runs : task'[q].at = IF q = r THEN "ending" ELSE task[q].at
  BY TaskAfterEnd DEF IInv
<1>2. run[r].status # "none"
  BY DEF IInv, StartedRunsHaveRows
<1> QED
  BY <1>1, <1>2, TasksMove DEF TaskPlaces

\* A task that fails frees its caller, which stops if it is a parked run.
LEMMA TaskFailure ==
  ASSUME IInv, NEW r \in Runs, NEW d \in Dispositions, TaskFails(r, d),
         task[r].at # "parked",
         UNCHANGED <<work, run, waits>>
  PROVE  RInv'
<1> USE DEF IInv, RInv
<1>1. /\ \A q \in Runs : task'[q].at = IF q = r THEN "idle"
                                    ELSE IF q \in Caller(r) THEN "ending" ELSE task[q].at
      /\ \A s \in Schedulers : sched'[s].at = IF s \in Caller(r) THEN "idle" ELSE sched[s].at
  BY PlacesAfterTaskFails
<1>2. \A s \in Schedulers : sched'[s] = IF s \in Caller(r) THEN NoJob ELSE sched[s]
  BY DEF TaskFails
<1>3. StartedRunsHaveRows'
  BY <1>1 DEF StartedRunsHaveRows, SchedulingRunsAreParked, Caller
<1>4. SchedulingRunsAreParked'
  BY <1>1 DEF SchedulingRunsAreParked, Schedulers
<1>5. RunningJobsHaveTasks'
  BY <1>1, <1>2 DEF RunningJobsHaveTasks, Caller, SchedulingRunsAreParked, Runs
<1>6. SingleExecutor'
  BY <1>1, <1>2 DEF SingleExecutor, Caller
<1>7. WaitRowsMatchRuns'
  BY DEF WaitRowsMatchRuns, ChildrenOf
<1>8. TasksMatchRows'
  BY <1>1 DEF TasksMatchRows
<1> QED
  BY <1>3, <1>4, <1>5, <1>6, <1>7, <1>8

\* The other parts survive a change of items that leaves each item's parent,
\* and of tasks and schedulers that leaves where they stand.
LEMMA ItemsChange ==
  ASSUME IInv,
         \A w \in Work : work[w].status # "none" =>
            work'[w].status # "none" /\ work'[w].parent = work[w].parent,
         \A q \in Runs : task'[q].at = task[q].at,
         \A s \in Schedulers : sched'[s].at = sched[s].at /\ sched'[s].work = sched[s].work,
         UNCHANGED <<run, waits>>
  PROVE  RInv'
<1> USE DEF IInv, RInv
<1>1. StartedRunsHaveRows' /\ SchedulingRunsAreParked'
  BY DEF StartedRunsHaveRows, SchedulingRunsAreParked, Schedulers
<1>2. RunningJobsHaveTasks'
  BY DEF RunningJobsHaveTasks, Runs
<1>3. SingleExecutor'
  BY DEF SingleExecutor, Caller
<1>4. WaitRowsMatchRuns'
  BY DEF WaitRowsMatchRuns, ChildrenOf, TypeOK
<1>5. TasksMatchRows'
  BY DEF TasksMatchRows
<1> QED
  BY <1>1, <1>2, <1>3, <1>4, <1>5

LEMMA RunKeepsInvariant ==
  ASSUME IInv, NEW r \in Runs, RunStep(r)
  PROVE  RInv'
<1> USE DEF IInv
<1>1. CASE BeginRun(r)
  <2> DEFINE x == IF run[r].status = "none" THEN "begun" ELSE "resumed"
             st == IF run[r].status = "none" THEN "running" ELSE ResumedStatus(r)
  <2>1. \A q \in Runs : task'[q].at = IF q = r THEN x ELSE task[q].at
    <3>1. x \in TaskPlaces /\ task' = [task EXCEPT ![r].at = x]
      BY <1>1 DEF BeginRun, TaskPlaces
    <3> HIDE DEF x
    <3> QED
      BY <3>1, PlacesAfterMove
  <2>2. \A q \in Runs : run'[q].status = IF q = r THEN st ELSE run[q].status
    BY <1>1 DEF BeginRun, TypeOK
  <2>3. run[r].status = "none" => waits[r] = {}
    BY DEF WaitRowsMatchRuns
  <2>4. UNCHANGED <<work, waits, sched>> /\ task[r].at = "starting"
    BY <1>1 DEF BeginRun
  <2>5. run[r].status = "none" \/ run[r].status = "interrupted"
    BY <1>1 DEF BeginRun, CanBegin
  <2>6. StartedRunsHaveRows'
    BY <2>1, <2>2 DEF StartedRunsHaveRows, ResumedStatus
  <2>7. SchedulingRunsAreParked' /\ RunningJobsHaveTasks'
    BY <2>1, <2>4 DEF SchedulingRunsAreParked, RunningJobsHaveTasks, Runs
  <2>8. SingleExecutor'
    BY <2>4 DEF SingleExecutor, Caller
  <2>9. WaitRowsMatchRuns'
    BY <2>2, <2>3, <2>4, <2>5 DEF WaitRowsMatchRuns, ChildrenOf, ResumedStatus
  <2>10. TasksMatchRows'
    BY <2>1, <2>2, <2>3, <2>4 DEF TasksMatchRows, ResumedStatus
  <2> QED
    BY <2>6, <2>7, <2>8, <2>9, <2>10 DEF RInv
<1>2. CASE BeginRunDenied(r)
  BY <1>2, TaskFailure DEF BeginRunDenied, Dispositions
<1>3. CASE ReconcileEffects(r)
  BY <1>3, TaskEnds, TaskFailure DEF ReconcileEffects, Dispositions, SchedulingRunsAreParked
<1>4. CASE StopTask(r)
  BY <1>4, TaskEnds DEF StopTask, Dispositions, SchedulingRunsAreParked
<1>5. CASE \E d \in Answers : EndSession(r, d)
  <2>1. Answers \subseteq Dispositions
    BY WorkQueueAssumption DEF Dispositions
  <2> QED
    BY <1>5, <2>1, TaskEnds DEF EndSession, SchedulingRunsAreParked
<1>6. CASE EnterLoop(r)
  <2> DEFINE x == IF waits[r] # {} THEN "parked" ELSE "queued"
  <2>1. \A q \in Runs : task'[q].at = IF q = r THEN x ELSE task[q].at
    BY <1>6, PlacesAfterMove DEF EnterLoop, TaskPlaces
  <2>2. UNCHANGED <<work, run, waits, sched>> /\ task[r].at \in {"begun", "resumed"}
    BY <1>6 DEF EnterLoop
  <2>3. StartedRunsHaveRows' /\ SchedulingRunsAreParked'
    BY <2>1, <2>2 DEF StartedRunsHaveRows, SchedulingRunsAreParked
  <2>4. RunningJobsHaveTasks'
    BY <2>1, <2>2 DEF RunningJobsHaveTasks, Runs
  <2>5. SingleExecutor' /\ WaitRowsMatchRuns'
    BY <2>2 DEF SingleExecutor, Caller, WaitRowsMatchRuns, ChildrenOf
  <2>6. TasksMatchRows'
    BY <2>1, <2>2 DEF TasksMatchRows
  <2> QED
    BY <2>3, <2>4, <2>5, <2>6 DEF RInv
<1>7. CASE AcquireSlot(r)
  <2>1. \A q \in Runs : task'[q].at = IF q = r THEN "session" ELSE task[q].at
    BY <1>7, PlacesAfterMove DEF AcquireSlot, TaskPlaces
  <2>2. run[r].status = "running" /\ waits[r] = {}
    BY <1>7 DEF AcquireSlot, TasksMatchRows
  <2>3. sched[r].at = "idle"
    BY <1>7 DEF AcquireSlot, SchedulingRunsAreParked
  <2> QED
    BY <1>7, <2>1, <2>2, <2>3, TasksMove DEF AcquireSlot, TaskPlaces
<1>8. CASE ResumeWaiting(r) \/ \E W \in SUBSET Work : ParkRun(r, W)
  <2> DEFINE x == IF ResumeWaiting(r) THEN "queued" ELSE "parked"
             st == IF ResumeWaiting(r) THEN "running" ELSE "waiting"
  <2>1. \A q \in Runs : task'[q].at = IF q = r THEN x ELSE task[q].at
    BY <1>8, PlacesAfterMove DEF ResumeWaiting, ParkRun, TaskPlaces
  <2>2. \A q \in Runs : run'[q].status = IF q = r THEN st ELSE run[q].status
    <3>1. [run[r] EXCEPT !.status = st].status = st
      BY DEF TypeOK, RunRow
    <3>2. run' = [run EXCEPT ![r] = [run[r] EXCEPT !.status = st]]
      BY <1>8 DEF ResumeWaiting, ParkRun, TypeOK, TasksMatchRows
    <3> QED
      BY <3>1, <3>2 DEF TypeOK
  <2>3. UNCHANGED <<work, sched>> /\ task[r].at \in {"parked", "session"}
    BY <1>8 DEF ResumeWaiting, ParkRun
  <2>4. PICK W : /\ waits' = [waits EXCEPT ![r] = W] /\ (W = {} <=> ResumeWaiting(r))
                 /\ W \subseteq ChildrenOf(r)
    BY <1>8, Zenon DEF ResumeWaiting, ParkRun
  <2>5. \A q \in Runs : waits'[q] = IF q = r THEN W ELSE waits[q]
    BY <2>4 DEF TypeOK
  <2>6. sched[r].at = "idle" \/ ~ResumeWaiting(r)
    BY DEF ResumeWaiting
  <2>7. StartedRunsHaveRows' /\ SchedulingRunsAreParked'
    BY <2>1, <2>2, <2>3, <2>6 DEF StartedRunsHaveRows, SchedulingRunsAreParked
  <2>8. RunningJobsHaveTasks'
    BY <2>1, <2>3 DEF RunningJobsHaveTasks, Runs
  <2>9. SingleExecutor'
    BY <2>3 DEF SingleExecutor, Caller
  <2>10. WaitRowsMatchRuns'
    BY <2>2, <2>3, <2>4, <2>5 DEF WaitRowsMatchRuns, ChildrenOf
  <2>11. TasksMatchRows'
    BY <2>1, <2>2, <2>4, <2>5 DEF TasksMatchRows
  <2> QED
    BY <2>7, <2>8, <2>9, <2>10, <2>11 DEF RInv
<1>9. CASE StopWaitingChildren(r)
  <2>1. \A q \in Runs : task'[q].at = IF q = r THEN "closing" ELSE task[q].at
    <3>1. \A q \in Runs : /\ [task[q] EXCEPT !.at = "closing"].at = "closing"
                          /\ [task[q] EXCEPT !.cancel = TRUE].at = task[q].at
      BY DEF TypeOK, Task
    <3> QED
      BY <1>9, <3>1 DEF StopWaitingChildren
  <2>2. \A w \in Work : work[w].status # "none" =>
           work'[w].status # "none" /\ work'[w].parent = work[w].parent
    <3>1. \A w \in Work : \A d \in {"cancelled", "exhausted"} :
             work[w].status # "none" =>
               StopChild(w, d).status # "none" /\ StopChild(w, d).parent = work[w].parent
      BY DEF StopChild, TypeOK, WorkRow
    <3> QED
      BY <1>9, <3>1 DEF StopWaitingChildren
  <2>3. UNCHANGED <<run, waits, sched>> /\ task[r].at = "ending"
    BY <1>9 DEF StopWaitingChildren
  <2>4. StartedRunsHaveRows' /\ SchedulingRunsAreParked'
    BY <2>1, <2>3 DEF StartedRunsHaveRows, SchedulingRunsAreParked
  <2>5. RunningJobsHaveTasks'
    BY <2>1, <2>3 DEF RunningJobsHaveTasks, Runs
  <2>6. SingleExecutor' /\ WaitRowsMatchRuns'
    BY <2>2, <2>3 DEF SingleExecutor, Caller, WaitRowsMatchRuns, ChildrenOf, TypeOK
  <2>7. TasksMatchRows'
    BY <2>1, <2>3 DEF TasksMatchRows
  <2> QED
    BY <2>4, <2>5, <2>6, <2>7 DEF RInv
<1>10. CASE FinishRun(r)
  <2> DEFINE d == task[r].disp
             active == run[r].status \in {"running", "waiting"}
             D == IF active THEN d ELSE run[r].status
  <2>1. \A q \in Runs : task'[q].at = IF q = r THEN "idle" ELSE task[q].at
    BY <1>10 DEF FinishRun, NoTask, TypeOK
  <2>2. /\ \A q \in Runs : q # r => run'[q] = run[q] /\ waits'[q] = waits[q]
        /\ run'[r].status = D /\ d \in Dispositions
        /\ waits'[r] = IF active THEN WaitAfter(r, d) ELSE waits[r]
    BY <1>10 DEF FinishRun, TypeOK, Task
  <2>3. \A s \in Schedulers : /\ sched'[s].at = IF s \in Caller(r) THEN "settle" ELSE sched[s].at
                              /\ sched'[s].work = sched[s].work
    <3>1. \A s \in Schedulers :
             /\ [sched[s] EXCEPT !.at = "settle", !.disp = D].at = "settle"
             /\ [sched[s] EXCEPT !.at = "settle", !.disp = D].work = sched[s].work
      BY DEF TypeOK, Scheduler
    <3>2. Deliver(r, D)
      BY <1>10 DEF FinishRun
    <3> QED
      BY <3>1, <3>2 DEF Deliver
  <2>4. task[r].at \in {"ending", "closing"} /\ work' = work
    BY <1>10 DEF FinishRun, Ready
  <2>5. StartedRunsHaveRows'
    BY <2>1, <2>2 DEF StartedRunsHaveRows, Dispositions
  <2>6. SchedulingRunsAreParked'
    BY <2>1, <2>3, <2>4 DEF SchedulingRunsAreParked, Schedulers, Caller
  <2>7. RunningJobsHaveTasks'
    BY <2>1, <2>3 DEF RunningJobsHaveTasks, Caller, Runs
  <2>8. SingleExecutor'
    BY <2>3 DEF SingleExecutor, Caller
  <2>9. WaitRowsMatchRuns'
    BY <2>2, <2>4 DEF WaitRowsMatchRuns, ChildrenOf, WaitAfter
  <2>10. TasksMatchRows'
    BY <2>1, <2>2 DEF TasksMatchRows
  <2> QED
    BY <2>5, <2>6, <2>7, <2>8, <2>9, <2>10 DEF RInv
<1>11. CASE PassCancel(r) \/ HostCancel(r)
  <2>1. \A q \in Runs : task'[q].at = task[q].at
    BY <1>11, PlacesAfterCancel DEF PassCancel, HostCancel
  <2> QED
    BY <1>11, <2>1, ItemsChange DEF PassCancel, HostCancel
<1>12. CASE \E w \in Work : RequestWork(r, w)
  <2> SUFFICES ASSUME NEW w \in Work, RequestWork(r, w) PROVE RInv'
    BY <1>12
  <2>1. \A x \in Work : work[x].status # "none" => work'[x] = work[x]
    BY DEF RequestWork, TypeOK
  <2> QED
    BY <2>1, ItemsChange DEF RequestWork
<1> QED
  BY <1>1, <1>2, <1>3, <1>4, <1>5, <1>6, <1>7, <1>8, <1>9, <1>10, <1>11, <1>12 DEF RunStep

\* A scheduler that stops between two runs leaves its own wait, if it has one.
LEMMA SchedulerStops ==
  ASSUME IInv, NEW s \in Schedulers, StopScheduler({s}, "interrupted"),
         sched[s].at # "idle",
         \A w \in Work : work[w].status # "none" =>
            work'[w].status # "none" /\ work'[w].parent = work[w].parent,
         UNCHANGED <<run, waits>>
  PROVE  RInv'
<1> USE DEF IInv
<1>1. /\ \A q \in Runs : task'[q].at = IF q = s THEN "ending" ELSE task[q].at
      /\ \A t \in Schedulers : sched'[t].at = IF t = s THEN "idle" ELSE sched[t].at
  BY PlacesAfterStopScheduler DEF Dispositions
<1>2. \A t \in Schedulers : sched'[t].at # "idle" => sched'[t] = sched[t]
  BY <1>1 DEF StopScheduler
<1>3. s \in Runs => task[s].at = "parked"
  BY DEF SchedulingRunsAreParked
<1>4. StartedRunsHaveRows' /\ SchedulingRunsAreParked'
  BY <1>1, <1>3 DEF StartedRunsHaveRows, SchedulingRunsAreParked, Schedulers
<1>5. RunningJobsHaveTasks'
  BY <1>1, <1>2 DEF RunningJobsHaveTasks, Runs
<1>6. SingleExecutor'
  BY <1>2 DEF SingleExecutor, Caller
<1>7. WaitRowsMatchRuns'
  BY DEF WaitRowsMatchRuns, ChildrenOf, TypeOK
<1>8. TasksMatchRows'
  BY <1>1 DEF TasksMatchRows
<1> QED
  BY <1>4, <1>5, <1>6, <1>7, <1>8 DEF RInv

\* A scheduler that takes an item, or that stops waiting for its run, awaits
\* nothing; only a parked run takes items for itself.
LEMMA SchedulerMoves ==
  ASSUME IInv, NEW s \in Schedulers,
         \A t \in Schedulers : t # s => sched'[t] = sched[t],
         sched'[s].at # "running",
         s \in Runs /\ sched'[s].at # "idle" => task[s].at = "parked",
         sched'[s].at # "idle" => sched'[s].work \in Work,
         \A w \in Work : work[w].status # "none" =>
            work'[w].status # "none" /\ work'[w].parent = work[w].parent,
         \A q \in Runs : task'[q].at = task[q].at,
         UNCHANGED <<run, waits>>
  PROVE  RInv'
<1> USE DEF IInv
<1>1. StartedRunsHaveRows' /\ SchedulingRunsAreParked'
  BY DEF StartedRunsHaveRows, SchedulingRunsAreParked, Schedulers
<1>2. RunningJobsHaveTasks'
  BY DEF RunningJobsHaveTasks, Runs
<1>3. SingleExecutor'
  BY DEF SingleExecutor, Caller
<1>4. WaitRowsMatchRuns'
  BY DEF WaitRowsMatchRuns, ChildrenOf, TypeOK
<1>5. TasksMatchRows'
  BY DEF TasksMatchRows
<1> QED
  BY <1>1, <1>2, <1>3, <1>4, <1>5 DEF RInv

LEMMA SchedulerKeepsInvariant ==
  ASSUME IInv, NEW s \in Schedulers, SchedulerStep(s)
  PROVE  RInv'
<1> USE DEF IInv
<1>a. \A x \in Work : Failing(x).status # "none" /\ Failing(x).parent = work[x].parent
  BY DEF Failing, TypeOK, WorkRow
<1>1. CASE \E w \in Work, F \in SUBSET Work : ClaimWork(s, w, F)
  <2> SUFFICES ASSUME NEW w \in Work, NEW F \in SUBSET Work, ClaimWork(s, w, F)
               PROVE  RInv'
    BY <1>1
  <2>1. Claiming(w, s).status # "none" /\ Claiming(w, s).parent = work[w].parent
    BY DEF Claiming, TypeOK, WorkRow
  <2>2. \A x \in Work : work[x].status # "none" =>
           work'[x].status # "none" /\ work'[x].parent = work[x].parent
    BY <1>a, <2>1 DEF ClaimWork
  <2>3. /\ [NoJob EXCEPT !.at = "claimed", !.work = w].at = "claimed"
        /\ [NoJob EXCEPT !.at = "claimed", !.work = w].work = w
    BY DEF NoJob
  <2> QED
    BY <2>2, <2>3, SchedulerMoves DEF ClaimWork, MayClaim, TypeOK
<1>2. CASE ClaimNothing(s)
  <2>1. \A x \in Work : work[x].status # "none" =>
           work'[x].status # "none" /\ work'[x].parent = work[x].parent
    BY <1>2, <1>a DEF ClaimNothing
  <2> QED
    BY <1>2, <2>1, ItemsChange DEF ClaimNothing
<1>3. CASE ReuseResult(s)
  <2>1. \A d : /\ [sched[s] EXCEPT !.at = "settle", !.disp = d].at = "settle"
               /\ [sched[s] EXCEPT !.at = "settle", !.disp = d].work = sched[s].work
    BY DEF TypeOK, Scheduler
  <2>2. sched' = [sched EXCEPT ![s] =
                    [sched[s] EXCEPT !.at = "settle", !.disp = run[sched[s].work].status]]
    BY <1>3 DEF ReuseResult, TypeOK
  <2> QED
    <3>1. sched'[s].at = "settle" /\ sched'[s].work = sched[s].work
      BY <2>1, <2>2 DEF TypeOK
    <3>2. \A t \in Schedulers : t # s => sched'[t] = sched[t]
      BY <2>2 DEF TypeOK
    <3>3. sched[s].work \in Work /\ (s \in Runs => task[s].at = "parked")
      BY <1>3 DEF ReuseResult, SchedulingRunsAreParked, RunningJobsHaveTasks
    <3>4. UNCHANGED <<work, run, waits, task>>
      BY <1>3 DEF ReuseResult
    <3> QED
      BY <3>1, <3>2, <3>3, <3>4, SchedulerMoves
<1>4. CASE RunClaimed(s)
  <2> DEFINE w == sched[s].work
  <2>1. CASE StopScheduler({s}, "interrupted")
    BY <1>4, <2>1, SchedulerStops DEF RunClaimed
  <2>2. ASSUME ~Registered(w),
               task' = [task EXCEPT ![w] = [NoTask EXCEPT !.at = "starting",
                                                          !.cancel = StopRequested(s)]],
               sched' = [sched EXCEPT ![s].at = "running"]
        PROVE  RInv'
    <3>1. w \in Work /\ (s \in Runs => task[s].at = "parked")
      BY <1>4 DEF RunClaimed, RunningJobsHaveTasks, SchedulingRunsAreParked
    <3>2. \A q \in Runs : task'[q].at = IF q = w THEN "starting" ELSE task[q].at
      BY <2>2 DEF NoTask, TypeOK
    <3>3. [sched[s] EXCEPT !.at = "running"].at = "running"
          /\ [sched[s] EXCEPT !.at = "running"].work = w
      BY DEF TypeOK, Scheduler
    <3>4. \A t \in Schedulers : /\ sched'[t].at = IF t = s THEN "running" ELSE sched[t].at
                                /\ sched'[t].work = sched[t].work
      BY <2>2, <3>3 DEF TypeOK
    <3>5. task[w].at = "idle" /\ UNCHANGED <<work, run, waits>>
      BY <1>4, <2>2 DEF Registered, RunClaimed
    <3>6. StartedRunsHaveRows' /\ SchedulingRunsAreParked'
      BY <3>1, <3>2, <3>4, <3>5 DEF StartedRunsHaveRows, SchedulingRunsAreParked, Schedulers
    <3>7. RunningJobsHaveTasks'
      BY <3>1, <3>2, <3>4, <3>5 DEF RunningJobsHaveTasks, Runs
    <3>8. SingleExecutor'
      BY <3>4, <3>5 DEF SingleExecutor, Caller, RunningJobsHaveTasks
    <3>9. WaitRowsMatchRuns'
      BY <3>5 DEF WaitRowsMatchRuns, ChildrenOf
    <3>10. TasksMatchRows'
      BY <3>2, <3>5 DEF TasksMatchRows
    <3> QED
      BY <3>6, <3>7, <3>8, <3>9, <3>10 DEF RInv
  <2>3. \/ StopScheduler({s}, "interrupted")
        \/ /\ ~Registered(w)
           /\ task' = [task EXCEPT ![w] = [NoTask EXCEPT !.at = "starting",
                                                         !.cancel = StopRequested(s)]]
           /\ sched' = [sched EXCEPT ![s].at = "running"]
    BY <1>4 DEF RunClaimed
  <2> QED
    BY <2>1, <2>2, <2>3
<1>5. CASE RenewWork(s)
  <2>1. \A q \in Runs : task'[q].at = task[q].at
    BY <1>5, PlacesAfterCancel DEF RenewWork
  <2>2. [sched[s] EXCEPT !.lost = TRUE].at = sched[s].at
        /\ [sched[s] EXCEPT !.lost = TRUE].work = sched[s].work
    BY DEF TypeOK, Scheduler
  <2>3. \A t \in Schedulers : sched'[t].at = sched[t].at /\ sched'[t].work = sched[t].work
    BY <1>5, <2>2 DEF RenewWork, TypeOK
  <2> QED
    BY <1>5, <2>1, <2>3, ItemsChange DEF RenewWork
<1>6. CASE FinishWork(s)
  <2> DEFINE status == WorkStatusOf(sched[s].disp)
  <2>1. status # "none"
    BY DEF WorkStatusOf, TypeOK, Scheduler, Dispositions
  <2>2. \A x \in Work : /\ [work[x] EXCEPT !.status = status, !.alloc = status].status = status
                        /\ [work[x] EXCEPT !.status = status, !.alloc = status].parent = work[x].parent
    BY DEF TypeOK, WorkRow
  <2>3. sched[s].work \in Work
    BY <1>6 DEF FinishWork, RunningJobsHaveTasks
  <2>4. work' = work \/ work' = [work EXCEPT ![sched[s].work] =
                          [work[sched[s].work] EXCEPT !.status = status, !.alloc = status]]
    BY <1>6, <2>3 DEF FinishWork, TypeOK
  <2>5. \A x \in Work : work[x].status # "none" =>
           work'[x].status # "none" /\ work'[x].parent = work[x].parent
    BY <2>1, <2>2, <2>3, <2>4 DEF TypeOK
  <2>6. CASE StopScheduler({s}, "interrupted")
    BY <1>6, <2>5, <2>6, SchedulerStops DEF FinishWork
  <2>7. CASE sched' = [sched EXCEPT ![s] = NoJob] /\ UNCHANGED task
    <3>1. sched'[s].at = "idle" /\ \A t \in Schedulers : t # s => sched'[t] = sched[t]
      BY <2>7 DEF NoJob, TypeOK
    <3> QED
      BY <1>6, <2>5, <2>7, <3>1, SchedulerMoves DEF FinishWork
  <2> QED
    BY <1>6, <2>6, <2>7 DEF FinishWork
<1>7. CASE AbandonDrain(s)
  <2>1. \A q \in Runs : task'[q].at = task[q].at
    BY <1>7, PlacesAfterCancel DEF AbandonDrain
  <2>2. NoJob.at = "idle"
    BY DEF NoJob
  <2> QED
    BY <1>7, <2>1, <2>2, SchedulerMoves DEF AbandonDrain, TypeOK
<1> QED
  BY <1>1, <1>2, <1>3, <1>4, <1>5, <1>6, <1>7 DEF SchedulerStep

LEMMA EnvironmentKeepsInvariant ==
  ASSUME IInv,
         \/ \E r \in Roots : StartRoot(r)
         \/ \E w \in Work : LeaseExpires(w)
         \/ DeadlinePasses
         \/ CrashAndRecover
  PROVE  RInv'
<1> USE DEF IInv
<1>1. CASE \E r \in Roots : StartRoot(r)
  <2> SUFFICES ASSUME NEW r \in Roots, StartRoot(r) PROVE RInv'
    BY <1>1
  <2>1. r \in Runs /\ task[r].at = "idle" /\ UNCHANGED <<work, run, waits, sched>>
    BY DEF StartRoot, Runs
  <2>2. \A q \in Runs : task'[q].at = IF q = r THEN "starting" ELSE task[q].at
    BY DEF StartRoot, NoTask, TypeOK
  <2>3. sched[r].at = "idle"
    BY <2>1 DEF SchedulingRunsAreParked
  <2> QED
    BY <2>1, <2>2, <2>3, TasksMove DEF TaskPlaces
<1>2. CASE \E w \in Work : LeaseExpires(w)
  <2>1. \A w \in Work : /\ [work[w] EXCEPT !.leased = FALSE].status = work[w].status
                        /\ [work[w] EXCEPT !.leased = FALSE].parent = work[w].parent
    BY DEF TypeOK, WorkRow
  <2>2. \A w \in Work : work'[w].status = work[w].status /\ work'[w].parent = work[w].parent
    BY <1>2, <2>1 DEF LeaseExpires, TypeOK
  <2> QED
    BY <1>2, <2>2, ItemsChange DEF LeaseExpires
<1>3. CASE DeadlinePasses
  BY <1>3, ItemsChange DEF DeadlinePasses
<1>4. CASE CrashAndRecover
  <2>1. NoTask.at = "idle" /\ NoJob.at = "idle"
    BY DEF NoTask, NoJob
  <2>2. /\ \A q \in Runs : task'[q].at = "idle"
        /\ \A t \in Schedulers : sched'[t].at = "idle"
    BY <1>4, <2>1 DEF CrashAndRecover
  <2>3. \A w \in Work : work[w].status # "none" =>
           work'[w].status # "none" /\ work'[w].parent = work[w].parent
    <3>1. \A w \in Work : /\ work[w].status # "none" => RecoveredWork(w).status # "none"
                          /\ RecoveredWork(w).parent = work[w].parent
      BY DEF RecoveredWork, TypeOK, WorkRow
    <3> QED
      BY <1>4, <3>1 DEF CrashAndRecover
  <2>4. \A r \in Runs : run'[r].status =
           IF run[r].status \in {"running", "waiting"} THEN "interrupted" ELSE run[r].status
    <3>1. \A r \in Runs : RecoveredRun(r).status =
             IF run[r].status \in {"running", "waiting"} THEN "interrupted" ELSE run[r].status
      BY DEF RecoveredRun, TypeOK, RunRow
    <3> QED
      BY <1>4, <3>1 DEF CrashAndRecover
  <2>5. waits' = waits
    BY <1>4 DEF CrashAndRecover
  <2>6. StartedRunsHaveRows' /\ SchedulingRunsAreParked' /\ RunningJobsHaveTasks'
    BY <2>2 DEF StartedRunsHaveRows, SchedulingRunsAreParked, RunningJobsHaveTasks, Schedulers
  <2>7. SingleExecutor'
    BY <2>2 DEF SingleExecutor, Caller
  <2>8. WaitRowsMatchRuns'
    BY <2>3, <2>4, <2>5 DEF WaitRowsMatchRuns, ChildrenOf, TypeOK
  <2>9. TasksMatchRows'
    BY <2>2 DEF TasksMatchRows
  <2> QED
    BY <2>6, <2>7, <2>8, <2>9 DEF RInv
<1> QED
  BY <1>1, <1>2, <1>3, <1>4

-----------------------------------------------------------------------------
(* The invariant, and the theorems that follow from it.                    *)

LEMMA InvariantInit == Init => IInv
<1> SUFFICES ASSUME Init PROVE IInv
  OBVIOUS
<1>1. TypeOK
  BY TypeInit
<1>2. NoTask.at = "idle" /\ NoJob.at = "idle"
  BY DEF NoTask, NoJob
<1>3. /\ \A r \in Runs : task[r].at = "idle" /\ waits[r] = {}
      /\ \A s \in Schedulers : sched[s].at = "idle"
  BY <1>2 DEF Init
<1>4. StartedRunsHaveRows /\ SchedulingRunsAreParked /\ RunningJobsHaveTasks
  BY <1>3 DEF StartedRunsHaveRows, SchedulingRunsAreParked, RunningJobsHaveTasks, Schedulers
<1>5. SingleExecutor /\ WaitRowsMatchRuns /\ TasksMatchRows
  BY <1>3 DEF SingleExecutor, Caller, WaitRowsMatchRuns, TasksMatchRows
<1> QED
  BY <1>1, <1>4, <1>5 DEF IInv

LEMMA InvariantNext == IInv /\ [Next]_vars => IInv'
<1> SUFFICES ASSUME IInv, [Next]_vars PROVE IInv'
  OBVIOUS
<1>0. TypeOK /\ StartedRunsHaveRows
  BY DEF IInv
<1>1. ASSUME NEW r \in Runs, RunStep(r) PROVE TypeOK' /\ RInv'
  BY <1>0, <1>1, TypeRun, RunKeepsInvariant
<1>2. ASSUME NEW s \in Schedulers, SchedulerStep(s) PROVE TypeOK' /\ RInv'
  BY <1>0, <1>2, TypeScheduler, SchedulerKeepsInvariant
<1>3. CASE \/ \E r \in Roots : StartRoot(r)
           \/ \E w \in Work : LeaseExpires(w)
           \/ DeadlinePasses
           \/ CrashAndRecover
  BY <1>0, <1>3, TypeEnvironment, EnvironmentKeepsInvariant DEF IInv, RInv
<1>4. CASE UNCHANGED vars
  <2>1. TypeOK'
    BY <1>0, <1>4 DEF vars, TypeOK
  <2>2. RInv'
    BY <1>4, ItemsChange DEF vars
  <2> QED
    BY <2>1, <2>2 DEF IInv, RInv
<1>5. TypeOK' /\ RInv' => IInv'
  BY DEF IInv, RInv
<1> QED
  BY <1>1, <1>2, <1>3, <1>4, <1>5 DEF Next

\* The inductive invariant holds in every state of every behaviour.
THEOREM Invariance == Spec => []IInv
  BY InvariantInit, InvariantNext, PTL DEF Spec

\* Every row of the tables work, runs and run_waits, every task and every
\* scheduler keeps the shape the code gives it.
THEOREM TypeCorrect == Spec => []TypeOK
<1>1. IInv => TypeOK
  BY DEF IInv
<1> QED
  BY <1>1, Invariance, PTL

\* The registry of Supervisor::run admits one executor of an item at a time,
\* however many leases of it were lost.
THEOREM OneExecutor == Spec => []SingleExecutor
<1>1. IInv => SingleExecutor
  BY DEF IInv
<1> QED
  BY <1>1, Invariance, PTL

\* A run with a wait row has no result, and waits for its direct children only.
THEOREM WaitsMatchRuns == Spec => []WaitRowsMatchRuns
<1>1. IInv => WaitRowsMatchRuns
  BY DEF IInv
<1> QED
  BY <1>1, Invariance, PTL

\* No worker session runs while its run has an outstanding wait: the children
\* of a resumed or recovered run come before its next provider call.
THEOREM ChildrenFirst == Spec => []ChildrenBeforeParent
<1>1. IInv => ChildrenBeforeParent
  BY DEF IInv, TasksMatchRows, ChildrenBeforeParent
<1> QED
  BY <1>1, Invariance, PTL

-----------------------------------------------------------------------------
(* Settled items and finished runs: no step reopens them.                  *)

ItemsStay ==
    \A w \in Work : work[w].status \in WorkTerminal => work'[w].status = work[w].status
RunsStay ==
    \A r \in Runs : run[r].status \in RunTerminal => run'[r].status = run[r].status

LEMMA SettledItemsStay ==
  ASSUME TypeOK, [Next]_vars
  PROVE  ItemsStay
<1> USE DEF ItemsStay
<1>1. ASSUME NEW r \in Runs, StopWaitingChildren(r) PROVE ItemsStay
  <2>1. \A w \in Work : \A d : work[w].status \in WorkTerminal =>
                                  StopChild(w, d).status = work[w].status
    BY DEF StopChild, TypeOK, WorkRow, WorkTerminal
  <2> QED
    BY <1>1, <2>1 DEF StopWaitingChildren
<1>2. ASSUME NEW r \in Runs, NEW w \in Work, RequestWork(r, w) PROVE ItemsStay
  BY <1>2 DEF RequestWork, TypeOK, WorkTerminal
<1>3. ASSUME NEW s \in Schedulers, NEW w \in Work, NEW F \in SUBSET Work, ClaimWork(s, w, F)
      PROVE  ItemsStay
  BY <1>3 DEF ClaimWork, Exhausted, Claimable, Due, WorkTerminal
<1>4. ASSUME NEW s \in Schedulers, ClaimNothing(s) PROVE ItemsStay
  BY <1>4 DEF ClaimNothing, Exhausted, Claimable, Due, WorkTerminal
<1>5. ASSUME NEW s \in Schedulers, FinishWork(s) PROVE ItemsStay
  BY <1>5 DEF FinishWork, MayFinish, TypeOK, WorkTerminal
<1>6. ASSUME NEW w \in Work, LeaseExpires(w) PROVE ItemsStay
  BY <1>6 DEF LeaseExpires, TypeOK, WorkTerminal
<1>7. CASE CrashAndRecover
  <2>1. \A w \in Work : work[w].status \in WorkTerminal => RecoveredWork(w).status = work[w].status
    BY DEF RecoveredWork, TypeOK, WorkRow, WorkTerminal
  <2> QED
    BY <1>7, <2>1 DEF CrashAndRecover
<1>8. CASE UNCHANGED work
  BY <1>8
<1>9. ASSUME NEW r \in Runs, RunStep(r) PROVE ItemsStay
  BY <1>1, <1>2, <1>8, <1>9
  DEF RunStep, BeginRun, BeginRunDenied, ReconcileEffects, StopTask, EnterLoop, AcquireSlot,
      ResumeWaiting, FinishRun, PassCancel, HostCancel, ParkRun, EndSession
<1>10. ASSUME NEW s \in Schedulers, SchedulerStep(s) PROVE ItemsStay
  BY <1>3, <1>4, <1>5, <1>8, <1>10
  DEF SchedulerStep, ReuseResult, RunClaimed, RenewWork, AbandonDrain
<1> QED
  BY <1>6, <1>7, <1>8, <1>9, <1>10 DEF Next, StartRoot, DeadlinePasses, vars

LEMMA FinishedRunsStay ==
  ASSUME IInv, [Next]_vars
  PROVE  RunsStay
<1> USE DEF RunsStay, IInv
<1>1. ASSUME NEW r \in Runs, BeginRun(r) PROVE RunsStay
  BY <1>1 DEF BeginRun, CanBegin, TypeOK, RunTerminal, Dispositions
<1>2. ASSUME NEW r \in Runs, ResumeWaiting(r) \/ \E W \in SUBSET Work : ParkRun(r, W)
      PROVE  RunsStay
  <2>1. run[r].status \notin RunTerminal
    BY <1>2 DEF ResumeWaiting, ParkRun, TasksMatchRows, RunTerminal, Dispositions
  <2>2. \A q \in Runs : q # r => run'[q] = run[q]
    BY <1>2 DEF ResumeWaiting, ParkRun, TypeOK
  <2> QED
    BY <2>1, <2>2
<1>3. ASSUME NEW r \in Runs, FinishRun(r) PROVE RunsStay
  BY <1>3 DEF FinishRun, TypeOK, RunTerminal, Dispositions
<1>4. CASE CrashAndRecover
  <2>1. \A r \in Runs : run[r].status \in RunTerminal => RecoveredRun(r).status = run[r].status
    BY DEF RecoveredRun, TypeOK, RunRow, RunTerminal, Dispositions
  <2> QED
    BY <1>4, <2>1 DEF CrashAndRecover
<1>5. CASE UNCHANGED run
  BY <1>5
<1>6. ASSUME NEW r \in Runs, RunStep(r) PROVE RunsStay
  BY <1>1, <1>2, <1>3, <1>5, <1>6
  DEF RunStep, BeginRunDenied, ReconcileEffects, StopTask, EnterLoop, AcquireSlot,
      StopWaitingChildren, PassCancel, HostCancel, RequestWork, EndSession
<1>7. ASSUME NEW s \in Schedulers, SchedulerStep(s) PROVE RunsStay
  BY <1>5, <1>7, Zenon
  DEF SchedulerStep, ClaimWork, ClaimNothing, ReuseResult, RunClaimed, RenewWork, FinishWork,
      AbandonDrain
<1> QED
  BY <1>4, <1>5, <1>6, <1>7 DEF Next, StartRoot, LeaseExpires, DeadlinePasses, vars

\* Settled items and finished runs stay as they are: no claim, late
\* acknowledgement, stopped parent or recovery changes them.
THEOREM SettledForGood == Spec => SettledIsFinal
<1>1. IInv /\ [Next]_vars => [ItemsStay /\ RunsStay]_vars
  BY SettledItemsStay, FinishedRunsStay DEF IInv
<1>2. Spec => [][ItemsStay /\ RunsStay]_vars
  BY <1>1, Invariance, PTL DEF Spec
<1> QED
  BY <1>2, PTL DEF SettledIsFinal, ItemsStay, RunsStay

-----------------------------------------------------------------------------
(* Waits are durable.                                                      *)

WaitsStay ==
    \A r \in Runs : waits[r] # {} /\ waits'[r] # waits[r] =>
        ~WaitRequired(r) \/ run'[r].status \in RunTerminal

LEMMA WaitsStayUnlessDone ==
  ASSUME IInv, [Next]_vars
  PROVE  WaitsStay
<1> USE DEF WaitsStay, IInv
<1>1. ASSUME NEW r \in Runs, ResumeWaiting(r) PROVE WaitsStay
  BY <1>1 DEF ResumeWaiting, TypeOK
<1>2. ASSUME NEW r \in Runs, NEW W \in SUBSET Work, ParkRun(r, W) PROVE WaitsStay
  BY <1>2 DEF ParkRun, TypeOK
<1>3. ASSUME NEW r \in Runs, FinishRun(r) PROVE WaitsStay
  <2>1. task[r].disp \in Dispositions
    BY DEF TypeOK, Task
  <2>2. \A q \in Runs : q # r => waits'[q] = waits[q]
    BY <1>3 DEF FinishRun, TypeOK
  <2>3. waits'[r] # waits[r] =>
           task[r].disp # "interrupted" /\ run'[r].status = task[r].disp
    BY <1>3 DEF FinishRun, WaitAfter, TypeOK
  <2> QED
    BY <2>1, <2>2, <2>3 DEF RunTerminal
<1>4. CASE UNCHANGED waits
  BY <1>4
<1>5. ASSUME NEW r \in Runs, RunStep(r) PROVE WaitsStay
  BY <1>1, <1>2, <1>3, <1>4, <1>5
  DEF RunStep, BeginRun, BeginRunDenied, ReconcileEffects, StopTask, EnterLoop, AcquireSlot,
      StopWaitingChildren, PassCancel, HostCancel, RequestWork, EndSession
<1>6. ASSUME NEW s \in Schedulers, SchedulerStep(s) PROVE WaitsStay
  BY <1>4, <1>6, Zenon
  DEF SchedulerStep, ClaimWork, ClaimNothing, ReuseResult, RunClaimed, RenewWork, FinishWork,
      AbandonDrain
<1> QED
  BY <1>4, <1>5, <1>6 DEF Next, StartRoot, LeaseExpires, DeadlinePasses, CrashAndRecover, vars

\* A wait row outlives interruptions and restarts: it goes only when every
\* child has settled, or when the parent has its final result.
THEOREM WaitsAreDurable == Spec => WaitIsDurable
<1>1. IInv /\ [Next]_vars => [WaitsStay]_vars
  BY WaitsStayUnlessDone
<1>2. Spec => [][WaitsStay]_vars
  BY <1>1, Invariance, PTL DEF Spec
<1> QED
  BY <1>2, PTL DEF WaitIsDurable, WaitsStay

-----------------------------------------------------------------------------
(* Completed items have results.                                           *)

Successes == {"completed", "abstained"}

\* A scheduler that is about to acknowledge a success holds the saved result.
SettlementsHaveResults ==
    \A s \in Schedulers :
        sched[s].at = "settle" /\ sched[s].disp \in Successes =>
            run[sched[s].work].status = sched[s].disp

\* Only an acknowledgement completes an item.
LEMMA CompletedByAcknowledgement ==
  ASSUME TypeOK, [Next]_vars, NEW w \in Work,
         work'[w].status = "completed", work[w].status # "completed"
  PROVE  \E s \in Schedulers : /\ sched[s].at = "settle" /\ sched[s].work = w
                               /\ sched[s].disp \in Successes
<1> DEFINE Goal == \E s \in Schedulers : /\ sched[s].at = "settle" /\ sched[s].work = w
                                        /\ sched[s].disp \in Successes
<1>1. ASSUME NEW s \in Schedulers, FinishWork(s) PROVE Goal
  <2> DEFINE status == WorkStatusOf(sched[s].disp)
  <2>1. sched[s].at = "settle"
    BY <1>1 DEF FinishWork
  <2>2. sched[s].work = w
    BY <1>1 DEF FinishWork, TypeOK
  <2>3. [work[w] EXCEPT !.status = status, !.alloc = status].status = status
    BY DEF TypeOK, WorkRow
  <2>4. work' = work \/ work' = [work EXCEPT ![w] =
                                   [work[w] EXCEPT !.status = status, !.alloc = status]]
    BY <1>1, <2>2 DEF FinishWork, TypeOK
  <2>5. status = "completed"
    BY <2>3, <2>4 DEF TypeOK
  <2> QED
    BY <2>1, <2>2, <2>5 DEF WorkStatusOf, Successes
<1>2. ASSUME NEW r \in Runs, StopWaitingChildren(r) PROVE FALSE
  <2>1. \A d \in {"cancelled", "exhausted"} : StopChild(w, d).status # "completed"
    BY DEF StopChild, TypeOK, WorkRow
  <2> QED
    BY <1>2, <2>1 DEF StopWaitingChildren
<1>3. ASSUME NEW r \in Runs, NEW x \in Work, RequestWork(r, x) PROVE FALSE
  BY <1>3 DEF RequestWork, TypeOK
<1>4. Failing(w).status # "completed"
  BY DEF Failing, TypeOK, WorkRow
<1>5. ASSUME NEW s \in Schedulers, NEW x \in Work, NEW F \in SUBSET Work, ClaimWork(s, x, F)
      PROVE  FALSE
  <2>1. Claiming(w, s).status # "completed"
    BY DEF Claiming, TypeOK, WorkRow
  <2> QED
    BY <1>4, <1>5, <2>1 DEF ClaimWork
<1>6. ASSUME NEW s \in Schedulers, ClaimNothing(s) PROVE FALSE
  BY <1>4, <1>6 DEF ClaimNothing
<1>7. ASSUME NEW x \in Work, LeaseExpires(x) PROVE FALSE
  <2>1. [work[x] EXCEPT !.leased = FALSE].status = work[x].status
    BY DEF TypeOK, WorkRow
  <2> QED
    BY <1>7, <2>1 DEF LeaseExpires, TypeOK
<1>8. ASSUME CrashAndRecover PROVE FALSE
  <2>1. RecoveredWork(w).status # "completed"
    BY DEF RecoveredWork, TypeOK, WorkRow
  <2> QED
    BY <1>8, <2>1 DEF CrashAndRecover
<1>9. ASSUME UNCHANGED work PROVE FALSE
  BY <1>9
<1>10. ASSUME NEW r \in Runs, RunStep(r) PROVE FALSE
  BY <1>2, <1>3, <1>9, <1>10
  DEF RunStep, BeginRun, BeginRunDenied, ReconcileEffects, StopTask, EnterLoop, AcquireSlot,
      ResumeWaiting, FinishRun, PassCancel, HostCancel, ParkRun, EndSession
<1>11. ASSUME NEW s \in Schedulers, SchedulerStep(s) PROVE Goal
  BY <1>1, <1>5, <1>6, <1>9, <1>11
  DEF SchedulerStep, ReuseResult, RunClaimed, RenewWork, AbandonDrain
<1> QED
  BY <1>7, <1>8, <1>9, <1>10, <1>11 DEF Next, StartRoot, DeadlinePasses, vars

\* A scheduler comes to its acknowledgement from a run that ended, or from a
\* result saved earlier; any other step leaves it there with the same result.
LEMMA SettlementsStep ==
  ASSUME IInv, SettlementsHaveResults, [Next]_vars
  PROVE  SettlementsHaveResults'
<1> USE DEF IInv, SettlementsHaveResults
<1>0. RunsStay /\ Successes \subseteq RunTerminal
  BY FinishedRunsStay DEF Successes, RunTerminal, Dispositions
<1>1. ASSUME \A s \in Schedulers : sched'[s].at = "settle" => sched'[s] = sched[s]
      PROVE  SettlementsHaveResults'
  BY <1>0, <1>1 DEF RunsStay, RunningJobsHaveTasks, Runs
<1>2. ASSUME NEW r \in Runs, FinishRun(r) PROVE SettlementsHaveResults'
  <2> DEFINE active == run[r].status \in {"running", "waiting"}
             D == IF active THEN task[r].disp ELSE run[r].status
  <2>1. run'[r].status = D
    BY <1>2 DEF FinishRun, TypeOK
  <2>2. Deliver(r, D)
    BY <1>2 DEF FinishRun
  <2>3. \A s \in Schedulers :
           /\ [sched[s] EXCEPT !.at = "settle", !.disp = D].disp = D
           /\ [sched[s] EXCEPT !.at = "settle", !.disp = D].work = sched[s].work
    BY DEF TypeOK, Scheduler
  <2>4. \A s \in Schedulers :
           IF s \in Caller(r) THEN sched'[s].disp = D /\ sched'[s].work = r
                              ELSE sched'[s] = sched[s]
    BY <2>2, <2>3 DEF Deliver, Caller
  <2> QED
    BY <1>0, <2>1, <2>4 DEF RunsStay, RunningJobsHaveTasks, Runs
<1>3. ASSUME NEW s \in Schedulers, ReuseResult(s) PROVE SettlementsHaveResults'
  <2> DEFINE D == run[sched[s].work].status
  <2>1. sched' = [sched EXCEPT ![s] = [sched[s] EXCEPT !.at = "settle", !.disp = D]]
    BY <1>3 DEF ReuseResult, TypeOK
  <2>2. /\ [sched[s] EXCEPT !.at = "settle", !.disp = D].disp = D
        /\ [sched[s] EXCEPT !.at = "settle", !.disp = D].work = sched[s].work
    BY DEF TypeOK, Scheduler
  <2>3. sched'[s].disp = D /\ sched'[s].work = sched[s].work
        /\ \A t \in Schedulers : t # s => sched'[t] = sched[t]
    BY <2>1, <2>2 DEF TypeOK
  <2>4. run' = run
    BY <1>3 DEF ReuseResult
  <2> QED
    BY <2>3, <2>4
<1>4. ASSUME NEW r \in Runs, NEW d \in Dispositions, TaskFails(r, d)
      PROVE  \A s \in Schedulers : sched'[s].at = "settle" => sched'[s] = sched[s]
  BY <1>4 DEF TaskFails, NoJob
<1>5. ASSUME NEW S, NEW d \in Dispositions, StopScheduler(S, d)
      PROVE  \A s \in Schedulers : sched'[s].at = "settle" => sched'[s] = sched[s]
  BY <1>5, Zenon DEF StopScheduler, NoJob
<1>6. ASSUME NEW r \in Runs, RunStep(r) PROVE SettlementsHaveResults'
  <2>1. CASE FinishRun(r)
    BY <1>2, <2>1
  <2>2. CASE BeginRunDenied(r) \/ ReconcileEffects(r)
    BY <1>1, <1>4, <2>2 DEF BeginRunDenied, ReconcileEffects, Dispositions
  <2>3. CASE UNCHANGED sched
    BY <1>1, <2>3
  <2> QED
    BY <1>6, <2>1, <2>2, <2>3, Zenon
    DEF RunStep, BeginRun, StopTask, EnterLoop, AcquireSlot, ResumeWaiting,
        StopWaitingChildren, PassCancel, HostCancel, RequestWork, ParkRun, EndSession
<1>7. ASSUME NEW s \in Schedulers, SchedulerStep(s) PROVE SettlementsHaveResults'
  <2>1. CASE ReuseResult(s)
    BY <1>3, <2>1
  <2>2. CASE \E w \in Work, F \in SUBSET Work : ClaimWork(s, w, F)
    <3>1. \A w \in Work : [NoJob EXCEPT !.at = "claimed", !.work = w].at = "claimed"
      BY DEF NoJob
    <3> QED
      BY <1>1, <2>2, <3>1 DEF ClaimWork, TypeOK
  <2>3. CASE RunClaimed(s)
    <3>1. [sched[s] EXCEPT !.at = "running"].at = "running"
      BY DEF TypeOK, Scheduler
    <3> QED
      BY <1>1, <1>5, <2>3, <3>1 DEF RunClaimed, TypeOK, Dispositions
  <2>4. CASE RenewWork(s)
    <3>1. [sched[s] EXCEPT !.lost = TRUE].at = sched[s].at
      BY DEF TypeOK, Scheduler
    <3> QED
      BY <1>1, <2>4, <3>1 DEF RenewWork, TypeOK
  <2>5. CASE FinishWork(s) \/ AbandonDrain(s)
    BY <1>1, <1>5, <2>5 DEF FinishWork, AbandonDrain, NoJob, TypeOK, Dispositions
  <2>6. CASE ClaimNothing(s)
    BY <1>1, <2>6 DEF ClaimNothing
  <2> QED
    BY <1>7, <2>1, <2>2, <2>3, <2>4, <2>5, <2>6 DEF SchedulerStep
<1>8. CASE CrashAndRecover
  BY <1>8 DEF CrashAndRecover, NoJob
<1>9. CASE UNCHANGED sched
  BY <1>1, <1>9
<1> QED
  BY <1>6, <1>7, <1>8, <1>9 DEF Next, StartRoot, LeaseExpires, DeadlinePasses, vars

\* An item is completed only with a saved completed or abstained result of its
\* run, whoever acknowledges it and however many leases were lost.
THEOREM CompletedWithResult == Spec => []CompletedHasResult
<1> DEFINE CInv == SettlementsHaveResults /\ CompletedHasResult
<1>1. Init => CInv
  BY DEF Init, NoJob, SettlementsHaveResults, CompletedHasResult
<1>2. IInv /\ CInv /\ [Next]_vars => CInv'
  <2> SUFFICES ASSUME IInv, CInv, [Next]_vars PROVE CInv'
    OBVIOUS
  <2>1. RunsStay /\ Successes \subseteq RunTerminal
    BY FinishedRunsStay DEF Successes, RunTerminal, Dispositions
  <2>2. ASSUME NEW w \in Work, work'[w].status = "completed"
        PROVE  run[w].status \in Successes
    BY <2>2, CompletedByAcknowledgement
    DEF IInv, SettlementsHaveResults, CompletedHasResult, Successes
  <2>3. CompletedHasResult'
    BY <2>1, <2>2 DEF CompletedHasResult, RunsStay, Successes, Runs
  <2> QED
    BY <2>3, SettlementsStep
<1>3. CInv => CompletedHasResult
  OBVIOUS
<1> QED
  BY <1>1, <1>2, <1>3, Invariance, PTL DEF Spec
-----------------------------------------------------------------------------
(* What a step may do to a work item, and what follows for leases, waits   *)
(* and stopped parents.                                                    *)

Claimed(w) == \E s \in Schedulers : w \in Claimable(s) /\ work'[w] = Claiming(w, s)
GivenUp(w) == \E s \in Schedulers : w \in Claimable(s) /\ work'[w] = Failing(w)
Acknowledged(w) ==
    \E s \in Schedulers :
        /\ sched[s].at = "settle" /\ sched[s].work = w /\ MayFinish(s, w)
        /\ \E d \in Dispositions :
              work'[w] = [work[w] EXCEPT !.status = WorkStatusOf(d), !.alloc = WorkStatusOf(d)]
ClosedByParent(w) == \E d \in {"cancelled", "exhausted"} : work'[w] = StopChild(w, d)
Released(w) == work'[w] = [work[w] EXCEPT !.leased = FALSE]
Recovered(w) == work'[w] = RecoveredWork(w) /\ crashes' # crashes
Step(w) ==
    \/ work'[w] = work[w] \/ work[w].status = "none"
    \/ Claimed(w) \/ GivenUp(w) \/ Acknowledged(w)
    \/ ClosedByParent(w) \/ Released(w) \/ Recovered(w)

LEMMA ItemStep ==
  ASSUME TypeOK, [Next]_vars, NEW w \in Work
  PROVE  Step(w)
<1>1. CASE UNCHANGED work
  BY <1>1 DEF Step
<1>2. ASSUME NEW r \in Runs, RunStep(r) PROVE Step(w)
  <2>1. CASE StopWaitingChildren(r)
    BY <2>1 DEF StopWaitingChildren, ClosedByParent, Step
  <2>2. CASE \E x \in Work : RequestWork(r, x)
    BY <2>2 DEF RequestWork, Step, TypeOK
  <2> QED
    BY <1>1, <1>2, <2>1, <2>2
    DEF RunStep, BeginRun, BeginRunDenied, ReconcileEffects, StopTask, EnterLoop, AcquireSlot,
        ResumeWaiting, FinishRun, PassCancel, HostCancel, ParkRun, EndSession
<1>3. ASSUME NEW s \in Schedulers, SchedulerStep(s) PROVE Step(w)
  <2>1. CASE \E x \in Work, F \in SUBSET Work : ClaimWork(s, x, F)
    BY <2>1 DEF ClaimWork, Exhausted, Claimed, GivenUp, Step
  <2>2. CASE ClaimNothing(s)
    BY <2>2 DEF ClaimNothing, Exhausted, GivenUp, Step
  <2>3. CASE FinishWork(s)
    <3>1. sched[s].disp \in Dispositions
      BY DEF TypeOK, Scheduler
    <3> QED
      BY <2>3, <3>1, ZenonT(60) DEF FinishWork, Acknowledged, Step, TypeOK
  <2> QED
    BY <1>1, <1>3, <2>1, <2>2, <2>3
    DEF SchedulerStep, ReuseResult, RunClaimed, RenewWork, AbandonDrain
<1>4. ASSUME NEW x \in Work, LeaseExpires(x) PROVE Step(w)
  BY <1>4 DEF LeaseExpires, Released, Step, TypeOK
<1>5. CASE CrashAndRecover
  BY <1>5, WorkQueueAssumption DEF CrashAndRecover, Recovered, Step, TypeOK
<1> QED
  BY <1>1, <1>2, <1>3, <1>4, <1>5 DEF Next, StartRoot, DeadlinePasses, vars

\* The fields of the rows that these steps write.
LEMMA ItemFields ==
  ASSUME TypeOK, NEW w \in Work
  PROVE  /\ \A s \in Schedulers :
               /\ Claiming(w, s).status = "running" /\ Claiming(w, s).owner = s
               /\ Claiming(w, s).parent = work[w].parent /\ Claiming(w, s).alloc = work[w].alloc
         /\ Failing(w).status = "failed" /\ Failing(w).attempts = work[w].attempts
         /\ Failing(w).parent = work[w].parent
         /\ \A d \in Dispositions :
               LET row == [work[w] EXCEPT !.status = WorkStatusOf(d), !.alloc = WorkStatusOf(d)]
               IN  /\ row.status = WorkStatusOf(d) /\ row.alloc = WorkStatusOf(d)
                   /\ row.parent = work[w].parent /\ row.attempts = work[w].attempts
                   /\ WorkStatusOf(d) \notin {"none", "queued", "open"}
         /\ \A d \in {"cancelled", "exhausted"} :
               /\ StopChild(w, d).status =
                     IF work[w].status \in {"queued", "interrupted"} THEN d ELSE work[w].status
               /\ StopChild(w, d).alloc = d /\ StopChild(w, d).parent = work[w].parent
               /\ StopChild(w, d).attempts = work[w].attempts
         /\ LET row == [work[w] EXCEPT !.leased = FALSE]
            IN  /\ row.status = work[w].status /\ row.alloc = work[w].alloc
                /\ row.parent = work[w].parent /\ row.attempts = work[w].attempts
         /\ RecoveredWork(w).status =
               IF work[w].status = "running" THEN "interrupted" ELSE work[w].status
         /\ RecoveredWork(w).alloc = work[w].alloc
         /\ RecoveredWork(w).parent = work[w].parent
         /\ RecoveredWork(w).attempts = work[w].attempts
BY DEF TypeOK, WorkRow, Claiming, Failing, StopChild, RecoveredWork, WorkStatusOf, Dispositions

\* While its lease is in force an item leaves the status running only by the
\* acknowledgement of its recorded owner, or by a restart of the host.
LeaseStep ==
    \A w \in Work :
       HoldsLease(work[w].owner, w) /\ work'[w].status # "running" /\ crashes' = crashes =>
          /\ sched[work[w].owner].at = "settle"
          /\ sched[work[w].owner].work = w

LEMMA LeaseKept ==
  ASSUME TypeOK, [Next]_vars
  PROVE  LeaseStep
<1> SUFFICES ASSUME NEW w \in Work, HoldsLease(work[w].owner, w),
                    work'[w].status # "running", crashes' = crashes
             PROVE  sched[work[w].owner].at = "settle" /\ sched[work[w].owner].work = w
  BY DEF LeaseStep
<1> DEFINE Goal == sched[work[w].owner].at = "settle" /\ sched[work[w].owner].work = w
<1>1. work[w].status = "running" /\ work[w].leased /\ ~Due(w)
  BY DEF HoldsLease, Due
<1>2. \A s \in Schedulers : w \notin Claimable(s)
  BY <1>1 DEF Claimable
<1>3. work'[w] # work[w] /\ ~ClosedByParent(w) /\ ~Released(w)
  <2>1. work'[w] # work[w]
    BY <1>1
  <2>2. ~ClosedByParent(w)
    BY <1>1, ItemFields DEF ClosedByParent
  <2>3. ~Released(w)
    BY <1>1 DEF Released, TypeOK, WorkRow
  <2> QED
    BY <2>1, <2>2, <2>3
<1> QED
  BY <1>1, <1>2, <1>3, ItemStep
  DEF Step, Claimed, GivenUp, Acknowledged, MayFinish, Recovered

\* A live lease ends with its owner: nobody takes a running item away from the
\* scheduler that renews it, neither another drain nor a parent that stops.
THEOREM LeasesEndWithOwners == Spec => LiveLeaseEndsWithItsOwner
<1>1. IInv /\ [Next]_vars => [LeaseStep]_vars
  BY LeaseKept DEF IInv
<1>2. Spec => [][LeaseStep]_vars
  BY <1>1, Invariance, PTL DEF Spec
<1> QED
  BY <1>2, PTL DEF LiveLeaseEndsWithItsOwner, LeaseStep

\* A wait names items that its own run requested, hence no item is in two waits.
WaitsAreChildren == \A r \in Runs : waits[r] \subseteq ChildrenOf(r)

LEMMA WaitsStep ==
  ASSUME TypeOK, [Next]_vars, NEW r \in Runs
  PROVE  \/ waits'[r] \subseteq waits[r]
         \/ waits'[r] \subseteq ChildrenOf(r) /\ UNCHANGED work
<1> DEFINE Goal == \/ waits'[r] \subseteq waits[r]
                   \/ waits'[r] \subseteq ChildrenOf(r) /\ UNCHANGED work
<1>1. ASSUME waits' = waits PROVE Goal
  <2>1. waits'[r] = waits[r]
    BY <1>1
  <2>2. waits'[r] \subseteq waits[r]
    BY <2>1
  <2> QED
    BY <2>2
<1>2. ASSUME NEW q \in Runs, RunStep(q) PROVE Goal
  <2>1. CASE \E W \in SUBSET Work : ParkRun(q, W)
    BY <2>1 DEF ParkRun, TypeOK
  <2>2. CASE ResumeWaiting(q)
    BY <2>2 DEF ResumeWaiting, TypeOK
  <2>3. CASE FinishRun(q)
    BY <2>3 DEF FinishRun, WaitAfter, TypeOK
  <2> QED
    BY <1>1, <1>2, <2>1, <2>2, <2>3
    DEF RunStep, BeginRun, BeginRunDenied, ReconcileEffects, StopTask, EnterLoop, AcquireSlot,
        StopWaitingChildren, PassCancel, HostCancel, RequestWork, EndSession
<1> QED
  BY <1>1, <1>2, Zenon
  DEF Next, StartRoot, SchedulerStep, ClaimWork, ClaimNothing, ReuseResult, RunClaimed,
      RenewWork, FinishWork, AbandonDrain, LeaseExpires, DeadlinePasses, CrashAndRecover, vars

LEMMA ChildrenStay ==
  ASSUME TypeOK, [Next]_vars, NEW w \in Work, work[w].status # "none"
  PROVE  work'[w].status # "none" /\ work'[w].parent = work[w].parent
<1> DEFINE Goal == work'[w].status # "none" /\ work'[w].parent = work[w].parent
<1>1. Claimed(w) => Goal
  BY ItemFields DEF Claimed
<1>2. GivenUp(w) => Goal
  BY ItemFields DEF GivenUp
<1>3. Acknowledged(w) => Goal
  BY ItemFields DEF Acknowledged
<1>4. ClosedByParent(w) => Goal
  BY ItemFields DEF ClosedByParent
<1>5. Released(w) => Goal
  BY ItemFields DEF Released
<1>6. Recovered(w) => Goal
  BY ItemFields DEF Recovered
<1> QED
  BY <1>1, <1>2, <1>3, <1>4, <1>5, <1>6, ItemStep DEF Step

LEMMA WaitedAreChildren == Spec => []WaitsAreChildren
<1>1. Init => WaitsAreChildren
  BY DEF Init, WaitsAreChildren
<1>2. TypeOK /\ WaitsAreChildren /\ [Next]_vars => WaitsAreChildren'
  BY WaitsStep, ChildrenStay DEF WaitsAreChildren, ChildrenOf
<1> QED
  BY <1>1, <1>2, TypeCorrect, PTL DEF Spec

\* Only the scheduler of the parent claims an item that its parent waits for.
ReservationStep ==
    \A r \in Runs : \A w \in waits[r] :
       work'[w].attempts # work[w].attempts => work'[w].owner = r

LEMMA ReservationKept ==
  ASSUME TypeOK, WaitsAreChildren, [Next]_vars
  PROVE  ReservationStep
<1> SUFFICES ASSUME NEW r \in Runs, NEW w \in waits[r], work'[w].attempts # work[w].attempts
             PROVE  work'[w].owner = r
  BY DEF ReservationStep
<1>1. w \in Work /\ work[w].status # "none" /\ work[w].parent = r
  BY DEF TypeOK, WaitsAreChildren, ChildrenOf
<1>2. Claimed(w)
  <2> USE <1>1
  <2>1. ~GivenUp(w)
    BY ItemFields DEF GivenUp
  <2>2. ~Acknowledged(w)
    BY DEF Acknowledged, TypeOK, WorkRow
  <2>3. ~ClosedByParent(w)
    BY ItemFields DEF ClosedByParent
  <2>4. ~Released(w)
    <3>1. [work[w] EXCEPT !.leased = FALSE].attempts = work[w].attempts
      BY ItemFields
    <3> QED
      BY <3>1 DEF Released
  <2>5. ~Recovered(w)
    BY ItemFields DEF Recovered
  <2> QED
    BY <2>1, <2>2, <2>3, <2>4, <2>5, ItemStep DEF Step
<1>3. PICK s \in Schedulers : w \in Claimable(s) /\ work'[w] = Claiming(w, s)
  BY <1>2 DEF Claimed
<1>4. s \in Runs /\ w \in waits[s]
  BY <1>3 DEF Claimable, Schedulers
<1>5. s = r
  BY <1>1, <1>4 DEF WaitsAreChildren, ChildrenOf
<1> QED
  BY <1>1, <1>3, <1>5, ItemFields

\* However many drains there are, a child held by a wait is left to its parent.
THEOREM Reservations == Spec => WaitedChildrenAreReserved
<1>1. TypeOK /\ WaitsAreChildren /\ [Next]_vars => [ReservationStep]_vars
  BY ReservationKept
<1>2. Spec => [][ReservationStep]_vars
  BY <1>1, TypeCorrect, WaitedAreChildren, PTL DEF Spec
<1> QED
  BY <1>2, PTL DEF WaitedChildrenAreReserved, ReservationStep

\* Between the closing of its children and its own result, a run that stops has
\* no queued child in its wait and no unsettled one with an open allocation.
ClosedChild(w) ==
    work[w].status # "queued" /\ (work[w].status \in Unsettled => work[w].alloc # "open")
ClosingRunsClosed ==
    \A r \in Runs : task[r].at = "closing" => \A w \in waits[r] : ClosedChild(w)

LEMMA ClosedChildrenStay ==
  ASSUME TypeOK, [Next]_vars, NEW w \in Work, work[w].status # "none", ClosedChild(w)
  PROVE  ClosedChild(w)'
<1>1. \A d \in {"cancelled", "exhausted"} : d \notin {"queued", "open"}
  OBVIOUS
<1>2. \A s \in Schedulers : w \in Claimable(s) => work[w].status \in Unsettled
  BY DEF Claimable, Due, Unsettled
<1>3. Claimed(w) => ClosedChild(w)'
  BY <1>2, ItemFields DEF Claimed, ClosedChild
<1>4. GivenUp(w) => ClosedChild(w)'
  BY ItemFields DEF GivenUp, ClosedChild, Unsettled
<1>5. Acknowledged(w) => ClosedChild(w)'
  BY ItemFields DEF Acknowledged, ClosedChild
<1>6. ClosedByParent(w) => ClosedChild(w)'
  BY <1>1, ItemFields DEF ClosedByParent, ClosedChild
<1>7. Released(w) => ClosedChild(w)'
  BY ItemFields DEF Released, ClosedChild
<1>8. Recovered(w) => ClosedChild(w)'
  BY ItemFields DEF Recovered, ClosedChild, Unsettled
<1> QED
  BY <1>3, <1>4, <1>5, <1>6, <1>7, <1>8, ItemStep DEF Step, ClosedChild

\* A step brings a run to its closing place only through StopWaitingChildren.
LEMMA ClosingStep ==
  ASSUME TypeOK, [Next]_vars, NEW r \in Runs, task'[r].at = "closing"
  PROVE  \/ task[r].at = "closing" /\ waits'[r] = waits[r]
         \/ StopWaitingChildren(r)
<1> DEFINE Goal == \/ task[r].at = "closing" /\ waits'[r] = waits[r]
                   \/ StopWaitingChildren(r)
<1>0. \A t \in Task : /\ [t EXCEPT !.cancel = TRUE].at = t.at
                      /\ \A p \in TaskPlaces : [t EXCEPT !.at = p].at = p
                      /\ \A d : [t EXCEPT !.at = "ending", !.disp = d].at = "ending"
                      /\ [NoTask EXCEPT !.at = "starting"].at = "starting"
                      /\ NoTask.at = "idle"
  BY DEF Task, NoTask
<1>1. ASSUME task'[r].at = task[r].at, waits'[r] = waits[r] PROVE Goal
  BY <1>1
<1>2. ASSUME NEW q \in Runs, NEW d, TaskFails(q, d) PROVE task'[r].at \in {"idle", "ending", task[r].at}
  BY <1>0, <1>2 DEF TaskFails, TypeOK
<1>3. ASSUME NEW S, NEW d, StopScheduler(S, d) PROVE task'[r].at \in {"ending", task[r].at}
  BY <1>0, <1>3 DEF StopScheduler, TypeOK
<1>4. ASSUME NEW q \in Runs, NEW d, End(q, d) PROVE task'[r].at \in {"ending", task[r].at}
  BY <1>0, <1>4 DEF End, TypeOK
<1>5. ASSUME NEW q \in Runs, NEW p \in TaskPlaces, task' = [task EXCEPT ![q].at = p]
      PROVE  task'[r].at = IF q = r THEN p ELSE task[r].at
  BY <1>0, <1>5 DEF TypeOK
<1>11. ASSUME NEW x, task' = [task EXCEPT ![x].cancel = TRUE] PROVE task'[r].at = task[r].at
  <2>1. task'[r] = IF x = r THEN [task[r] EXCEPT !.cancel = TRUE] ELSE task[r]
    BY <1>11 DEF TypeOK
  <2> QED
    BY <1>0, <2>1 DEF TypeOK
<1>6. ASSUME NEW q \in Runs, RunStep(q) PROVE Goal
  <2>1. CASE StopWaitingChildren(q)
    <3>1. r # q => task'[r].at = task[r].at
      BY <1>0, <2>1 DEF StopWaitingChildren, TypeOK
    <3> QED
      BY <1>1, <2>1, <3>1 DEF StopWaitingChildren
  <2>2. CASE FinishRun(q)
    BY <1>0, <1>1, <2>2 DEF FinishRun, TypeOK
  <2>3. CASE \E W \in SUBSET Work : ParkRun(q, W)
    BY <1>1, <1>5, <2>3 DEF ParkRun, TypeOK, TaskPlaces
  <2>4. CASE ResumeWaiting(q)
    BY <1>1, <1>5, <2>4 DEF ResumeWaiting, TypeOK, TaskPlaces
  <2>5. CASE BeginRun(q) \/ EnterLoop(q) \/ AcquireSlot(q)
    BY <1>1, <1>5, <2>5 DEF BeginRun, EnterLoop, AcquireSlot, TaskPlaces
  <2>6. CASE BeginRunDenied(q) \/ ReconcileEffects(q)
    BY <1>1, <1>2, <1>4, <2>6 DEF BeginRunDenied, ReconcileEffects
  <2>7. CASE StopTask(q) \/ \E d \in Answers : EndSession(q, d)
    BY <1>1, <1>4, <2>7 DEF StopTask, EndSession
  <2>8. CASE PassCancel(q) \/ HostCancel(q)
    BY <1>1, <1>11, <2>8 DEF PassCancel, HostCancel
  <2>9. CASE \E w \in Work : RequestWork(q, w)
    BY <1>1, <2>9 DEF RequestWork
  <2> QED
    BY <1>6, <2>1, <2>2, <2>3, <2>4, <2>5, <2>6, <2>7, <2>8, <2>9 DEF RunStep
<1>7. ASSUME NEW s \in Schedulers, SchedulerStep(s) PROVE Goal
  <2>1. CASE RunClaimed(s)
    <3>1. [NoTask EXCEPT !.at = "starting", !.cancel = StopRequested(s)].at = "starting"
      BY DEF NoTask
    <3> QED
      BY <1>1, <1>3, <2>1, <3>1 DEF RunClaimed, TypeOK
  <2>2. CASE FinishWork(s)
    BY <1>1, <1>3, <2>2 DEF FinishWork
  <2>3. CASE RenewWork(s) \/ AbandonDrain(s)
    BY <1>1, <1>11, <2>3 DEF RenewWork, AbandonDrain
  <2>4. CASE UNCHANGED <<task, waits>>
    BY <1>1, <2>4
  <2> QED
    BY <1>7, <2>1, <2>2, <2>3, <2>4 DEF SchedulerStep, ClaimWork, ClaimNothing, ReuseResult
<1>8. CASE \E q \in Roots : StartRoot(q)
  BY <1>0, <1>1, <1>8 DEF StartRoot, TypeOK
<1>9. CASE CrashAndRecover
  BY <1>9 DEF CrashAndRecover, NoTask
<1>10. CASE UNCHANGED <<task, waits>>
  BY <1>1, <1>10
<1> QED
  BY <1>6, <1>7, <1>8, <1>9, <1>10 DEF Next, LeaseExpires, DeadlinePasses, vars

LEMMA ClosingClosed == Spec => []ClosingRunsClosed
<1>1. Init => ClosingRunsClosed
  BY DEF Init, NoTask, ClosingRunsClosed
<1>2. TypeOK /\ WaitsAreChildren /\ ClosingRunsClosed /\ [Next]_vars => ClosingRunsClosed'
  <2> SUFFICES ASSUME TypeOK, WaitsAreChildren, ClosingRunsClosed, [Next]_vars,
                      NEW r \in Runs, task'[r].at = "closing", NEW w \in waits'[r]
               PROVE  ClosedChild(w)'
    BY DEF ClosingRunsClosed
  <2>1. ASSUME task[r].at = "closing", waits'[r] = waits[r] PROVE ClosedChild(w)'
    BY <2>1, ClosedChildrenStay DEF ClosingRunsClosed, WaitsAreChildren, ChildrenOf
  <2>2. ASSUME StopWaitingChildren(r) PROVE ClosedChild(w)'
    <3>1. w \in waits[r] /\ w \in Work
      BY <2>2 DEF StopWaitingChildren, TypeOK
    <3>2. CASE w \in Stoppable(r)
      <4>1. \E d \in {"cancelled", "exhausted"} : work'[w] = StopChild(w, d)
        BY <2>2, <3>1, <3>2 DEF StopWaitingChildren
      <4> QED
        BY <3>1, <4>1, ItemFields DEF ClosedChild
    <3>3. CASE w \notin Stoppable(r)
      BY <2>2, <3>1, <3>3 DEF StopWaitingChildren, Stoppable, ClosedChild, Unsettled
    <3> QED
      BY <3>2, <3>3
  <2> QED
    BY <2>1, <2>2, ClosingStep
<1> QED
  BY <1>1, <1>2, TypeCorrect, WaitedAreChildren, PTL DEF Spec

\* The step with which a parked run ends cancelled or exhausted finds its wait closed.
StoppingStep ==
    \A r \in Runs : \A w \in waits[r] :
       run[r].status = "waiting" /\ run'[r].status \in {"cancelled", "exhausted"} =>
          /\ work'[w].status # "queued"
          /\ work'[w].status \in Unsettled => work'[w].alloc # "open"

LEMMA StoppingCloses ==
  ASSUME TypeOK, ClosingRunsClosed, [Next]_vars
  PROVE  StoppingStep
<1> SUFFICES ASSUME NEW r \in Runs, NEW w \in waits[r], run[r].status = "waiting",
                    run'[r].status \in {"cancelled", "exhausted"}
             PROVE  /\ work'[w].status # "queued"
                    /\ work'[w].status \in Unsettled => work'[w].alloc # "open"
  BY DEF StoppingStep
<1>1. ASSUME NEW q \in Runs, RunStep(q) PROVE FinishRun(r)
  <2>1. CASE BeginRun(q)
    BY <2>1 DEF BeginRun, ResumedStatus, TypeOK
  <2>2. CASE ResumeWaiting(q)
    <3>1. \A x \in RunRow : [x EXCEPT !.status = IF @ = "waiting" THEN "running" ELSE @].status
                               \in {"running", x.status}
      BY DEF RunRow
    <3> QED
      BY <2>2, <3>1 DEF ResumeWaiting, TypeOK
  <2>3. CASE \E W \in SUBSET Work : ParkRun(q, W)
    <3>1. \A x \in RunRow : [x EXCEPT !.status = "waiting"].status = "waiting"
      BY DEF RunRow
    <3> QED
      BY <2>3, <3>1 DEF ParkRun, TypeOK
  <2>4. CASE FinishRun(q)
    BY <2>4 DEF FinishRun, TypeOK
  <2>5. CASE UNCHANGED run
    BY <2>5
  <2> QED
    BY <1>1, <2>1, <2>2, <2>3, <2>4, <2>5
    DEF RunStep, BeginRunDenied, ReconcileEffects, StopTask, EnterLoop, AcquireSlot,
        StopWaitingChildren, PassCancel, HostCancel, RequestWork, EndSession
<1>2. ~CrashAndRecover
  <2>1. RecoveredRun(r).status = "interrupted"
    BY DEF RecoveredRun, TypeOK, RunRow
  <2> QED
    BY <2>1 DEF CrashAndRecover
<1>3. FinishRun(r)
  BY <1>1, <1>2, Zenon
  DEF Next, StartRoot, SchedulerStep, ClaimWork, ClaimNothing, ReuseResult, RunClaimed,
      RenewWork, FinishWork, AbandonDrain, LeaseExpires, DeadlinePasses, vars
<1>4. task[r].at = "closing" /\ work' = work
  BY <1>3 DEF FinishRun, Ready, TypeOK
<1> QED
  BY <1>4 DEF ClosingRunsClosed, ClosedChild

\* Whatever its children do meanwhile, a parked run that ends cancelled or
\* exhausted leaves none of them queued and none with an open allocation.
THEOREM StoppedParents == Spec => StoppedParentClosesChildren
<1>1. TypeOK /\ ClosingRunsClosed /\ [Next]_vars => [StoppingStep]_vars
  BY StoppingCloses
<1>2. Spec => [][StoppingStep]_vars
  BY <1>1, TypeCorrect, ClosingClosed, PTL DEF Spec
<1> QED
  BY <1>2, PTL DEF StoppedParentClosesChildren, StoppingStep

-----------------------------------------------------------------------------
(* Nobody waits in a circle: each wait leads one level down the tree of    *)
(* items, and the depth of that tree is bounded.                           *)

\* An item keeps its place in the tree from its request on.
LEMMA PlaceFields ==
  ASSUME TypeOK, NEW w \in Work
  PROVE  /\ \A s \in Schedulers : Claiming(w, s).depth = work[w].depth
                                  /\ Claiming(w, s).above = work[w].above
         /\ Failing(w).depth = work[w].depth /\ Failing(w).above = work[w].above
         /\ \A d \in Dispositions :
               LET row == [work[w] EXCEPT !.status = WorkStatusOf(d), !.alloc = WorkStatusOf(d)]
               IN  row.depth = work[w].depth /\ row.above = work[w].above
         /\ \A d \in {"cancelled", "exhausted"} :
               StopChild(w, d).depth = work[w].depth /\ StopChild(w, d).above = work[w].above
         /\ LET row == [work[w] EXCEPT !.leased = FALSE]
            IN  row.depth = work[w].depth /\ row.above = work[w].above
         /\ RecoveredWork(w).depth = work[w].depth /\ RecoveredWork(w).above = work[w].above
BY DEF TypeOK, WorkRow, Claiming, Failing, StopChild, RecoveredWork, WorkStatusOf, Dispositions

LEMMA PlaceStays ==
  ASSUME TypeOK, [Next]_vars, NEW w \in Work, work[w].status # "none"
  PROVE  work'[w].depth = work[w].depth /\ work'[w].above = work[w].above
<1> DEFINE Goal == work'[w].depth = work[w].depth /\ work'[w].above = work[w].above
<1>1. Claimed(w) => Goal
  BY PlaceFields DEF Claimed
<1>2. GivenUp(w) => Goal
  BY PlaceFields DEF GivenUp
<1>3. Acknowledged(w) => Goal
  BY PlaceFields DEF Acknowledged
<1>4. ClosedByParent(w) => Goal
  BY PlaceFields DEF ClosedByParent
<1>5. Released(w) => Goal
  BY PlaceFields DEF Released
<1>6. Recovered(w) => Goal
  BY PlaceFields DEF Recovered
<1> QED
  BY <1>1, <1>2, <1>3, <1>4, <1>5, <1>6, ItemStep DEF Step

\* An item that did not exist is created by a request and by nothing else.
LEMMA NewItem ==
  ASSUME TypeOK, [Next]_vars, NEW w \in Work, work[w].status = "none"
  PROVE  work'[w] = work[w] \/ \E r \in Runs : RequestWork(r, w)
<1> DEFINE Same == work'[w] = work[w]
<1>0. ~Due(w) /\ work[w].status \notin Unsettled /\ work[w].status # "running"
  BY DEF Due, Unsettled
<1>1. UNCHANGED work => Same
  OBVIOUS
<1>2. ASSUME NEW r \in Runs, RunStep(r) PROVE Same \/ \E q \in Runs : RequestWork(q, w)
  <2>1. CASE StopWaitingChildren(r)
    BY <1>0, <2>1 DEF StopWaitingChildren, Stoppable
  <2>2. CASE \E x \in Work : RequestWork(r, x)
    <3>1. PICK x \in Work : RequestWork(r, x)
      BY <2>2
    <3>2. x # w => Same
      BY <3>1 DEF RequestWork, TypeOK
    <3> QED
      BY <3>1, <3>2
  <2> QED
    BY <1>1, <1>2, <2>1, <2>2
    DEF RunStep, BeginRun, BeginRunDenied, ReconcileEffects, StopTask, EnterLoop, AcquireSlot,
        ResumeWaiting, FinishRun, PassCancel, HostCancel, ParkRun, EndSession
<1>3. ASSUME NEW s \in Schedulers, SchedulerStep(s) PROVE Same
  <2>0. w \notin Claimable(s) /\ w \notin Exhausted(s)
    BY <1>0 DEF Claimable, Exhausted
  <2>1. CASE \E x \in Work, F \in SUBSET Work : ClaimWork(s, x, F)
    BY <2>0, <2>1 DEF ClaimWork
  <2>2. CASE ClaimNothing(s)
    BY <2>0, <2>2 DEF ClaimNothing
  <2>3. CASE FinishWork(s)
    BY <1>0, <2>3 DEF FinishWork, MayFinish, TypeOK
  <2> QED
    BY <1>1, <1>3, <2>1, <2>2, <2>3
    DEF SchedulerStep, ReuseResult, RunClaimed, RenewWork, AbandonDrain
<1>4. ASSUME NEW x \in Work, LeaseExpires(x) PROVE Same
  BY <1>0, <1>4 DEF LeaseExpires, TypeOK
<1>5. CASE CrashAndRecover
  <2>1. [work[w] EXCEPT !.status = work[w].status] = work[w]
    BY DEF TypeOK, WorkRow
  <2> QED
    BY <1>0, <1>5, <2>1 DEF CrashAndRecover, RecoveredWork
<1> QED
  BY <1>1, <1>2, <1>3, <1>4, <1>5 DEF Next, StartRoot, DeadlinePasses, vars

\* A scheduler keeps its item until it is idle again, and gets one by a claim.
LEMMA JobStep ==
  ASSUME TypeOK, [Next]_vars, NEW s \in Schedulers, sched'[s].at # "idle"
  PROVE  \/ sched[s].at # "idle" /\ sched'[s].work = sched[s].work
         \/ \E w \in Work, F \in SUBSET Work : ClaimWork(s, w, F)
<1> DEFINE Goal == \/ sched[s].at # "idle" /\ sched'[s].work = sched[s].work
                   \/ \E w \in Work, F \in SUBSET Work : ClaimWork(s, w, F)
<1>0. /\ NoJob.at = "idle"
      /\ [sched[s] EXCEPT !.at = "running"].work = sched[s].work
      /\ \A d : [sched[s] EXCEPT !.at = "settle", !.disp = d].work = sched[s].work
      /\ [sched[s] EXCEPT !.lost = TRUE].work = sched[s].work
      /\ [sched[s] EXCEPT !.lost = TRUE].at = sched[s].at
  BY Zenon DEF NoJob, TypeOK, Scheduler
<1>1. ASSUME sched'[s] = sched[s] PROVE Goal
  BY <1>1
<1>2. ASSUME NEW r \in Runs, RunStep(r) PROVE Goal
  <2>1. CASE BeginRunDenied(r)
    BY <1>0, <2>1 DEF BeginRunDenied, TaskFails
  <2>2. CASE ReconcileEffects(r)
    BY <1>0, <1>1, <2>2 DEF ReconcileEffects, TaskFails
  <2>3. CASE FinishRun(r)
    <3>1. PICK d : Deliver(r, d)
      BY <2>3 DEF FinishRun
    <3>2. CASE s \in Caller(r)
      <4>1. sched[s].at = "running" /\ sched'[s] = [sched[s] EXCEPT !.at = "settle", !.disp = d]
        BY <3>1, <3>2, Zenon DEF Deliver, Caller
      <4> HIDE DEF Goal
      <4>2. sched'[s].work = sched[s].work
        BY <1>0, <4>1
      <4> QED
        BY <4>1, <4>2 DEF Goal
    <3>3. CASE s \notin Caller(r)
      BY <1>1, <3>1, <3>3 DEF Deliver
    <3> QED
      BY <3>2, <3>3
  <2> QED
    BY <1>1, <1>2, <2>1, <2>2, <2>3
    DEF RunStep, BeginRun, StopTask, EnterLoop, AcquireSlot, ResumeWaiting, StopWaitingChildren,
        PassCancel, HostCancel, RequestWork, ParkRun, EndSession
<1>3. ASSUME NEW t \in Schedulers, SchedulerStep(t) PROVE Goal
  <2>1. ASSUME StopScheduler({t}, "interrupted") PROVE Goal
    BY <1>0, <1>1, <2>1 DEF StopScheduler
  <2>2. CASE \E w \in Work, F \in SUBSET Work : ClaimWork(t, w, F)
    <3>1. t # s => sched'[s] = sched[s]
      BY <2>2 DEF ClaimWork, TypeOK
    <3> QED
      BY <1>1, <2>2, <3>1
  <2>3. CASE ReuseResult(t)
    <3>1. t # s => sched'[s] = sched[s]
      BY <2>3 DEF ReuseResult, TypeOK
    <3>2. ASSUME t = s PROVE sched'[s].work = sched[s].work
      <4>1. PICK d : sched'[s] = [sched[s] EXCEPT !.at = "settle", !.disp = d]
        BY <2>3, <3>2 DEF ReuseResult, TypeOK
      <4> QED
        BY <1>0, <4>1
    <3>3. t = s => sched[s].at # "idle"
      BY <2>3 DEF ReuseResult
    <3> QED
      BY <1>1, <3>1, <3>2, <3>3
  <2>4. CASE RunClaimed(t)
    <3>1. CASE sched' = [sched EXCEPT ![t].at = "running"]
      <4>1. t # s => sched'[s] = sched[s]
        BY <3>1 DEF TypeOK
      <4>2. t = s => sched'[s].work = sched[s].work
        BY <1>0, <3>1, Zenon DEF TypeOK
      <4>3. t = s => sched[s].at # "idle"
        BY <2>4 DEF RunClaimed
      <4> QED
        BY <1>1, <4>1, <4>2, <4>3
    <3> QED
      BY <2>1, <2>4, <3>1 DEF RunClaimed
  <2>5. CASE RenewWork(t)
    <3>1. t # s => sched'[s] = sched[s]
      BY <2>5 DEF RenewWork, TypeOK
    <3>2. t = s => sched'[s].work = sched[s].work /\ sched'[s].at = sched[s].at
      BY <1>0, <2>5, Zenon DEF RenewWork, TypeOK
    <3> QED
      BY <1>1, <3>1, <3>2
  <2>6. CASE FinishWork(t)
    <3>1. CASE sched' = [sched EXCEPT ![t] = NoJob]
      BY <1>0, <1>1, <3>1 DEF TypeOK
    <3> QED
      BY <2>1, <2>6, <3>1 DEF FinishWork
  <2>7. CASE AbandonDrain(t)
    BY <1>0, <1>1, <2>7 DEF AbandonDrain, TypeOK
  <2>8. CASE ClaimNothing(t)
    BY <1>1, <2>8 DEF ClaimNothing
  <2> QED
    BY <1>3, <2>2, <2>3, <2>4, <2>5, <2>6, <2>7, <2>8 DEF SchedulerStep
<1>4. CASE CrashAndRecover
  BY <1>0, <1>4 DEF CrashAndRecover
<1> QED
  BY <1>1, <1>2, <1>3, <1>4 DEF Next, StartRoot, LeaseExpires, DeadlinePasses, vars

\* The task of an item is started by a scheduler that claimed the item.
LEMMA TaskBegins ==
  ASSUME IInv, [Next]_vars, NEW w \in Work, task[w].at = "idle", task'[w].at # "idle"
  PROVE  \E s \in Schedulers : sched[s].at = "claimed" /\ sched[s].work = w
<1> USE DEF IInv
<1>0. /\ sched[w].at = "idle" /\ w \in Runs
      /\ \A r \in Runs : w \notin Caller(r)
  BY DEF SchedulingRunsAreParked, Caller, Runs
<1>1. ~UNCHANGED task
  OBVIOUS
<1>2. ASSUME NEW r \in Runs, RunStep(r) PROVE FALSE
  <2>1. ASSUME NEW d \in Dispositions, TaskFails(r, d) PROVE FALSE
    BY <1>0, <2>1, PlacesAfterTaskFails
  <2>2. ASSUME task[r].at # "idle", NEW x \in TaskPlaces, task' = [task EXCEPT ![r].at = x]
        PROVE  FALSE
    BY <2>2, PlacesAfterMove
  <2>3. ASSUME NEW q, task' = [task EXCEPT ![q].cancel = TRUE] PROVE FALSE
    BY <2>3, PlacesAfterCancel
  <2>4. ASSUME task[r].at # "idle", NEW d \in Dispositions, End(r, d) PROVE FALSE
    <3>1. task'[w].at = IF w = r THEN "ending" ELSE task[w].at
      BY <1>0, <2>4, TaskAfterEnd
    <3> QED
      BY <2>4, <3>1, Zenon
  <2>5. CASE BeginRunDenied(r) \/ ReconcileEffects(r)
    BY <2>1, <2>4, <2>5 DEF BeginRunDenied, ReconcileEffects, Dispositions
  <2>6. CASE StopTask(r) \/ \E d \in Answers : EndSession(r, d)
    BY <2>4, <2>6, WorkQueueAssumption DEF StopTask, EndSession, Dispositions
  <2>7. CASE BeginRun(r) \/ EnterLoop(r) \/ AcquireSlot(r) \/ ResumeWaiting(r)
             \/ \E W \in SUBSET Work : ParkRun(r, W)
    BY <2>2, <2>7 DEF BeginRun, EnterLoop, AcquireSlot, ResumeWaiting, ParkRun, TaskPlaces
  <2>8. CASE StopWaitingChildren(r)
    <3>1. [task[w] EXCEPT !.cancel = TRUE].at = task[w].at
      BY DEF TypeOK, Task, Runs
    <3> QED
      BY <1>0, <2>8, <3>1 DEF StopWaitingChildren
  <2>9. CASE FinishRun(r)
    <3>1. NoTask.at = "idle"
      BY DEF NoTask
    <3> QED
      BY <1>0, <2>9, <3>1 DEF FinishRun, TypeOK
  <2>10. CASE PassCancel(r) \/ HostCancel(r)
    BY <2>3, <2>10, Zenon DEF PassCancel, HostCancel
  <2> QED
    BY <1>1, <1>2, <2>5, <2>6, <2>7, <2>8, <2>9, <2>10 DEF RunStep, RequestWork
<1>3. ASSUME NEW s \in Schedulers, SchedulerStep(s)
      PROVE  sched[s].at = "claimed" /\ sched[s].work = w
  <2>1. ASSUME sched[s].at # "idle", StopScheduler({s}, "interrupted") PROVE FALSE
    BY <1>0, <2>1, PlacesAfterStopScheduler DEF Dispositions
  <2>2. ASSUME NEW q, task' = [task EXCEPT ![q].cancel = TRUE] PROVE FALSE
    BY <2>2, PlacesAfterCancel
  <2>3. CASE RunClaimed(s)
    <3>1. sched[s].at = "claimed" /\ sched[s].work \in Work
      BY <2>3 DEF RunClaimed, RunningJobsHaveTasks
    <3>2. PICK t : task' = [task EXCEPT ![sched[s].work] = t]
      BY <2>1, <2>3, <3>1 DEF RunClaimed
    <3> QED
      BY <1>0, <3>1, <3>2 DEF TypeOK, Runs
  <2>4. ~FinishWork(s)
    BY <1>1, <2>1 DEF FinishWork
  <2> QED
    BY <1>1, <1>3, <2>2, <2>3, <2>4
    DEF SchedulerStep, ClaimWork, ClaimNothing, ReuseResult, RenewWork, AbandonDrain
<1>4. ASSUME NEW r \in Roots, StartRoot(r) PROVE FALSE
  BY <1>0, <1>4, WorkQueueAssumption DEF StartRoot, TypeOK
<1>5. ~CrashAndRecover
  BY <1>0 DEF CrashAndRecover, NoTask
<1> QED
  BY <1>1, <1>2, <1>3, <1>4, <1>5 DEF Next, LeaseExpires, DeadlinePasses, vars

\* A parked run keeps its wait while it serves a child.
LEMMA WaitKept ==
  ASSUME TypeOK, [Next]_vars, NEW r \in Runs, task[r].at = "parked", sched[r].at # "idle"
  PROVE  waits'[r] = waits[r]
<1>1. ASSUME NEW q \in Runs, RunStep(q) PROVE waits'[r] = waits[r]
  <2>1. CASE \E W \in SUBSET Work : ParkRun(q, W)
    BY <2>1 DEF ParkRun, TypeOK
  <2>2. CASE ResumeWaiting(q)
    BY <2>2 DEF ResumeWaiting, TypeOK
  <2>3. CASE FinishRun(q)
    BY <2>3 DEF FinishRun, Ready, TypeOK
  <2> QED
    BY <1>1, <2>1, <2>2, <2>3
    DEF RunStep, BeginRun, BeginRunDenied, ReconcileEffects, StopTask, EnterLoop, AcquireSlot,
        StopWaitingChildren, PassCancel, HostCancel, RequestWork, EndSession
<1> QED
  BY <1>1, Zenon
  DEF Next, StartRoot, SchedulerStep, ClaimWork, ClaimNothing, ReuseResult, RunClaimed,
      RenewWork, FinishWork, AbandonDrain, LeaseExpires, DeadlinePasses, CrashAndRecover, vars

\* What is busy was requested: an item with a task or with a scheduler has a row.
BusyItemsExist ==
    /\ \A w \in Work : task[w].at # "idle" => work[w].status # "none"
    /\ \A s \in Schedulers : sched[s].at # "idle" => work[sched[s].work].status # "none"

\* A parked run serves the children of its own wait.
ServedChildrenAreWaited ==
    \A r \in Runs : sched[r].at # "idle" => sched[r].work \in waits[r]

\* A child lies one level below its parent and below all that its parent is below.
ChildrenLieBelow ==
    /\ \A w \in Work : work[w].depth \in 0..MaxDepth
    /\ \A w \in Work, r \in Runs : w \in ChildrenOf(r) =>
          /\ work[w].depth = DepthUnder(r) /\ work[w].above = AboveUnder(r)
          /\ r \in Work => work[r].status # "none"

TreeInv == BusyItemsExist /\ ServedChildrenAreWaited /\ ChildrenLieBelow

LEMMA TreeInit == Init => TreeInv
<1>1. NoTask.at = "idle" /\ NoJob.at = "idle"
  BY DEF NoTask, NoJob
<1> QED
  BY <1>1, WorkQueueAssumption
  DEF Init, TreeInv, BusyItemsExist, ServedChildrenAreWaited, ChildrenLieBelow, ChildrenOf,
      Schedulers, Runs

LEMMA ClaimedExists ==
  ASSUME TypeOK, NEW s \in Schedulers, NEW w \in Work, NEW F \in SUBSET Work,
         ClaimWork(s, w, F)
  PROVE  /\ work[w].status # "none" /\ sched'[s].work = w
         /\ s \in Runs => w \in waits[s] /\ UNCHANGED waits
<1>1. w \in Claimable(s) /\ UNCHANGED waits
      /\ sched' = [sched EXCEPT ![s] = [NoJob EXCEPT !.at = "claimed", !.work = w]]
  BY DEF ClaimWork
<1>2. [NoJob EXCEPT !.at = "claimed", !.work = w].work = w
  BY DEF NoJob
<1>3. sched'[s].work = w
  BY <1>1, <1>2 DEF TypeOK
<1>4. work[w].status # "none"
  BY <1>1 DEF Claimable, Due
<1>5. s \in Runs => w \in waits[s]
  BY <1>1, WorkQueueAssumption DEF Claimable
<1> QED
  BY <1>1, <1>3, <1>4, <1>5

LEMMA TreeStep == IInv /\ TreeInv /\ [Next]_vars => TreeInv'
<1> SUFFICES ASSUME IInv, TreeInv, [Next]_vars PROVE TreeInv'
  OBVIOUS
<1>0. TypeOK
  BY DEF IInv
<1>1. BusyItemsExist'
  <2>1. ASSUME NEW w \in Work, task'[w].at # "idle" PROVE work'[w].status # "none"
    <3>1. task[w].at # "idle" => work[w].status # "none"
      BY DEF TreeInv, BusyItemsExist
    <3>2. task[w].at = "idle" => work[w].status # "none"
      BY <2>1, TaskBegins DEF TreeInv, BusyItemsExist
    <3> QED
      BY <1>0, <3>1, <3>2, ChildrenStay
  <2>2. ASSUME NEW s \in Schedulers, sched'[s].at # "idle"
        PROVE  work'[sched'[s].work].status # "none"
    <3>1. CASE sched[s].at # "idle" /\ sched'[s].work = sched[s].work
      <4>1. sched[s].work \in Work /\ work[sched[s].work].status # "none"
        BY <3>1 DEF IInv, RunningJobsHaveTasks, TreeInv, BusyItemsExist
      <4> QED
        BY <1>0, <3>1, <4>1, ChildrenStay
    <3>2. CASE \E w \in Work, F \in SUBSET Work : ClaimWork(s, w, F)
      <4>1. PICK w \in Work, F \in SUBSET Work : ClaimWork(s, w, F)
        BY <3>2
      <4>2. work[w].status # "none" /\ sched'[s].work = w
        BY <1>0, <4>1, ClaimedExists
      <4> QED
        BY <1>0, <4>2, ChildrenStay
    <3> QED
      BY <1>0, <2>2, <3>1, <3>2, JobStep
  <2> QED
    BY <2>1, <2>2 DEF BusyItemsExist
<1>2. ServedChildrenAreWaited'
  <2> SUFFICES ASSUME NEW r \in Runs, sched'[r].at # "idle" PROVE sched'[r].work \in waits'[r]
    BY DEF ServedChildrenAreWaited
  <2>0. r \in Schedulers
    BY DEF Schedulers
  <2>1. CASE sched[r].at # "idle" /\ sched'[r].work = sched[r].work
    <3>1. task[r].at = "parked" /\ sched[r].work \in waits[r]
      BY <2>1 DEF IInv, SchedulingRunsAreParked, TreeInv, ServedChildrenAreWaited
    <3>2. waits'[r] = waits[r]
      BY <1>0, <2>1, <3>1, WaitKept
    <3> QED
      BY <2>1, <3>1, <3>2
  <2>2. CASE \E w \in Work, F \in SUBSET Work : ClaimWork(r, w, F)
    <3>1. PICK w \in Work, F \in SUBSET Work : ClaimWork(r, w, F)
      BY <2>2
    <3> QED
      BY <1>0, <2>0, <3>1, ClaimedExists
  <2> QED
    BY <1>0, <2>0, <2>1, <2>2, JobStep
<1>3. ChildrenLieBelow'
  <2>1. ASSUME NEW r \in Runs, r \in Work => work[r].status # "none"
        PROVE  DepthUnder(r)' = DepthUnder(r) /\ AboveUnder(r)' = AboveUnder(r)
    BY <1>0, <2>1, PlaceStays DEF DepthUnder, AboveUnder
  <2>2. ASSUME NEW w \in Work, work[w].status # "none"
        PROVE  /\ work'[w].depth \in 0..MaxDepth
               /\ \A r \in Runs : w \in ChildrenOf(r)' =>
                     /\ work'[w].depth = DepthUnder(r)' /\ work'[w].above = AboveUnder(r)'
                     /\ r \in Work => work'[r].status # "none"
    <3>1. work'[w].depth = work[w].depth /\ work'[w].above = work[w].above
          /\ work'[w].parent = work[w].parent
      BY <1>0, <2>2, PlaceStays, ChildrenStay
    <3>2. work'[w].depth \in 0..MaxDepth
      BY <3>1 DEF TreeInv, ChildrenLieBelow
    <3>3. ASSUME NEW r \in Runs, w \in ChildrenOf(r)'
          PROVE  /\ work'[w].depth = DepthUnder(r)' /\ work'[w].above = AboveUnder(r)'
                 /\ r \in Work => work'[r].status # "none"
      <4>1. w \in ChildrenOf(r)
        BY <2>2, <3>1, <3>3 DEF ChildrenOf
      <4>2. /\ work[w].depth = DepthUnder(r) /\ work[w].above = AboveUnder(r)
            /\ r \in Work => work[r].status # "none"
        BY <4>1 DEF TreeInv, ChildrenLieBelow
      <4> QED
        BY <1>0, <2>1, <3>1, <4>2, ChildrenStay
    <3> QED
      BY <3>2, <3>3
  <2>3. ASSUME NEW w \in Work, work[w].status = "none"
        PROVE  /\ work'[w].depth \in 0..MaxDepth
               /\ \A r \in Runs : w \in ChildrenOf(r)' =>
                     /\ work'[w].depth = DepthUnder(r)' /\ work'[w].above = AboveUnder(r)'
                     /\ r \in Work => work'[r].status # "none"
    <3>1. CASE work'[w] = work[w]
      BY <2>3, <3>1 DEF ChildrenOf, TreeInv, ChildrenLieBelow
    <3>2. ASSUME NEW q \in Runs, RequestWork(q, w)
          PROVE  /\ work'[w].depth \in 0..MaxDepth
                 /\ \A r \in Runs : w \in ChildrenOf(r)' =>
                       /\ work'[w].depth = DepthUnder(r)' /\ work'[w].above = AboveUnder(r)'
                       /\ r \in Work => work'[r].status # "none"
      <4>1. /\ task[q].at = "session" /\ DepthUnder(q) <= MaxDepth
            /\ work'[w].depth = DepthUnder(q) /\ work'[w].above = AboveUnder(q)
            /\ work'[w].parent = q
        BY <1>0, <3>2 DEF RequestWork, TypeOK
      <4>2. q \in Work => work[q].status # "none"
        BY <4>1 DEF TreeInv, BusyItemsExist
      <4>3. DepthUnder(q) \in 0..MaxDepth
        BY <4>1, WorkQueueAssumption DEF DepthUnder, TreeInv, ChildrenLieBelow
      <4>4. \A r \in Runs : w \in ChildrenOf(r)' => r = q
        BY <4>1 DEF ChildrenOf
      <4> QED
        BY <1>0, <2>1, <4>1, <4>2, <4>3, <4>4, ChildrenStay
    <3> QED
      BY <1>0, <2>3, <3>1, <3>2, NewItem
  <2> QED
    BY <2>2, <2>3 DEF ChildrenLieBelow
<1> QED
  BY <1>1, <1>2, <1>3 DEF TreeInv

\* A task that cannot move is parked on a child with a task, one level below.
LEMMA StuckIsParkedOnChild ==
  ASSUME IInv, TreeInv, NEW q \in Runs, task[q].at # "idle", ~CanMove(q)
  PROVE  \E w \in Work : w \in waits[q] /\ task[w].at # "idle"
<1>0. task[q].at \in TaskPlaces /\ sched[q].at \in Jobs
  BY DEF IInv, TypeOK, Task, Scheduler, TaskPlaces, Jobs, Schedulers
<1>1. task[q].at = "parked"
  <2>1. task[q].at # "queued"
    <3>1. SUFFICES ASSUME \A x \in Runs : task[x].at # "session" PROVE Cardinality(InSession) < Capacity
      BY DEF CanMove
    <3>2. InSession = {}
      BY <3>1 DEF InSession
    <3> QED
      BY <3>2, FS_EmptySet, WorkQueueAssumption
  <2> QED
    BY <1>0, <2>1 DEF CanMove, TaskPlaces
<1>2. CASE sched[q].at = "running"
  <2>1. sched[q].work \in Work /\ task[sched[q].work].at # "idle"
    BY <1>2 DEF IInv, RunningJobsHaveTasks, Schedulers
  <2>2. sched[q].work \in waits[q]
    BY <1>2 DEF TreeInv, ServedChildrenAreWaited
  <2> QED
    BY <2>1, <2>2
<1>3. CASE sched[q].at = "idle"
  <2>1. /\ WaitRequired(q) /\ Claimable(q) = {}
        /\ \A w \in waits[q] : ~(work[w].status = "running" /\ work[w].leased)
    BY <1>1, <1>3 DEF CanMove
  <2>2. PICK w \in waits[q] : work[w].status \in Unsettled
    BY <2>1 DEF WaitRequired
  <2>3. w \in Work /\ Due(w)
    BY <2>1, <2>2 DEF IInv, TypeOK, Due, Unsettled
  <2>4. w \in Claimable(q)
    BY <2>2, <2>3, WorkQueueAssumption DEF Claimable
  <2> QED
    BY <2>1, <2>4
<1> QED
  BY <1>0, <1>1, <1>2, <1>3 DEF CanMove, Jobs

\* The deepest task below one that is registered can move.
LEMMA DeepestCanMove ==
  ASSUME IInv, TreeInv, NEW r \in Runs, task[r].at # "idle"
  PROVE  \E q \in Below(r) : CanMove(q)
<1> DEFINE Busy == {q \in Below(r) : task[q].at # "idle"}
           Height(q) == MaxDepth + 1 - DepthUnder(q)
           Heights == {Height(q) : q \in Busy}
<1>1. Busy \subseteq Runs /\ r \in Busy
  BY DEF Below, Runs
<1>2. \A q \in Runs : DepthUnder(q) \in Nat /\ Height(q) \in Nat
  BY WorkQueueAssumption DEF DepthUnder, TreeInv, ChildrenLieBelow
<1>3. Heights \in SUBSET Nat /\ Heights # {}
  BY <1>1, <1>2
<1>4. PICK h \in Heights : \A k \in Heights : h <= k
  BY <1>3, LeastNumber
<1>5. PICK q \in Busy : h = Height(q)
  BY <1>4
<1>6. SUFFICES ASSUME ~CanMove(q) PROVE FALSE
  BY <1>5
<1>7. PICK w \in Work : w \in waits[q] /\ task[w].at # "idle"
  BY <1>1, <1>5, <1>6, StuckIsParkedOnChild
<1>8. w \in ChildrenOf(q)
  BY <1>1, <1>5, <1>7 DEF IInv, WaitRowsMatchRuns
<1>9. work[w].depth = DepthUnder(q) /\ work[w].above = AboveUnder(q)
  BY <1>1, <1>5, <1>8 DEF TreeInv, ChildrenLieBelow
<1>10. w \in Busy
  <2>1. r \in AboveUnder(q)
    BY <1>5 DEF Below, AboveUnder
  <2> QED
    BY <1>7, <1>9, <2>1 DEF Below
<1>11. DepthUnder(w) = DepthUnder(q) + 1
  BY <1>9 DEF DepthUnder
<1>12. Height(w) < Height(q)
  BY <1>1, <1>2, <1>5, <1>11, WorkQueueAssumption
<1> QED
  BY <1>1, <1>2, <1>4, <1>5, <1>10, <1>12

LEMMA TreeInvariance == Spec => []TreeInv
  BY TreeInit, TreeStep, Invariance, PTL DEF Spec

\* However parents wait for children and runs for slots, they do not wait for each
\* other: some task in each tree of waits can take its next step.
THEOREM NoCircularWaits == Spec => []SomeoneBelowCanMove
<1>1. IInv /\ TreeInv => SomeoneBelowCanMove
  BY DeepestCanMove DEF SomeoneBelowCanMove
<1> QED
  BY <1>1, Invariance, TreeInvariance, PTL
=============================================================================
