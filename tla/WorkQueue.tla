------------------------------ MODULE WorkQueue ------------------------------
(***************************************************************************)
(* The durable work queue of one grant and the supervisor that drains it:  *)
(* the work, runs and run_waits tables (work.rs, runs.rs, parking.rs), the *)
(* tasks that own a run inside the host process, and the schedulers that   *)
(* claim work for them (supervisor.rs).  Tables survive CrashAndRecover,   *)
(* tasks and schedulers do not.                                            *)
(*                                                                         *)
(* A run is a host run (Roots) or the execution of the work item with the  *)
(* same identity (Work).  One work id stands for one subject: the queue    *)
(* never holds two items of a subject in a grant.  Time is abstracted to   *)
(* "this lease has expired" and "the grant deadline has passed".           *)
(***************************************************************************)
EXTENDS Naturals, FiniteSets

CONSTANTS
    Roots,       \* runs the host starts itself
    Work,        \* work items, and the runs that execute them
    Drains,      \* concurrent calls of drain_work
    NoOne,       \* no owner, no parent, no item
    Capacity,    \* worker slots of the supervisor
    MaxAttempts, \* claims of one item before it fails (3 in the code)
    MaxDepth,    \* grant.budget.max_depth
    MaxItems,    \* grant.budget.max_work_items
    Answers,     \* dispositions a worker session may end with
    MaxCrashes   \* bound on host crashes explored

Runs == Roots \cup Work

\* A drain, or the scheduler that a parked run becomes for its own children.
Schedulers == Drains \cup Runs

ASSUME WorkQueueAssumption ==
    /\ IsFiniteSet(Runs)
    /\ Roots \cap Work = {} /\ Drains \cap Runs = {} /\ NoOne \notin Schedulers
    /\ Capacity \in Nat \ {0} /\ MaxAttempts \in Nat \ {0}
    /\ MaxDepth \in Nat /\ MaxItems \in Nat /\ MaxCrashes \in Nat
    /\ Answers \subseteq {"completed", "abstained", "cancelled", "exhausted",
                          "interrupted", "failed"}

VARIABLES
    work,    \* table work, with the disposition of each item's allocation
    run,     \* table runs, with the disposition of each run's allocation
    waits,   \* table run_waits
    task,    \* the supervised task that owns each run in this process
    sched,   \* what each scheduler is doing
    expired, \* the grant deadline has passed
    crashes

vars == <<work, run, waits, task, sched, expired, crashes>>

-----------------------------------------------------------------------------
Unsettled == {"queued", "running", "interrupted"}
WorkTerminal == {"completed", "failed", "cancelled", "exhausted"}
Dispositions == {"completed", "abstained", "cancelled", "exhausted",
                 "interrupted", "failed"}
RunTerminal == Dispositions \ {"interrupted"}

\* An ancestor with one of these dispositions denies its descendants.
Stopped == {"cancelled", "exhausted", "failed"}

WorkRow == [status : {"none"} \cup Unsettled \cup WorkTerminal,
            attempts : 0..MaxAttempts, owner : Schedulers \cup {NoOne},
            leased : BOOLEAN, parent : Runs \cup {NoOne}, depth : Nat,
            above : SUBSET Runs, alloc : {"none", "open"} \cup Dispositions]
RunRow == [status : {"none", "running", "waiting"} \cup Dispositions,
           alloc : {"none", "open"} \cup Dispositions]
Task == [at : {"idle", "starting", "begun", "resumed", "parked", "queued",
               "session", "ending", "closing"},
         disp : Dispositions, cancel : BOOLEAN]
Scheduler == [at : {"idle", "claimed", "running", "settle"},
              work : Work \cup {NoOne}, disp : Dispositions, lost : BOOLEAN]

\* Every table row, task and scheduler has the shape the code gives it.
TypeOK ==
    /\ work \in [Work -> WorkRow]
    /\ run \in [Runs -> RunRow]
    /\ waits \in [Runs -> SUBSET Work]
    /\ task \in [Runs -> Task]
    /\ sched \in [Schedulers -> Scheduler]
    /\ expired \in BOOLEAN
    /\ crashes \in 0..MaxCrashes

NoTask == [at |-> "idle", disp |-> "interrupted", cancel |-> FALSE]
NoJob == [at |-> "idle", work |-> NoOne, disp |-> "interrupted", lost |-> FALSE]

Init ==
    /\ work = [w \in Work |->
                 [status |-> "none", attempts |-> 0, owner |-> NoOne,
                  leased |-> FALSE, parent |-> NoOne, depth |-> 0,
                  above |-> {}, alloc |-> "none"]]
    /\ run = [r \in Runs |-> [status |-> "none", alloc |-> "none"]]
    /\ waits = [r \in Runs |-> {}]
    /\ task = [r \in Runs |-> NoTask]
    /\ sched = [s \in Schedulers |-> NoJob]
    /\ expired = FALSE
    /\ crashes = 0

-----------------------------------------------------------------------------
(* Budget allocations, as far as the queue reads them.                     *)

AncestorsOpen(w) ==
    \A a \in work[w].above :
        /\ run[a].alloc \notin Stopped
        /\ a \in Work => work[a].alloc \notin Stopped

WorkAllocationOpen(w) == work[w].alloc = "open" /\ AncestorsOpen(w) /\ ~expired

RequireActive(r) ==
    /\ run[r].status = "running"
    /\ ~expired
    /\ run[r].alloc = "open"
    /\ r \in Work => work[r].alloc \notin Stopped /\ AncestorsOpen(r)

(* How the owner of a task learns that it ended.                           *)

Caller(r) == {s \in Schedulers : sched[s].at = "running" /\ sched[s].work = r}

\* run_owned returned a result: its caller goes on to acknowledge the lease.
Deliver(r, d) ==
    sched' = [s \in Schedulers |->
                IF s \in Caller(r) THEN [sched[s] EXCEPT !.at = "settle", !.disp = d]
                                   ELSE sched[s]]

\* A scheduling error ends a drain, and stops the parked run it served.
StopScheduler(S, d) ==
    /\ sched' = [s \in Schedulers |-> IF s \in S THEN NoJob ELSE sched[s]]
    /\ task' = [r \in Runs |->
                  IF r \in S THEN [task[r] EXCEPT !.at = "ending", !.disp = d]
                             ELSE task[r]]

\* The task of r returned an error: nothing is recorded for the run.
TaskFails(r, d) ==
    /\ sched' = [s \in Schedulers |-> IF s \in Caller(r) THEN NoJob ELSE sched[s]]
    /\ task' = [q \in Runs |->
                  IF q = r THEN NoTask
                  ELSE IF q \in Caller(r) THEN [task[q] EXCEPT !.at = "ending", !.disp = d]
                  ELSE task[q]]

End(r, d) == task' = [task EXCEPT ![r].at = "ending", ![r].disp = d]

-----------------------------------------------------------------------------
(* Starting a run.                                                         *)

StartRoot(r) ==
    /\ task[r].at = "idle"
    /\ run[r].status \in {"none", "interrupted"}
    /\ task' = [task EXCEPT ![r] = [NoTask EXCEPT !.at = "starting"]]
    /\ UNCHANGED <<work, run, waits, sched, expired, crashes>>

\* A first start allocates under the work item, which must still be open.
CanBegin(r) ==
    \/ run[r].status = "none" /\ ~expired /\ (r \in Work => WorkAllocationOpen(r))
    \/ run[r].status = "interrupted"

\* Fault: the wait row of an interrupted run is overlooked.
ResumedIgnoringWait(r) == "running"

ResumedStatus(r) == IF waits[r] # {} THEN "waiting" ELSE "running"

BeginRun(r) ==
    /\ task[r].at = "starting"
    /\ CanBegin(r)
    /\ run' = [run EXCEPT ![r] =
                 [status |-> IF run[r].status = "none" THEN "running" ELSE ResumedStatus(r),
                  alloc |-> "open"]]
    /\ task' = [task EXCEPT ![r].at =
                  IF run[r].status = "none" THEN "begun" ELSE "resumed"]
    /\ UNCHANGED <<work, waits, sched, expired, crashes>>

BeginRunDenied(r) ==
    /\ task[r].at = "starting"
    /\ ~CanBegin(r)
    /\ TaskFails(r, IF run[r].status = "none" /\ expired THEN "exhausted" ELSE "interrupted")
    /\ UNCHANGED <<work, run, waits, expired, crashes>>

\* Unknown host effects stop a resumed run; an error leaves its row as it is.
ReconcileEffects(r) ==
    /\ task[r].at = "resumed"
    /\ \/ End(r, "interrupted") /\ UNCHANGED sched
       \/ TaskFails(r, "interrupted")
    /\ UNCHANGED <<work, run, waits, expired, crashes>>

\* Cancellation and the deadline are seen wherever the task waits.
StopTask(r) ==
    /\ \/ task[r].at \in {"begun", "resumed", "queued"}
       \/ task[r].at = "parked" /\ sched[r].at = "idle"
    /\ \/ task[r].cancel /\ End(r, "cancelled")
       \/ /\ expired /\ ~task[r].cancel /\ task[r].at # "begun"
          /\ End(r, "exhausted")
    /\ UNCHANGED <<work, run, waits, sched, expired, crashes>>

EnterLoop(r) ==
    /\ task[r].at \in {"begun", "resumed"}
    /\ ~task[r].cancel
    /\ task' = [task EXCEPT ![r].at = IF waits[r] # {} THEN "parked" ELSE "queued"]
    /\ UNCHANGED <<work, run, waits, sched, expired, crashes>>

-----------------------------------------------------------------------------
(* A worker session holds one slot.                                        *)

\* Fault: a parked run keeps its worker slot.
InSessionOrParked == {r \in Runs : task[r].at \in {"session", "parked"}}

InSession == {r \in Runs : task[r].at = "session"}

AcquireSlot(r) ==
    /\ task[r].at = "queued"
    /\ ~task[r].cancel
    /\ Cardinality(InSession) < Capacity
    /\ task' = [task EXCEPT ![r].at = "session"]
    /\ UNCHANGED <<work, run, waits, sched, expired, crashes>>

DepthUnder(r) == IF r \in Work THEN work[r].depth + 1 ELSE 1
AboveUnder(r) == {r} \cup (IF r \in Work THEN work[r].above ELSE {})

RequestWork(r, w) ==
    /\ task[r].at = "session"
    /\ RequireActive(r)
    /\ work[w].status = "none"
    /\ DepthUnder(r) <= MaxDepth
    /\ Cardinality({x \in Work : work[x].status # "none"}) < MaxItems
    /\ work' = [work EXCEPT ![w] =
                  [status |-> "queued", attempts |-> 0, owner |-> r,
                   leased |-> FALSE, parent |-> r, depth |-> DepthUnder(r),
                   above |-> AboveUnder(r), alloc |-> "open"]]
    /\ UNCHANGED <<run, waits, task, sched, expired, crashes>>

ChildrenOf(r) == {w \in Work : work[w].status # "none" /\ work[w].parent = r}

ParkRun(r, W) ==
    /\ task[r].at = "session"
    /\ RequireActive(r)
    /\ W # {} /\ W \subseteq ChildrenOf(r)
    /\ waits[r] = {}
    /\ waits' = [waits EXCEPT ![r] = W]
    /\ run' = [run EXCEPT ![r].status = "waiting"]
    /\ task' = [task EXCEPT ![r].at = "parked"]
    /\ UNCHANGED <<work, sched, expired, crashes>>

\* The worker's answer, its loss, cancellation or the deadline.
EndSession(r, d) ==
    /\ task[r].at = "session"
    /\ End(r, d)
    /\ UNCHANGED <<work, run, waits, sched, expired, crashes>>

-----------------------------------------------------------------------------
(* Scheduling work: claim, run, renew, acknowledge.                        *)

Due(w) ==
    \/ work[w].status \in {"queued", "interrupted"}
    \/ work[w].status = "running" /\ ~work[w].leased

\* Fault: the wait keeps its children from the scheduler of the parent, too.
ClaimableByNobody(s) == {w \in Work : Due(w) /\ \A r \in Runs : w \notin waits[r]}

\* Fault: an ordinary drain takes children that a parent waits for.
ClaimableByAnyone(s) == {w \in Work : Due(w)}

Claimable(s) ==
    {w \in Work : Due(w) /\ IF s \in Drains THEN \A r \in Runs : w \notin waits[r]
                                            ELSE w \in waits[s]}

WaitRequired(r) == \E w \in waits[r] : work[w].status \in Unsettled

MayClaim(s) ==
    /\ sched[s].at = "idle"
    /\ ~expired
    /\ s \in Runs => task[s].at = "parked" /\ ~task[s].cancel /\ WaitRequired(s)

Exhausted(s) == {w \in Claimable(s) : work[w].attempts >= MaxAttempts}

Failing(w) == [work[w] EXCEPT !.status = "failed", !.alloc = "failed"]

Claiming(w, s) ==
    [work[w] EXCEPT !.status = "running", !.attempts = @ + 1, !.owner = s,
                    !.leased = TRUE]

\* Candidates come in the order of their random ids: any set F of items out of
\* attempts may come before the one claimed, and fails in the same transaction.
ClaimWork(s, w, F) ==
    /\ MayClaim(s)
    /\ F \subseteq Exhausted(s)
    /\ w \in Claimable(s) \ Exhausted(s)
    /\ work' = [x \in Work |-> IF x = w THEN Claiming(w, s)
                               ELSE IF x \in F THEN Failing(x) ELSE work[x]]
    /\ sched' = [sched EXCEPT ![s] = [NoJob EXCEPT !.at = "claimed", !.work = w]]
    /\ UNCHANGED <<run, waits, task, expired, crashes>>

ClaimNothing(s) ==
    /\ MayClaim(s)
    /\ Claimable(s) # {} /\ Claimable(s) = Exhausted(s)
    /\ work' = [x \in Work |-> IF x \in Exhausted(s) THEN Failing(x) ELSE work[x]]
    /\ UNCHANGED <<run, waits, task, sched, expired, crashes>>

\* A result saved before its lease was acknowledged is used again.
ReuseResult(s) ==
    /\ sched[s].at = "claimed"
    /\ run[sched[s].work].status \in RunTerminal
    /\ sched' = [sched EXCEPT ![s].at = "settle", ![s].disp = run[sched[s].work].status]
    /\ UNCHANGED <<work, run, waits, task, expired, crashes>>

\* Fault: a second owner may start a task that is still registered.
RegisteredNever(w) == FALSE

Registered(w) == task[w].at # "idle"

StopRequested(s) == s \in Runs /\ task[s].cancel

RunClaimed(s) ==
    LET w == sched[s].work IN
    /\ sched[s].at = "claimed"
    /\ run[w].status \notin RunTerminal
    /\ \/ /\ ~Registered(w)
          /\ task' = [task EXCEPT ![w] = [NoTask EXCEPT !.at = "starting",
                                                       !.cancel = StopRequested(s)]]
          /\ sched' = [sched EXCEPT ![s].at = "running"]
       \/ Registered(w) /\ StopScheduler({s}, "interrupted")
    /\ UNCHANGED <<work, run, waits, expired, crashes>>

HoldsLease(s, w) ==
    /\ work[w].owner = s
    /\ work[w].status = "running"
    /\ work[w].leased

\* renew_work either leaves the lease in force or reports it unavailable,
\* and then the scheduler stops the run.
RenewWork(s) ==
    LET w == sched[s].work IN
    /\ sched[s].at = "running" /\ ~sched[s].lost
    /\ ~HoldsLease(s, w)
    /\ sched' = [sched EXCEPT ![s].lost = TRUE]
    /\ task' = [task EXCEPT ![w].cancel = TRUE]
    /\ UNCHANGED <<work, run, waits, expired, crashes>>

\* Fault: a failed run is acknowledged like an abstained one.
WorkStatusLax(d) == IF d \in {"abstained", "failed"} THEN "completed" ELSE d

WorkStatusOf(d) == IF d = "abstained" THEN "completed" ELSE d

\* Fault: the recorded owner is not compared.
MayFinishAnyone(s, w) == work[w].status = "running"

MayFinish(s, w) == work[w].owner = s /\ work[w].status = "running"

FinishWork(s) ==
    LET w == sched[s].work
        status == WorkStatusOf(sched[s].disp) IN
    /\ sched[s].at = "settle"
    /\ IF MayFinish(s, w)
         THEN work' = [work EXCEPT ![w].status = status, ![w].alloc = status]
         ELSE UNCHANGED work
    /\ IF \/ sched[s].lost
          \/ ~MayFinish(s, w) /\ ~(work[w].owner = s /\ work[w].status = status)
         THEN StopScheduler({s}, "interrupted")
         ELSE sched' = [sched EXCEPT ![s] = NoJob] /\ UNCHANGED task
    /\ UNCHANGED <<run, waits, expired, crashes>>

-----------------------------------------------------------------------------
(* Leaving a wait and ending a run.                                        *)

ResumeWaiting(r) ==
    /\ task[r].at = "parked" /\ sched[r].at = "idle"
    /\ ~task[r].cancel /\ ~expired
    /\ ~WaitRequired(r)
    /\ waits' = [waits EXCEPT ![r] = {}]
    /\ run' = [run EXCEPT ![r].status = IF @ = "waiting" THEN "running" ELSE @]
    /\ task' = [task EXCEPT ![r].at = "queued"]
    /\ UNCHANGED <<work, sched, expired, crashes>>

\* Fault: queued children are left to the queue.
StoppableRunning(r) == {w \in waits[r] : work[w].status = "running"}

Stoppable(r) == {w \in waits[r] : work[w].status \in Unsettled}

StopChild(w, d) ==
    [work[w] EXCEPT !.alloc = d,
                    !.status = IF @ \in {"queued", "interrupted"} THEN d ELSE @]

StopWaitingChildren(r) ==
    LET d == task[r].disp IN
    /\ task[r].at = "ending"
    /\ d \in {"cancelled", "exhausted"}
    /\ work' = [w \in Work |-> IF w \in Stoppable(r) THEN StopChild(w, d) ELSE work[w]]
    /\ task' = [q \in Runs |->
                  IF q = r THEN [task[q] EXCEPT !.at = "closing"]
                  ELSE IF q \in Stoppable(r) /\ work[q].status = "running" /\ task[q].at # "idle"
                       THEN [task[q] EXCEPT !.cancel = TRUE]
                  ELSE task[q]]
    /\ UNCHANGED <<run, waits, sched, expired, crashes>>

Ready(r) == \/ task[r].at = "closing"
            \/ task[r].at = "ending" /\ task[r].disp \notin {"cancelled", "exhausted"}

\* Fault: the wait row never survives.
WaitDropped(r, d) == {}

WaitAfter(r, d) == IF d = "interrupted" THEN waits[r] ELSE {}

FinishRun(r) ==
    LET d == task[r].disp
        active == run[r].status \in {"running", "waiting"} IN
    /\ Ready(r)
    /\ run' = IF active THEN [run EXCEPT ![r] = [status |-> d, alloc |-> d]] ELSE run
    /\ waits' = IF active THEN [waits EXCEPT ![r] = WaitAfter(r, d)] ELSE waits
    /\ task' = [task EXCEPT ![r] = NoTask]
    /\ Deliver(r, IF active THEN d ELSE run[r].status)
    /\ UNCHANGED <<work, expired, crashes>>

-----------------------------------------------------------------------------
(* The environment: the host's cancellations, time, and crashes.           *)

\* The host cancels a root run, or the drain that executes an item.
HostCancel(r) ==
    /\ task[r].at # "idle" /\ ~task[r].cancel
    /\ Caller(r) \subseteq Drains
    /\ task' = [task EXCEPT ![r].cancel = TRUE]
    /\ UNCHANGED <<work, run, waits, sched, expired, crashes>>

\* A parked run passes its own cancellation to the child it is executing.
PassCancel(r) ==
    /\ task[r].cancel /\ sched[r].at = "running"
    /\ ~task[sched[r].work].cancel
    /\ task' = [task EXCEPT ![sched[r].work].cancel = TRUE]
    /\ UNCHANGED <<work, run, waits, sched, expired, crashes>>

\* Dropping a drain cancels the run it owns, which keeps its task.
AbandonDrain(s) ==
    /\ s \in Drains /\ sched[s].at = "running"
    /\ sched' = [sched EXCEPT ![s] = NoJob]
    /\ task' = [task EXCEPT ![sched[s].work].cancel = TRUE]
    /\ UNCHANGED <<work, run, waits, expired, crashes>>

LeaseExpires(w) ==
    /\ work[w].status = "running" /\ work[w].leased
    /\ work' = [work EXCEPT ![w].leased = FALSE]
    /\ UNCHANGED <<run, waits, task, sched, expired, crashes>>

DeadlinePasses ==
    /\ ~expired
    /\ expired' = TRUE
    /\ UNCHANGED <<work, run, waits, task, sched, crashes>>

RecoveredWork(w) == [work[w] EXCEPT !.status = IF @ = "running" THEN "interrupted" ELSE @]
\* Fault: recovery reopens runs that failed or were stopped.
RecoveredRunBroad(r) ==
    [run[r] EXCEPT !.status = IF @ \notin {"none", "completed"} THEN "interrupted" ELSE @]

RecoveredRun(r) ==
    [run[r] EXCEPT !.status = IF @ \in {"running", "waiting"} THEN "interrupted" ELSE @]

\* The host dies; the next one takes the workspace and recovers the tables.
CrashAndRecover ==
    /\ crashes < MaxCrashes
    /\ crashes' = crashes + 1
    /\ work' = [w \in Work |-> RecoveredWork(w)]
    /\ run' = [r \in Runs |-> RecoveredRun(r)]
    /\ task' = [r \in Runs |-> NoTask]
    /\ sched' = [s \in Schedulers |-> NoJob]
    /\ UNCHANGED <<waits, expired>>

-----------------------------------------------------------------------------
RunStep(r) ==
    \/ BeginRun(r) \/ BeginRunDenied(r) \/ ReconcileEffects(r) \/ StopTask(r)
    \/ EnterLoop(r) \/ AcquireSlot(r) \/ ResumeWaiting(r)
    \/ StopWaitingChildren(r) \/ FinishRun(r) \/ PassCancel(r) \/ HostCancel(r)
    \/ \E w \in Work : RequestWork(r, w)
    \/ \E W \in SUBSET Work : ParkRun(r, W)
    \/ \E d \in Answers : EndSession(r, d)

SchedulerStep(s) ==
    \/ \E w \in Work, F \in SUBSET Work : ClaimWork(s, w, F)
    \/ ClaimNothing(s) \/ ReuseResult(s) \/ RunClaimed(s) \/ RenewWork(s)
    \/ FinishWork(s) \/ AbandonDrain(s)

Next ==
    \/ \E r \in Roots : StartRoot(r)
    \/ \E r \in Runs : RunStep(r)
    \/ \E s \in Schedulers : SchedulerStep(s)
    \/ \E w \in Work : LeaseExpires(w)
    \/ DeadlinePasses
    \/ CrashAndRecover

Spec == Init /\ [][Next]_vars
-----------------------------------------------------------------------------
(* Safety.                                                                 *)

\* A worker session, or a run queued for one, never has an outstanding wait:
\* after any interruption, crash and resumption the unfinished children run
\* before the parent's next provider call (run_owned, begin_run, park_run).
ChildrenBeforeParent ==
    \A r \in Runs :
        /\ task[r].at \in {"queued", "session"} => run[r].status = "running" /\ waits[r] = {}
        /\ task[r].at = "parked" => run[r].status = "waiting" /\ waits[r] # {}

\* An item is acknowledged as completed only if its run finished with a
\* completed or abstained result, whichever scheduler acknowledges it and
\* however many leases were lost (finish_work, finish_run).
CompletedHasResult ==
    \A w \in Work : work[w].status = "completed" => run[w].status \in {"completed", "abstained"}

\* At most one scheduler executes an item, also when the lease of the first
\* expired and a second one claimed it (the registry of Supervisor::run).
SingleExecutor == \A w \in Work : \A s, t \in Caller(w) : s = t

\* No run has a result while one of its children waits in its wait row, and
\* only direct children with a row are waited for (finish_run, park_run).
WaitRowsMatchRuns ==
    \A r \in Runs : waits[r] # {} =>
        /\ run[r].status \in {"waiting", "interrupted"}
        /\ waits[r] \subseteq ChildrenOf(r)

\* Settled items and finished runs stay as they are: no claim, late
\* acknowledgement, stopped parent or recovery changes them.
SettledIsFinal ==
    [][/\ \A w \in Work : work[w].status \in WorkTerminal => work'[w].status = work[w].status
       /\ \A r \in Runs : run[r].status \in RunTerminal => run'[r].status = run[r].status]_vars

\* A child held by a wait is claimed by its parent's scheduler only
\* (claim_work_filter).
WaitedChildrenAreReserved ==
    [][\A r \in Runs : \A w \in waits[r] :
          work'[w].attempts # work[w].attempts => work'[w].owner = r]_vars

\* A wait survives interruption and restart: it is removed only when every
\* child has settled or the parent has its final result.
WaitIsDurable ==
    [][\A r \in Runs : waits[r] # {} /\ waits'[r] # waits[r] =>
          ~WaitRequired(r) \/ run'[r].status \in RunTerminal]_vars

\* While its lease is in force, a running item leaves that status only when
\* its recorded owner acknowledges it, or when the host restarts.
LiveLeaseEndsWithItsOwner ==
    [][\A w \in Work :
          HoldsLease(work[w].owner, w) /\ work'[w].status # "running" /\ crashes' = crashes =>
             /\ sched[work[w].owner].at = "settle"
             /\ sched[work[w].owner].work = w]_vars

\* A parked parent that ends cancelled or exhausted leaves no child of its
\* wait queued, and no unsettled child with an open allocation.
StoppedParentClosesChildren ==
    [][\A r \in Runs : \A w \in waits[r] :
          run[r].status = "waiting" /\ run'[r].status \in {"cancelled", "exhausted"} =>
             /\ work'[w].status # "queued"
             /\ work'[w].status \in Unsettled => work'[w].alloc # "open"]_vars

\* What lets a task take its next step by itself.  A queued run needs a slot, or
\* somebody in a session who gives one back; a parked one needs to be stopped or
\* finished with its wait, or a child that it can claim or whose lease can expire.
\* A run that is parked while its scheduler awaits a child cannot.
CanMove(r) ==
    \/ task[r].at \in {"starting", "begun", "resumed", "session", "ending", "closing"}
    \/ /\ task[r].at = "queued"
       /\ \/ task[r].cancel \/ expired \/ Cardinality(InSession) < Capacity
          \/ \E q \in Runs : task[q].at = "session"
    \/ /\ task[r].at = "parked"
       /\ \/ sched[r].at \in {"claimed", "settle"}
          \/ /\ sched[r].at = "idle"
             /\ \/ task[r].cancel \/ expired \/ ~WaitRequired(r)
                \/ Claimable(r) # {}
                \/ \E w \in waits[r] : work[w].status = "running" /\ work[w].leased

Below(r) == {r} \cup {w \in Work : r \in work[w].above}

\* Nobody waits in a circle: below every registered task, that task included, is
\* one that can move, whatever number of slots there is and however deep parents
\* are parked on parents (run_waited_work, Supervisor::run).
SomeoneBelowCanMove ==
    \A r \in Runs : task[r].at # "idle" => \E q \in Below(r) : CanMove(q)

\* docs/protocol.md:101: a run result saved before the work lease was
\* acknowledged is recorded by the scheduler.  An item whose run completed is
\* then never reported as failed.
SavedResultIsRecorded ==
    \A w \in Work : run[w].status = "completed" => work[w].status # "failed"

-----------------------------------------------------------------------------
(* Liveness.  The host's scheduling is fair: tokio polls every task, the   *)
(* slot semaphore is first come first served, and a lease that nobody      *)
(* renews expires.  A run cannot park for ever: each session spends model  *)
(* calls of a finite budget before it may park, so one of them ends.       *)

Fairness ==
    /\ \A r \in Runs :
          /\ WF_vars(BeginRun(r) \/ BeginRunDenied(r))
          /\ WF_vars(EnterLoop(r) \/ StopTask(r) \/ ReconcileEffects(r))
          /\ SF_vars(AcquireSlot(r))
          /\ SF_vars(\E d \in Answers : EndSession(r, d))
          /\ WF_vars(ResumeWaiting(r))
          /\ WF_vars(StopWaitingChildren(r) \/ FinishRun(r))
          /\ WF_vars(PassCancel(r))
    /\ \A s \in Schedulers :
          WF_vars(ReuseResult(s) \/ RunClaimed(s) \/ FinishWork(s))
    /\ \A s \in Runs :
          WF_vars((\E w \in Work, F \in SUBSET Work : ClaimWork(s, w, F)) \/ ClaimNothing(s))
    /\ \A w \in Work : WF_vars(LeaseExpires(w))

FairSpec == Spec /\ Fairness

\* A parked parent leaves its wait, also with a single worker slot and with
\* children that park in turn (run_waited_work releases the slot).
ParkedRunProceeds == \A r \in Runs : task[r].at = "parked" ~> task[r].at # "parked"
=============================================================================
