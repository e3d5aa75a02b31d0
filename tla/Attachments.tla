----------------------------- MODULE Attachments -----------------------------
(***************************************************************************)
(* Attached executions: the host that observes an external agent, routes   *)
(* what it sees into maintenance work, runs that work one item at a time,  *)
(* delivers the results as feedback, and may take the external writer over *)
(* for one bounded repair (attachments/*.rs, subscriptions.rs).            *)
(*                                                                         *)
(* The host's event loop owns one connection to the database; the tasks it *)
(* spawned write through the supervisor's connections, between any two of  *)
(* its statements that are not in one transaction.  Tables survive Crash.  *)
(*                                                                         *)
(* A work id is also the identity of the run that executes it, of its      *)
(* feedback row and, for a repair, of the handoff generation it carries.   *)
(* Work holds as many ids as the grant has work items.  Time is abstracted *)
(* to "the grant deadline passed" and "the handoff deadline passed".       *)
(***************************************************************************)
EXTENDS Naturals, Sequences, FiniteSets

CONSTANTS
    Attachments,       \* attachment identities, one execution each
    Work,              \* work items the grant may create (max_work_items)
    None,              \* no attachment, no work
    CoordinatedWrites, \* policy.allow_coordinated_writes
    Kinds,             \* kinds of event the connector reports
    BatchSize,         \* policy.batch_size
    MaxBacklog,        \* policy.max_backlog
    MaxAttempts,       \* claims of one item before it fails (3 in the code)
    MaxDeliveries,     \* deliveries of one feedback (3 in the code)
    Answers,           \* dispositions a worker session may end with
    Outcomes,          \* acknowledgements the connector sends
    Steering,          \* policy.allow_steering
    Parking,           \* whether sessions wait for child work
    Disturbances,      \* what may happen around the host, of AllDisturbances
    MaxEvents,         \* bound on the events of one execution explored
    MaxStarts          \* bound on host processes started

AllDisturbances == {"deadline", "handoff deadline", "outdated", "source deleted"}

ASSUME AttachmentsAssumption ==
    /\ None \notin Attachments \cup Work
    /\ CoordinatedWrites \in BOOLEAN /\ Parking \in BOOLEAN /\ Steering \in BOOLEAN
    /\ Outcomes \subseteq {"acknowledged", "rejected", "unknown"}
    /\ Disturbances \subseteq AllDisturbances
    /\ Kinds \subseteq {"started", "tool", "completed", "failed"}
    /\ BatchSize \in Nat \ {0} /\ MaxBacklog \in Nat \ {0}
    /\ MaxAttempts \in Nat \ {0} /\ MaxDeliveries \in Nat \ {0}
    /\ Answers \subseteq {"completed", "abstained", "cancelled", "exhausted",
                          "interrupted", "failed"}
    /\ MaxEvents \in Nat /\ MaxStarts \in Nat

VARIABLES
    att,     \* table attachments
    log,     \* table events: what each execution reported, in cursor order
    sub,     \* table subscriptions: cursor and pending references
    work,    \* tables work and attachment_work
    run,     \* tables runs and run_waits
    fb,      \* table attachment_feedback
    write,   \* each run's newest write to the live workspace
    task,    \* the supervised task of each run, seen from the host's loop
    loop,    \* what the host's event loop is doing
    expired, \* the grant deadline has passed
    starts   \* host processes so far

vars == <<att, log, sub, work, run, fb, write, task, loop, expired, starts>>

-----------------------------------------------------------------------------
Dispositions == {"completed", "abstained", "cancelled", "exhausted",
                 "interrupted", "failed"}
Unsettled == {"queued", "running", "interrupted"}
WorkStatuses == Unsettled \cup {"completed", "failed", "cancelled", "exhausted"}
Open == {"active", "interrupted"}

AttachmentRow == [state : {"none", "active", "interrupted", "detached", "completed"},
                  source : {"unknown", "running", "completed", "failed"},
                  handoff : {"none", "held", "unknown", "released"},
                  gen : Work \cup {None}, late : BOOLEAN]
\* settle_attachment_work can also write a status that WorkStatuses lacks.
WorkRow == [status : {"none", "waiting"} \cup WorkStatuses, attempts : 0..MaxAttempts,
            att : Attachments \cup {None}, events : SUBSET (1..MaxEvents)]
RunRow == [status : {"none", "running", "waiting"} \cup Dispositions,
           saved : {"none"} \cup Dispositions, waits : BOOLEAN]
Feedback == [state : {"none", "pending", "delivered", "acknowledged", "rejected",
                      "unknown", "expired"},
             disp : {"none"} \cup Dispositions, attempts : 0..MaxDeliveries,
             current : BOOLEAN]
Task == [at : {"idle", "starting", "begun", "session", "parked", "done"},
         disp : Dispositions, cancel : BOOLEAN]

\* Every row, task and the loop has the shape the code gives it; no feedback
\* is delivered more than MaxDeliveries times.
TypeOK ==
    /\ att \in [Attachments -> AttachmentRow]
    /\ log \in [Attachments -> Seq(Kinds)]
    /\ sub \in [Attachments -> [cursor : Nat, pending : SUBSET (1..MaxEvents)]]
    /\ work \in [Work -> WorkRow]
    /\ run \in [Work -> RunRow]
    /\ fb \in [Work -> Feedback]
    /\ write \in [Work -> {"none", "prepared", "dispatched", "unknown"}]
    /\ task \in [Work -> Task]
    /\ loop \in [at : {"down", "select", "route", "claim", "closing"},
                 todo : SUBSET Attachments]
    /\ expired \in BOOLEAN
    /\ starts \in 0..MaxStarts

NoTask == [at |-> "idle", disp |-> "interrupted", cancel |-> FALSE]
NoFeedback == [state |-> "none", disp |-> "none", attempts |-> 0, current |-> FALSE]
At(p) == [at |-> p, todo |-> {}]

Init ==
    /\ att = [a \in Attachments |-> [state |-> "none", source |-> "unknown",
                                     handoff |-> "none", gen |-> None, late |-> FALSE]]
    /\ log = [a \in Attachments |-> <<>>]
    /\ sub = [a \in Attachments |-> [cursor |-> 0, pending |-> {}]]
    /\ work = [w \in Work |-> [status |-> "none", attempts |-> 0, att |-> None,
                               events |-> {}]]
    /\ run = [w \in Work |-> [status |-> "none", saved |-> "none", waits |-> FALSE]]
    /\ fb = [w \in Work |-> NoFeedback]
    /\ write = [w \in Work |-> "none"]
    /\ task = [w \in Work |-> NoTask]
    /\ loop = At("down")
    /\ expired = FALSE
    /\ starts = 0

-----------------------------------------------------------------------------
(* What the rows of an attachment say.                                     *)

WorkOf(a) == {w \in Work : work[w].att = a}
Fenced(a) == att[a].handoff \in {"held", "unknown"}
ActiveTasks == {w \in Work : task[w].at # "idle"}

ActiveAttachment(a) == att[a].state = "active" /\ ~expired

\* attachment_status: its counts of queued, running and pending rows.
QueuedWork(a) == {w \in WorkOf(a) : work[w].status \in {"queued", "interrupted"}}
RunningWork(a) == {w \in WorkOf(a) : work[w].status = "running"}
PendingFeedback(a) == {w \in WorkOf(a) : fb[w].state \in {"pending", "delivered"}}

Interrupted(row) ==
    IF row.state \in {"none", "detached", "completed"} THEN row
    ELSE [row EXCEPT !.state = "interrupted",
                     !.source = IF @ = "running" THEN "unknown" ELSE @,
                     !.handoff = IF @ = "held" THEN "unknown" ELSE @]

InterruptAll == [a \in Attachments |-> Interrupted(att[a])]

\* cancel_attachment: the watch channel of each active run of A is signalled.
CancelTasks(A) ==
    [w \in Work |-> IF task[w].at # "idle" /\ work[w].att \in A
                    THEN [task[w] EXCEPT !.cancel = TRUE] ELSE task[w]]

-----------------------------------------------------------------------------
(* Requests of the connected harness, one at a time between two ticks.     *)

\* Fault: a handoff whose outcome is unknown admits a new attachment.
NoHandoffHeld == \A b \in Attachments : att[b].handoff # "held"

NoHandoffUnsettled == \A b \in Attachments : ~Fenced(b)

\* open_attachment: a known identity is reactivated, a new one needs every
\* handoff of the workspace settled.
OpenAttachment(a) ==
    /\ loop.at = "select" /\ ~expired
    /\ \/ /\ att[a].state \in Open
          /\ att' = [att EXCEPT ![a].state = "active"]
       \/ /\ att[a].state = "none"
          /\ NoHandoffUnsettled
          /\ att' = [att EXCEPT ![a].state = "active"]
    /\ UNCHANGED <<log, sub, work, run, fb, write, task, loop, expired, starts>>

SourceAfter(kind, status) ==
    CASE kind = "started" -> "running"
      [] kind \in {"completed", "failed"} -> kind
      [] OTHER -> status

\* A batch that would exceed the backlog is rolled back as a whole.
AppendEvents(a, kind) ==
    /\ loop.at = "select" /\ ActiveAttachment(a)
    /\ Len(log[a]) < MaxEvents
    /\ Len(log[a]) - sub[a].cursor < MaxBacklog
    /\ log' = [log EXCEPT ![a] = Append(@, kind)]
    /\ att' = [att EXCEPT ![a].source = SourceAfter(kind, @)]
    /\ UNCHANGED <<sub, work, run, fb, write, task, loop, expired, starts>>

CompleteSource(a) ==
    /\ loop.at = "select" /\ ActiveAttachment(a)
    /\ att[a].source \in {"running", "unknown"}
    /\ att' = [att EXCEPT ![a].source = "completed"]
    /\ UNCHANGED <<log, sub, work, run, fb, write, task, loop, expired, starts>>

InterruptAttachment(a) ==
    /\ loop.at = "select" /\ att[a].state # "none"
    /\ att' = [att EXCEPT ![a] = Interrupted(@)]
    /\ task' = CancelTasks({a})
    /\ UNCHANGED <<log, sub, work, run, fb, write, loop, expired, starts>>

\* Fault: running work is forgotten when a detach is classified.
FinishedIgnoringRunning(a) == /\ att[a].source = "completed"
                              /\ QueuedWork(a) \cup PendingFeedback(a) = {}

Finished(a) == /\ att[a].source = "completed"
               /\ QueuedWork(a) \cup RunningWork(a) \cup PendingFeedback(a) = {}

\* detach_attachment, then cancel_attachment for what is still running.
Detach(a) ==
    /\ loop.at = "select" /\ att[a].state # "none" /\ ~Fenced(a)
    /\ att' = [att EXCEPT ![a].state = IF Finished(a) THEN "completed" ELSE "detached"]
    /\ work' = [w \in Work |-> IF w \in QueuedWork(a)
                               THEN [work[w] EXCEPT !.status = "cancelled"] ELSE work[w]]
    /\ task' = CancelTasks({a})
    /\ UNCHANGED <<log, sub, run, fb, write, loop, expired, starts>>

-----------------------------------------------------------------------------
(* Delivery of results to the harness.                                     *)

\* publish_attachment_result: INSERT OR IGNORE, the first result stays.
Published(row, disp) ==
    IF row.state = "none"
    THEN [state |-> "pending", disp |-> disp, attempts |-> 0, current |-> TRUE]
    ELSE row

WorkStatusOf(status) == IF status = "abstained" THEN "completed" ELSE status

\* Fault: results of work that is not running are not looked at.
ToSettleRunningOnly(W, R, F) ==
    {w \in Work : /\ W[w].status = "running"
                  /\ R[w].status \notin {"none", "running", "interrupted"}
                  /\ R[w].saved # "none"}

\* settle_attachment_work: the rows it selects, from whatever tables a caller
\* has in hand.
ToSettle(W, R, F) ==
    {w \in Work :
        /\ W[w].status # "none"
        /\ R[w].status \notin {"none", "running", "interrupted"}
        /\ R[w].saved # "none"
        /\ W[w].status \in {"running", "interrupted"} \/ F[w].state = "none"}

SettledWork(W, R, F) ==
    [w \in Work |-> IF w \in ToSettle(W, R, F)
                    THEN [W[w] EXCEPT !.status = WorkStatusOf(R[w].status)] ELSE W[w]]
SettledFeedback(W, R, F) ==
    [w \in Work |-> IF w \in ToSettle(W, R, F) THEN Published(F[w], R[w].saved)
                    ELSE F[w]]

\* One page of feedback: each row it reaches is delivered, expired or given up.
AfterDelivery(a, row) ==
    IF ~row.current \/ att[a].state # "active" THEN [row EXCEPT !.state = "expired"]
    ELSE IF row.attempts >= MaxDeliveries THEN [row EXCEPT !.state = "unknown"]
    ELSE [row EXCEPT !.state = "delivered", !.attempts = @ + 1]

\* The page ends where the frame is full.
DeliverFeedback(a) ==
    /\ loop.at = "select" /\ ActiveAttachment(a)
    /\ \E page \in SUBSET PendingFeedback(a) :
          fb' = [w \in Work |-> IF w \in page THEN AfterDelivery(a, fb[w]) ELSE fb[w]]
    /\ UNCHANGED <<att, log, sub, work, run, write, task, loop, expired, starts>>

Acknowledgeable(w) == fb[w].state \in {"delivered", "unknown"}

Acknowledge(w, outcome) ==
    /\ loop.at = "select" /\ Acknowledgeable(w)
    /\ fb' = [fb EXCEPT ![w].state = outcome]
    /\ UNCHANGED <<att, log, sub, work, run, write, task, loop, expired, starts>>

\* The control intent is uncertain from before the harness queues it.
Steer(w) ==
    /\ Steering /\ loop.at = "select" /\ work[w].att # None /\ ActiveAttachment(work[w].att)
    /\ fb[w].state = "delivered" /\ fb[w].current
    /\ fb' = [fb EXCEPT ![w].state = "unknown"]
    /\ UNCHANGED <<att, log, sub, work, run, write, task, loop, expired, starts>>

\* An artifact changed, a record was withdrawn or the feedback's time is up.
Outdate(w) ==
    /\ "outdated" \in Disturbances
    /\ fb[w].state # "none" /\ fb[w].current
    /\ fb' = [fb EXCEPT ![w].current = FALSE]
    /\ UNCHANGED <<att, log, sub, work, run, write, task, loop, expired, starts>>

\* The owner deletes the event a result rests on.
DeleteResultSource(w) ==
    /\ "source deleted" \in Disturbances
    /\ run[w].saved # "none"
    /\ run' = [run EXCEPT ![w].saved = "none"]
    /\ fb' = [fb EXCEPT ![w].state = IF @ = "none" THEN @ ELSE "expired",
                        ![w].current = FALSE]
    /\ UNCHANGED <<att, log, sub, work, write, task, loop, expired, starts>>

-----------------------------------------------------------------------------
(* Coordinated repair: one work item owns the live workspace.              *)

Enqueued(W, w, a, events) ==
    [W EXCEPT ![w] = [status |-> "queued", attempts |-> 0, att |-> a, events |-> events]]

BeginRepair(a, w) ==
    /\ loop.at = "select" /\ CoordinatedWrites /\ ActiveAttachment(a) /\ ~Fenced(a)
    /\ \A b \in Attachments \ {a} : att[b].state \notin Open
    /\ QueuedWork(a) \cup RunningWork(a) = {}
    /\ log[a] # <<>>
    /\ work[w].status = "none"
    /\ work' = Enqueued(work, w, a, {})
    /\ att' = [att EXCEPT ![a].handoff = "held", ![a].gen = w, ![a].late = FALSE]
    /\ UNCHANGED <<log, sub, run, fb, write, task, loop, expired, starts>>

ExecutorFree == \A w \in Work : write[w] \notin {"prepared", "dispatched"}

\* What reconcile_run leaves of a write whose outcome nobody recorded.
Reconciled(w) == IF write[w] = "unknown" THEN {"none", "unknown"} ELSE {write[w]}

\* Fault: an unknown write does not keep the handoff.
ReleasableIgnoringUnknown(w, outcome) == run[w].status # "running"

\* An unstarted run has no receipts; those of a started one must all be known.
Releasable(w, outcome) ==
    /\ run[w].status # "running"
    /\ run[w].status # "none" => outcome # "unknown"

Release(a, w) ==
    /\ loop.at = "select" /\ ExecutorFree
    /\ att[a].gen = w /\ Fenced(a)
    /\ \E outcome \in Reconciled(w) :
          /\ Releasable(w, outcome)
          /\ write' = [write EXCEPT ![w] = outcome]
    /\ work' = [work EXCEPT ![w].status = IF @ \in Unsettled THEN "cancelled" ELSE @]
    /\ att' = [att EXCEPT ![a].handoff = "released"]
    /\ UNCHANGED <<log, sub, run, fb, task, loop, expired, starts>>

\* The owner inspects an unknown write and decides it (effect.settle).
SettleEffect(w) ==
    /\ loop.at = "select" /\ ExecutorFree
    /\ write[w] = "unknown" /\ run[w].status # "running"
    /\ write' = [write EXCEPT ![w] = "none"]
    /\ UNCHANGED <<att, log, sub, work, run, fb, task, loop, expired, starts>>

HandoffExpires(a) ==
    /\ "handoff deadline" \in Disturbances
    /\ att[a].handoff = "held" /\ ~att[a].late
    /\ att' = [att EXCEPT ![a].late = TRUE]
    /\ UNCHANGED <<log, sub, work, run, fb, write, task, loop, expired, starts>>

-----------------------------------------------------------------------------
(* The tick of the event loop: settle, route every attachment, claim.      *)

TickSettle ==
    /\ loop.at = "select"
    /\ loop' = [at |-> "route", todo |-> {a \in Attachments : att[a].state # "none"}]
    /\ work' = SettledWork(work, run, fb)
    /\ fb' = SettledFeedback(work, run, fb)
    /\ UNCHANGED <<att, log, sub, run, write, task, expired, starts>>

Routed == {"tool", "completed", "failed"} \* policy.event_kinds

\* The references a poll holds: those it kept and those of the page it reads.
Batch(a) == sub[a].pending \cup
            {i \in sub[a].cursor + 1 .. Len(log[a]) : log[a][i] \in Routed}

\* A batch is due when it is full, when the source does not run (flush), or
\* when its oldest reference waited max_delay_ms.
MayWait(a) == Cardinality(Batch(a)) < BatchSize /\ att[a].source = "running"

\* Fault: references that were enqueued stay pending.
PolledKeepingPending(a) == [cursor |-> Len(log[a]), pending |-> Batch(a)]

Polled(a) == [cursor |-> Len(log[a]), pending |-> {}]

Skip(a) == loop' = [loop EXCEPT !.todo = @ \ {a}]

\* route_attachment, for an attachment the tick saw active.
RouteWaits(a) ==
    /\ loop.at = "route" /\ a \in loop.todo /\ ActiveAttachment(a)
    /\ Skip(a)
    /\ IF Fenced(a) \/ log[a] = <<>> THEN UNCHANGED sub
       ELSE /\ Batch(a) = {} \/ MayWait(a)
            /\ sub' = [sub EXCEPT ![a] = [cursor |-> Len(log[a]), pending |-> Batch(a)]]
    /\ UNCHANGED <<att, log, work, run, fb, write, task, expired, starts>>

RouteBatch(a, w) ==
    /\ loop.at = "route" /\ a \in loop.todo /\ ActiveAttachment(a)
    /\ ~Fenced(a) /\ Batch(a) # {}
    /\ work[w].status = "none"
    /\ work' = Enqueued(work, w, a, Batch(a))
    /\ sub' = [sub EXCEPT ![a] = Polled(a)]
    /\ Skip(a)
    /\ UNCHANGED <<att, log, run, fb, write, task, expired, starts>>

\* The deadline passed, or the grant has no work item left: nothing is polled.
RouteFails(a) ==
    /\ loop.at = "route" /\ a \in loop.todo /\ att[a].state = "active"
    /\ \/ expired
       \/ ~Fenced(a) /\ Batch(a) # {} /\ \A w \in Work : work[w].status # "none"
    /\ att' = [att EXCEPT ![a] = Interrupted(@)]
    /\ task' = CancelTasks({a})
    /\ Skip(a)
    /\ UNCHANGED <<log, sub, work, run, fb, write, expired, starts>>

RouteInactive(a) ==
    /\ loop.at = "route" /\ a \in loop.todo /\ att[a].state # "active"
    /\ task' = CancelTasks({a})
    /\ Skip(a)
    /\ UNCHANGED <<att, log, sub, work, run, fb, write, expired, starts>>

RoutedAll ==
    /\ loop.at = "route" /\ loop.todo = {}
    /\ loop' = At(IF ActiveTasks = {} /\ ~expired THEN "claim" ELSE "select")
    /\ UNCHANGED <<att, log, sub, work, run, fb, write, task, expired, starts>>

\* Fault: a held handoff keeps even its own work from being claimed.
ClaimableUnfencedOnly(w) ==
    /\ work[w].status \in {"queued", "interrupted"}
    /\ att[work[w].att].state = "active"
    /\ ~Fenced(work[w].att)

Claimable(w) ==
    /\ work[w].status \in {"queued", "interrupted"}
    /\ att[work[w].att].state = "active"
    /\ \/ ~Fenced(work[w].att)
       \/ att[work[w].att].handoff = "held" /\ att[work[w].att].gen = w

Exhausted(w) == work[w].attempts >= MaxAttempts

\* One transaction fails the exhausted items it meets, and takes the first
\* other one in the order of the random identities.
Claim(w) ==
    /\ loop.at = "claim" /\ ~expired
    /\ Claimable(w) /\ ~Exhausted(w)
    /\ \E F \in SUBSET {v \in Work : Claimable(v) /\ Exhausted(v)} :
          work' = [v \in Work |->
                     IF v \in F THEN [work[v] EXCEPT !.status = "failed"]
                     ELSE IF v = w THEN [work[v] EXCEPT !.status = "running",
                                                        !.attempts = @ + 1]
                     ELSE work[v]]
    /\ task' = [task EXCEPT ![w] = [NoTask EXCEPT !.at = "starting"]]
    /\ loop' = At("select")
    /\ UNCHANGED <<att, log, sub, run, fb, write, expired, starts>>

ClaimNothing ==
    /\ loop.at = "claim" /\ ~expired
    /\ \A w \in Work : Claimable(w) => Exhausted(w)
    /\ work' = [w \in Work |-> IF Claimable(w) THEN [work[w] EXCEPT !.status = "failed"]
                               ELSE work[w]]
    /\ loop' = At("select")
    /\ UNCHANGED <<att, log, sub, run, fb, write, task, expired, starts>>

-----------------------------------------------------------------------------
(* The supervised task of a claimed item (supervisor.rs run_owned).        *)

CanBegin(w) == \/ run[w].status = "interrupted"
               \/ run[w].status = "none" /\ ~expired

BeginRun(w) ==
    /\ task[w].at = "starting" /\ CanBegin(w)
    /\ run' = [run EXCEPT ![w].status = IF run[w].waits THEN "waiting" ELSE "running"]
    /\ task' = [task EXCEPT ![w].at = "begun"]
    /\ UNCHANGED <<att, log, sub, work, fb, write, loop, expired, starts>>

\* The task returns an error: nothing is recorded for the run.
TaskFails(w) ==
    /\ \/ task[w].at = "starting" /\ ~CanBegin(w)
       \/ task[w].at = "begun" /\ write[w] = "unknown"
    /\ task' = [task EXCEPT ![w].at = "done", ![w].disp = "failed"]
    /\ UNCHANGED <<att, log, sub, work, run, fb, write, loop, expired, starts>>

\* Effects of an earlier attempt are reconciled before the worker starts.
EnterSession(w) ==
    /\ task[w].at = "begun" /\ ~task[w].cancel
    /\ write' = [write EXCEPT ![w] = "none"]
    /\ task' = [task EXCEPT ![w].at = IF run[w].waits THEN "parked" ELSE "session"]
    /\ UNCHANGED <<att, log, sub, work, run, fb, loop, expired, starts>>

RequireActive(w) ==
    /\ run[w].status = "running"
    /\ att[work[w].att].state = "active"
    /\ ~expired

\* A repair may not park: its work ends within the handoff.
Park(w) ==
    /\ Parking /\ task[w].at = "session" /\ RequireActive(w)
    /\ ~Fenced(work[w].att) /\ write[w] = "none"
    /\ run' = [run EXCEPT ![w].status = "waiting", ![w].waits = TRUE]
    /\ task' = [task EXCEPT ![w].at = "parked"]
    /\ UNCHANGED <<att, log, sub, work, fb, write, loop, expired, starts>>

Unpark(w) ==
    /\ task[w].at = "parked"
    /\ run' = [run EXCEPT ![w].waits = FALSE,
                          ![w].status = IF @ = "waiting" THEN "running" ELSE @]
    /\ task' = [task EXCEPT ![w].at = "session"]
    /\ UNCHANGED <<att, log, sub, work, fb, write, loop, expired, starts>>

FinishedRun(row, d) ==
    IF row.status \in {"running", "waiting"}
    THEN [status |-> d, saved |-> d, waits |-> row.waits /\ d = "interrupted"]
    ELSE row

\* How a task may end: as the worker answers, as it was stopped, or broken.
Endings(w) ==
    {"interrupted"} \cup (IF task[w].at = "session" THEN Answers ELSE {})
                    \cup (IF task[w].cancel THEN {"cancelled"} ELSE {})
                    \cup (IF expired THEN {"exhausted"} ELSE {})

\* Dispatched operations settle before the task returns.
EndTask(w) ==
    /\ task[w].at \in {"begun", "session", "parked"}
    /\ write[w] \in {"none", "unknown"}
    /\ \E d \in Endings(w) :
          /\ run' = [run EXCEPT ![w] = FinishedRun(@, d)]
          /\ task' = [task EXCEPT ![w].at = "done", ![w].disp = d]
    /\ UNCHANGED <<att, log, sub, work, fb, write, loop, expired, starts>>

-----------------------------------------------------------------------------
(* A write to the live workspace, under the executor's lock.               *)

RequireAttachmentWrite(w) ==
    /\ att[work[w].att].handoff = "held"
    /\ att[work[w].att].gen = w
    /\ ~att[work[w].att].late

PrepareWrite(w) ==
    /\ task[w].at = "session" /\ ExecutorFree /\ write[w] = "none"
    /\ RequireActive(w) /\ RequireAttachmentWrite(w)
    /\ write' = [write EXCEPT ![w] = "prepared"]
    /\ UNCHANGED <<att, log, sub, work, run, fb, task, loop, expired, starts>>

\* Everything is looked at again once the slow checks are done.
DispatchWrite(w) ==
    /\ write[w] = "prepared"
    /\ RequireActive(w) /\ RequireAttachmentWrite(w)
    /\ \A v \in Work : write[v] # "unknown"
    /\ write' = [write EXCEPT ![w] = "dispatched"]
    /\ UNCHANGED <<att, log, sub, work, run, fb, task, loop, expired, starts>>

WriteReturns(w) ==
    /\ \/ write[w] = "prepared" /\ write' = [write EXCEPT ![w] = "none"]
       \/ write[w] = "dispatched"
          /\ \E outcome \in {"none", "unknown"} : write' = [write EXCEPT ![w] = outcome]
    /\ UNCHANGED <<att, log, sub, work, run, fb, task, loop, expired, starts>>

-----------------------------------------------------------------------------
(* completed: what the loop does with a task that returned.                *)

PublishedWith(w, R) == [fb EXCEPT ![w] = Published(@, R[w].status)]

\* finish_work: a lease that is no longer running must agree with the result.
LeaseCloses(status, final) == status = "running" \/ status = final

\* An error leaves the loop; its other tasks are asked to stop.
LoopFails == loop' = At("closing")

\* Publish the result of w, interrupt its attachment if it was interrupted,
\* settle, and close the lease.
CompletedRun(w) ==
    LET R == [run EXCEPT ![w] = FinishedRun(@, task[w].disp)]
        F == PublishedWith(w, R)
        W == SettledWork(work, R, F)
        final == WorkStatusOf(R[w].status)
    IN  /\ run[w].status # "none" /\ work[w].status # "waiting"
        /\ run' = R
        /\ fb' = SettledFeedback(work, R, F)
        /\ att' = IF R[w].status = "interrupted"
                  THEN [att EXCEPT ![work[w].att] = Interrupted(@)] ELSE att
        /\ IF LeaseCloses(W[w].status, final)
           THEN work' = [W EXCEPT ![w].status = final] /\ UNCHANGED loop
           ELSE work' = W /\ LoopFails

\* There is no run to read a result from, or no item that still decodes.
CompletedUnreadable(w) ==
    /\ run[w].status = "none" \/ work[w].status = "waiting"
    /\ run' = [run EXCEPT ![w] = FinishedRun(@, task[w].disp)]
    /\ LoopFails
    /\ UNCHANGED <<att, work, fb>>

Completed(w) ==
    /\ loop.at \in {"select", "closing"} /\ task[w].at = "done"
    /\ CompletedRun(w) \/ CompletedUnreadable(w)
    /\ task' = [task EXCEPT ![w] = NoTask]
    /\ UNCHANGED <<log, sub, write, expired, starts>>

-----------------------------------------------------------------------------
(* The host process and its deadline.                                      *)

Closing == /\ loop' = At("closing")
           /\ task' = CancelTasks(Attachments)
           /\ UNCHANGED <<att, log, sub, work, run, fb, write, expired, starts>>

\* The harness closes its pipe, or the application cancels the host.
Disconnect == loop.at = "select" /\ Closing

\* The renewal timer meets a lease that is gone, or one that the deadline cut.
RenewFails ==
    /\ loop.at = "select"
    /\ \E w \in ActiveTasks : work[w].status # "running" \/ expired
    /\ Closing

\* claim_work_filter is refused when the deadline passed since the tick looked.
ClaimExpires == loop.at = "claim" /\ expired /\ Closing

\* serve returns once the last task did.
HostExit ==
    /\ loop.at = "closing" /\ ActiveTasks = {}
    /\ loop' = At("down")
    /\ att' = InterruptAll
    /\ UNCHANGED <<log, sub, work, run, fb, write, task, expired, starts>>

\* The process dies: a dispatched write has an outcome nobody recorded.
Crash ==
    /\ loop.at # "down"
    /\ loop' = At("down")
    /\ task' = [w \in Work |-> NoTask]
    /\ write' = [w \in Work |-> CASE write[w] = "dispatched" -> "unknown"
                                  [] write[w] = "prepared" -> "none"
                                  [] OTHER -> write[w]]
    /\ UNCHANGED <<att, log, sub, work, run, fb, expired, starts>>

\* Runtime::new interrupts what ran, AttachmentHost::new then interrupts the
\* attachments, makes unacknowledged deliveries pending again and settles.
RecoveredWork == [w \in Work |-> IF work[w].status = "running"
                                 THEN [work[w] EXCEPT !.status = "interrupted"] ELSE work[w]]
RecoveredRuns == [w \in Work |-> IF run[w].status \in {"running", "waiting"}
                                 THEN [run[w] EXCEPT !.status = "interrupted"] ELSE run[w]]

\* Fault: control intents are delivered again as well.
RecoveredUnknownToo ==
    [w \in Work |-> IF fb[w].state \in {"delivered", "unknown"}
                    THEN [fb[w] EXCEPT !.state = "pending"] ELSE fb[w]]

RecoveredFeedback == [w \in Work |-> IF fb[w].state = "delivered"
                                     THEN [fb[w] EXCEPT !.state = "pending"] ELSE fb[w]]

Start ==
    /\ loop.at = "down" /\ starts < MaxStarts
    /\ starts' = starts + 1
    /\ loop' = At("select")
    /\ att' = InterruptAll
    /\ run' = RecoveredRuns
    /\ work' = SettledWork(RecoveredWork, RecoveredRuns, RecoveredFeedback)
    /\ fb' = SettledFeedback(RecoveredWork, RecoveredRuns, RecoveredFeedback)
    /\ UNCHANGED <<log, sub, write, task, expired>>

DeadlinePasses ==
    /\ "deadline" \in Disturbances
    /\ ~expired
    /\ expired' = TRUE
    /\ UNCHANGED <<att, log, sub, work, run, fb, write, task, loop, starts>>

-----------------------------------------------------------------------------
Harness ==
    \/ \E a \in Attachments : \/ OpenAttachment(a) \/ CompleteSource(a)
                              \/ InterruptAttachment(a) \/ Detach(a)
                              \/ DeliverFeedback(a) \/ HandoffExpires(a)
                              \/ \E kind \in Kinds : AppendEvents(a, kind)
                              \/ \E w \in Work : BeginRepair(a, w) \/ Release(a, w)
    \/ \E w \in Work : \/ Steer(w) \/ Outdate(w) \/ DeleteResultSource(w)
                       \/ SettleEffect(w)
                       \/ \E outcome \in Outcomes : Acknowledge(w, outcome)

Route(a) == RouteWaits(a) \/ RouteFails(a) \/ RouteInactive(a) \/ \E w \in Work : RouteBatch(a, w)
ClaimWork == ClaimNothing \/ ClaimExpires \/ \E w \in Work : Claim(w)
Tick == TickSettle \/ RoutedAll \/ ClaimWork \/ \E a \in Attachments : Route(a)

Advance(w) == BeginRun(w) \/ TaskFails(w) \/ EnterSession(w) \/ Unpark(w)
TaskStep(w) == \/ Advance(w) \/ Park(w) \/ EndTask(w)
               \/ PrepareWrite(w) \/ DispatchWrite(w) \/ WriteReturns(w)

Host == Disconnect \/ RenewFails \/ HostExit \/ Crash \/ Start

Next == \/ Harness \/ Tick \/ Host \/ DeadlinePasses
        \/ \E w \in Work : TaskStep(w) \/ Completed(w)

Spec == Init /\ [][Next]_vars

\* The loop polls every 50 ms and joins finished tasks between polls; a task
\* advances, its writes return, and its session ends by its budget.
Fairness ==
    /\ WF_vars(Tick)
    /\ \A w \in Work : /\ WF_vars(Advance(w)) /\ WF_vars(WriteReturns(w))
                       /\ SF_vars(EndTask(w)) /\ SF_vars(Completed(w))

FairSpec == Spec /\ Fairness

-----------------------------------------------------------------------------
(* Properties.                                                             *)

\* A run that is writing to the live workspace, or whose write has an unknown
\* outcome, is the one the handoff of its attachment names, and that handoff
\* has not been released: interruption, crash and late release requests never
\* give the external writer its turn back over an unsettled write (repair.rs).
LiveWriteNeedsHold ==
    \A w \in Work : write[w] # "none" =>
        /\ work[w].att # None
        /\ Fenced(work[w].att) /\ att[work[w].att].gen = w

\* While the writer of an attachment is stopped no other attachment of the
\* workspace is open: repair refuses when others are, open refuses new ones,
\* and a reconnection never revives another (mod.rs, repair.rs).
SingleCoordinator ==
    \A a, b \in Attachments : Fenced(a) /\ a # b => att[b].state \notin Open

\* Every event the policy routes is ahead of the cursor, or pending, or in one
\* batch, and never in two of those places: the poll advances the cursor and
\* enqueues the batch in one transaction (subscriptions.rs).
RoutedOnce ==
    \A a \in Attachments : \A i \in 1..Len(log[a]) : log[a][i] \in Routed =>
        LET batches == {w \in WorkOf(a) : i \in work[w].events}
        IN  IF i > sub[a].cursor \/ i \in sub[a].pending
            THEN batches = {} /\ (i > sub[a].cursor => i \notin sub[a].pending)
            ELSE Cardinality(batches) = 1

\* Advice whose fate the harness decided, or that may already have been acted
\* on, is never offered again, through reconnections and restarts; only the
\* withdrawal of its source still changes a decided one (feedback.rs).
AdviceIsNotRepeated ==
    [][\A w \in Work :
          /\ fb[w].state \in {"acknowledged", "rejected", "expired"} =>
                fb'[w].state \in {fb[w].state, "expired"}
          /\ fb[w].state = "unknown" =>
                fb'[w].state \in {"unknown", "acknowledged", "rejected", "expired"}]_vars

\* Between two ticks of a running host, no final result that a task left
\* behind is without its feedback, whichever process recorded it.
SavedResultsArePublished ==
    \A w \in Work :
        /\ loop.at \notin {"down", "closing"} /\ task[w].at = "idle"
        /\ run[w].status \in Dispositions \ {"interrupted"} /\ run[w].saved # "none"
        => fb[w].state # "none"

\* An attachment recorded as completed stays quiet: no batch of events is still
\* to be processed for it and no feedback on one is still to be delivered,
\* although results may be recorded between its statements (mod.rs). A repair
\* released before its run began is excepted: its task may finish later.
CompletedIsQuiet ==
    \A a \in Attachments : att[a].state = "completed" =>
        \A w \in QueuedWork(a) \cup RunningWork(a) \cup PendingFeedback(a) :
            work[w].events = {}

\* What was queued, a repair included, is settled, unless its attachment leaves
\* the active state, its handoff becomes unknown or its host goes away: no item
\* is passed over for ever (service.rs tick).
QueuedWorkSettles ==
    \A w \in Work :
        work[w].status = "queued" ~>
            \/ work[w].status \notin Unsettled
            \/ att[work[w].att].state # "active" \/ att[work[w].att].handoff = "unknown"
            \/ expired \/ loop.at \in {"closing", "down"}
=============================================================================
