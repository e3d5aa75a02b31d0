-------------------------- MODULE Attachments_proofs --------------------------
(* Invariance theorems about Attachments, for every value of its constants. *)
EXTENDS Attachments, FiniteSetTheorems, TLAPS

-----------------------------------------------------------------------------
(* Updates of a row, a task or a feedback keep its shape.                  *)

RowStatuses == {"none", "waiting"} \cup WorkStatuses
RunStatuses == {"none", "running", "waiting"} \cup Dispositions

LEMMA Limits == MaxAttempts \in Nat \ {0} /\ MaxDeliveries \in Nat \ {0} /\ MaxEvents \in Nat
                /\ MaxStarts \in Nat
  BY AttachmentsAssumption

LEMMA AttachmentUpdate ==
  ASSUME NEW x \in AttachmentRow
  PROVE  /\ \A s \in {"active", "interrupted", "detached", "completed"} :
               [x EXCEPT !.state = s] \in AttachmentRow
         /\ \A s \in {"unknown", "running", "completed", "failed"} :
               [x EXCEPT !.source = s] \in AttachmentRow
         /\ \A w \in Work :
               [x EXCEPT !.handoff = "held", !.gen = w, !.late = FALSE] \in AttachmentRow
         /\ [x EXCEPT !.handoff = "released"] \in AttachmentRow
         /\ [x EXCEPT !.late = TRUE] \in AttachmentRow
         /\ Interrupted(x) \in AttachmentRow
<1>1. /\ \A s \in {"active", "interrupted", "detached", "completed"} :
            [x EXCEPT !.state = s] \in AttachmentRow
      /\ \A s \in {"unknown", "running", "completed", "failed"} :
            [x EXCEPT !.source = s] \in AttachmentRow
  BY Zenon DEF AttachmentRow
<1>2. \A w \in Work :
         [x EXCEPT !.handoff = "held", !.gen = w, !.late = FALSE] \in AttachmentRow
  BY Zenon DEF AttachmentRow
<1>3. /\ [x EXCEPT !.handoff = "released"] \in AttachmentRow
      /\ [x EXCEPT !.late = TRUE] \in AttachmentRow
  BY Zenon DEF AttachmentRow
<1>4. Interrupted(x) \in AttachmentRow
<2>1. /\ x.source \in {"unknown", "running", "completed", "failed"}
      /\ x.handoff \in {"none", "held", "unknown", "released"}
  BY Zenon DEF AttachmentRow
<2> DEFINE so == IF x.source = "running" THEN "unknown" ELSE x.source
           ha == IF x.handoff = "held" THEN "unknown" ELSE x.handoff
<2>2. /\ so \in {"unknown", "running", "completed", "failed"}
      /\ ha \in {"none", "held", "unknown", "released"}
  BY <2>1, Zenon
<2> HIDE DEF so, ha
<2>3. [x EXCEPT !.state = "interrupted", !.source = so, !.handoff = ha] \in AttachmentRow
  BY <2>2, Zenon DEF AttachmentRow
<2> QED
  BY <2>3, Zenon DEF Interrupted, so, ha
<1> QED
  BY <1>1, <1>2, <1>3, <1>4, Zenon

LEMMA WorkUpdate ==
  ASSUME NEW x \in WorkRow, NEW s \in RowStatuses
  PROVE  /\ [x EXCEPT !.status = s] \in WorkRow
         /\ x.attempts + 1 \in 0..MaxAttempts =>
               [x EXCEPT !.status = s, !.attempts = @ + 1] \in WorkRow
         /\ x.status \in RowStatuses /\ x.attempts \in 0..MaxAttempts
  BY DEF WorkRow, RowStatuses

LEMMA TaskUpdate ==
  ASSUME NEW t \in Task, NEW x \in {"starting", "begun", "session", "parked", "done"},
         NEW d \in Dispositions
  PROVE  /\ [t EXCEPT !.at = x] \in Task
         /\ [t EXCEPT !.at = x, !.disp = d] \in Task
         /\ [t EXCEPT !.cancel = TRUE] \in Task
         /\ [NoTask EXCEPT !.at = x] \in Task
         /\ NoTask \in Task
         /\ t.disp \in Dispositions
  BY Zenon DEF Task, NoTask, Dispositions

LEMMA RunUpdate ==
  ASSUME NEW x \in RunRow
  PROVE  /\ \A s \in RunStatuses : [x EXCEPT !.status = s] \in RunRow
         /\ \A s \in RunStatuses, b \in BOOLEAN :
               [x EXCEPT !.status = s, !.waits = b] \in RunRow
         /\ \A s \in RunStatuses, b \in BOOLEAN :
               [x EXCEPT !.waits = b, !.status = s] \in RunRow
         /\ [x EXCEPT !.saved = "none"] \in RunRow
         /\ \A d \in Dispositions : FinishedRun(x, d) \in RunRow
         /\ x.status \in RunStatuses /\ x.saved \in {"none"} \cup Dispositions
         /\ x.waits \in BOOLEAN
  BY DEF RunRow, RunStatuses, FinishedRun

LEMMA FeedbackUpdate ==
  ASSUME NEW x \in Feedback
  PROVE  /\ \A s \in {"none", "pending", "delivered", "acknowledged", "rejected",
                      "unknown", "expired"} : [x EXCEPT !.state = s] \in Feedback
         /\ \A s \in {"none", "expired"} :
               [x EXCEPT !.state = s, !.current = FALSE] \in Feedback
         /\ [x EXCEPT !.current = FALSE] \in Feedback
         /\ \A d \in Dispositions : Published(x, d) \in Feedback
         /\ \A a : AfterDelivery(a, x) \in Feedback
         /\ x.state \in {"none", "pending", "delivered", "acknowledged", "rejected",
                         "unknown", "expired"}
<1>1. 0 \in 0..MaxDeliveries
  BY Limits
<1>2. x.attempts < MaxDeliveries => x.attempts + 1 \in 0..MaxDeliveries
  BY Limits DEF Feedback
<1>3. ASSUME NEW a PROVE AfterDelivery(a, x) \in Feedback
  <2>1. /\ [x EXCEPT !.state = "expired"] \in Feedback
        /\ [x EXCEPT !.state = "unknown"] \in Feedback
    BY DEF Feedback
  <2>2. CASE x.attempts < MaxDeliveries
    <3>1. [x EXCEPT !.state = "delivered", !.attempts = @ + 1] \in Feedback
      BY <1>2, <2>2 DEF Feedback
    <3> QED
      BY <2>1, <3>1 DEF AfterDelivery
  <2>3. CASE x.attempts >= MaxDeliveries
    BY <2>1, <2>3 DEF AfterDelivery
  <2>4. x.attempts \in Nat
    BY Limits DEF Feedback
  <2> QED
    BY <2>2, <2>3, <2>4, Limits
<1> QED
  BY <1>1, <1>3, Zenon DEF Feedback, Published

LEMMA Settling ==
  ASSUME NEW W \in [Work -> WorkRow], NEW R \in [Work -> RunRow],
         NEW F \in [Work -> Feedback]
  PROVE  /\ SettledWork(W, R, F) \in [Work -> WorkRow]
         /\ SettledFeedback(W, R, F) \in [Work -> Feedback]
<1>1. ASSUME NEW w \in Work, w \in ToSettle(W, R, F)
      PROVE  /\ WorkStatusOf(R[w].status) \in RowStatuses
             /\ R[w].saved \in Dispositions
  BY <1>1, RunUpdate, Zenon
  DEF ToSettle, WorkStatusOf, RowStatuses, RunStatuses, WorkStatuses, Unsettled, Dispositions
<1>2. \A w \in ToSettle(W, R, F) :
         /\ [W[w] EXCEPT !.status = WorkStatusOf(R[w].status)] \in WorkRow
         /\ Published(F[w], R[w].saved) \in Feedback
  BY <1>1, WorkUpdate, FeedbackUpdate, Zenon DEF ToSettle
<1> QED
  BY <1>2 DEF SettledWork, SettledFeedback

-----------------------------------------------------------------------------
(* Which actions change which variable.                                    *)

\* The actions that write table attachments.
AttachmentStep ==
    \/ \E a \in Attachments :
          \/ OpenAttachment(a) \/ CompleteSource(a) \/ InterruptAttachment(a)
          \/ Detach(a) \/ HandoffExpires(a) \/ RouteFails(a)
          \/ \E kind \in Kinds : AppendEvents(a, kind)
          \/ \E w \in Work : BeginRepair(a, w) \/ Release(a, w)
    \/ \E w \in Work : Completed(w)
    \/ HostExit \/ Start

\* The actions that write table work.
WorkStep ==
    \/ \E a \in Attachments :
          \/ Detach(a)
          \/ \E w \in Work : BeginRepair(a, w) \/ Release(a, w) \/ RouteBatch(a, w)
    \/ \E w \in Work : Claim(w) \/ Completed(w)
    \/ ClaimNothing \/ TickSettle \/ Start

\* The actions that write table runs.
RunStep ==
    \/ \E w \in Work : \/ DeleteResultSource(w) \/ BeginRun(w) \/ Park(w) \/ Unpark(w)
                       \/ EndTask(w) \/ Completed(w)
    \/ Start

\* The actions that write table attachment_feedback.
FeedbackStep ==
    \/ \E a \in Attachments : DeliverFeedback(a)
    \/ \E w \in Work : \/ Steer(w) \/ Outdate(w) \/ DeleteResultSource(w) \/ Completed(w)
                       \/ \E outcome \in Outcomes : Acknowledge(w, outcome)
    \/ TickSettle \/ Start

\* The actions that change what is known of a live write.
WriteStep ==
    \/ \E a \in Attachments, w \in Work : Release(a, w)
    \/ \E w \in Work : \/ SettleEffect(w) \/ EnterSession(w) \/ PrepareWrite(w)
                       \/ DispatchWrite(w) \/ WriteReturns(w)
    \/ Crash

\* The actions that start, move, signal or forget a task.
TaskMove ==
    \/ \E a \in Attachments : InterruptAttachment(a) \/ Detach(a) \/ RouteFails(a)
                              \/ RouteInactive(a)
    \/ \E w \in Work : \/ Claim(w) \/ BeginRun(w) \/ TaskFails(w) \/ EnterSession(w)
                       \/ Park(w) \/ Unpark(w) \/ EndTask(w) \/ Completed(w)
    \/ Disconnect \/ RenewFails \/ ClaimExpires \/ Crash

\* The actions that move the event loop.
LoopStep ==
    \/ \E a \in Attachments : Route(a)
    \/ \E w \in Work : Claim(w) \/ Completed(w)
    \/ TickSettle \/ RoutedAll \/ ClaimNothing \/ ClaimExpires
    \/ Disconnect \/ RenewFails \/ HostExit \/ Crash \/ Start

\* The actions that read or extend what an execution reported.
SourceStep ==
    \E a \in Attachments : \/ \E kind \in Kinds : AppendEvents(a, kind)
                           \/ RouteWaits(a)
                           \/ \E w \in Work : RouteBatch(a, w)

\* Every variable is written by one of its own steps, or not at all.
Attributed ==
    /\ UNCHANGED att \/ AttachmentStep
    /\ UNCHANGED work \/ WorkStep
    /\ UNCHANGED run \/ RunStep
    /\ UNCHANGED fb \/ FeedbackStep
    /\ UNCHANGED write \/ WriteStep
    /\ UNCHANGED task \/ TaskMove
    /\ UNCHANGED loop \/ LoopStep
    /\ UNCHANGED <<log, sub>> \/ SourceStep

LEMMA Changes ==
  ASSUME [Next]_vars
  PROVE  Attributed
<1>1. ASSUME NEW a \in Attachments,
             \/ OpenAttachment(a) \/ CompleteSource(a) \/ InterruptAttachment(a)
             \/ Detach(a) \/ HandoffExpires(a)
      PROVE  Attributed
  BY <1>1 DEF OpenAttachment, CompleteSource, InterruptAttachment, Detach, HandoffExpires,
              Attributed, AttachmentStep, WorkStep, TaskMove
<1>2. ASSUME NEW a \in Attachments, NEW kind \in Kinds, AppendEvents(a, kind)
      PROVE  Attributed
  BY <1>2 DEF AppendEvents, Attributed, AttachmentStep, SourceStep
<1>3. ASSUME NEW a \in Attachments, NEW w \in Work, BeginRepair(a, w) \/ Release(a, w)
      PROVE  Attributed
  BY <1>3, Zenon DEF BeginRepair, Release, Attributed, AttachmentStep, WorkStep, WriteStep
<1>4. ASSUME NEW a \in Attachments, DeliverFeedback(a) PROVE Attributed
  BY <1>4 DEF DeliverFeedback, Attributed, FeedbackStep
<1>5. ASSUME NEW w \in Work, Steer(w) \/ Outdate(w) \/ DeleteResultSource(w)
      PROVE  Attributed
  BY <1>5 DEF Steer, Outdate, DeleteResultSource, Attributed, FeedbackStep, RunStep
<1>6. ASSUME NEW w \in Work, NEW outcome \in Outcomes, Acknowledge(w, outcome)
      PROVE  Attributed
  BY <1>6 DEF Acknowledge, Attributed, FeedbackStep
<1>7. ASSUME NEW w \in Work, SettleEffect(w) PROVE Attributed
  BY <1>7 DEF SettleEffect, Attributed, WriteStep
<1>8. CASE Harness
  <2>1. CASE \E a \in Attachments : \/ OpenAttachment(a) \/ CompleteSource(a)
                                   \/ InterruptAttachment(a) \/ Detach(a)
                                   \/ HandoffExpires(a) \/ DeliverFeedback(a)
    BY <1>1, <1>4, <2>1
  <2>2. CASE \E a \in Attachments : \/ \E kind \in Kinds : AppendEvents(a, kind)
                                   \/ \E w \in Work : BeginRepair(a, w) \/ Release(a, w)
    BY <1>2, <1>3, <2>2
  <2>3. CASE \E w \in Work : \/ Steer(w) \/ Outdate(w) \/ DeleteResultSource(w)
                            \/ SettleEffect(w)
                            \/ \E outcome \in Outcomes : Acknowledge(w, outcome)
    BY <1>5, <1>6, <1>7, <2>3
  <2> QED
    BY <1>8, <2>1, <2>2, <2>3 DEF Harness
<1>9. ASSUME NEW a \in Attachments, Route(a) PROVE Attributed
  <2>1. CASE RouteWaits(a)
    BY <2>1 DEF RouteWaits, Route, Skip, Attributed, SourceStep, LoopStep
  <2>2. CASE RouteFails(a)
    BY <2>2 DEF RouteFails, Route, Skip, Attributed, AttachmentStep, TaskMove, LoopStep
  <2>3. CASE RouteInactive(a)
    BY <2>3 DEF RouteInactive, Route, Skip, Attributed, TaskMove, LoopStep
  <2>4. ASSUME NEW w \in Work, RouteBatch(a, w) PROVE Attributed
    BY <2>4 DEF RouteBatch, Route, Skip, Attributed, WorkStep, SourceStep, LoopStep
  <2> QED
    BY <1>9, <2>1, <2>2, <2>3, <2>4 DEF Route
<1>10. CASE ClaimWork
  <2>1. ASSUME NEW w \in Work, Claim(w) PROVE Attributed
    BY <2>1, Zenon DEF Claim, Attributed, WorkStep, TaskMove, LoopStep
  <2>2. CASE ClaimNothing \/ ClaimExpires
    BY <2>2 DEF ClaimNothing, ClaimExpires, Closing, Attributed, WorkStep, TaskMove, LoopStep
  <2> QED
    BY <1>10, <2>1, <2>2 DEF ClaimWork
<1>11. CASE TickSettle \/ RoutedAll
  BY <1>11 DEF TickSettle, RoutedAll, Attributed, WorkStep, FeedbackStep, LoopStep
<1>12. CASE Disconnect \/ RenewFails
  BY <1>12 DEF Disconnect, RenewFails, Closing, Attributed, TaskMove, LoopStep
<1>13. CASE HostExit \/ Crash \/ Start
  BY <1>13 DEF HostExit, Crash, Start, Attributed, AttachmentStep, WorkStep, RunStep,
               FeedbackStep, WriteStep, TaskMove, LoopStep
<1>14. ASSUME NEW w \in Work, TaskStep(w) PROVE Attributed
  <2>1. CASE BeginRun(w) \/ Unpark(w) \/ Park(w) \/ EndTask(w)
    BY <2>1, Zenon DEF BeginRun, Unpark, Park, EndTask, Attributed, RunStep, TaskMove
  <2>2. CASE TaskFails(w) \/ EnterSession(w)
    BY <2>2 DEF TaskFails, EnterSession, Attributed, WriteStep, TaskMove
  <2>3. CASE PrepareWrite(w) \/ DispatchWrite(w) \/ WriteReturns(w)
    BY <2>3 DEF PrepareWrite, DispatchWrite, WriteReturns, Attributed, WriteStep
  <2> QED
    BY <1>14, <2>1, <2>2, <2>3 DEF TaskStep, Advance
<1>15. ASSUME NEW w \in Work, Completed(w) PROVE Attributed
  BY <1>15 DEF Completed, Attributed, AttachmentStep, WorkStep, RunStep, FeedbackStep,
               TaskMove, LoopStep
<1>16. CASE DeadlinePasses \/ UNCHANGED vars
  BY <1>16 DEF DeadlinePasses, vars, Attributed
<1> QED
  BY <1>8, <1>9, <1>10, <1>11, <1>12, <1>13, <1>14, <1>15, <1>16 DEF Next, Tick, Host

-----------------------------------------------------------------------------
(* Type correctness.  A source never reports more events than the bound,   *)
(* so that references to events stay within it.                            *)

LogsFit == \A a \in Attachments : Len(log[a]) <= MaxEvents

LoopRow == [at : {"down", "select", "route", "claim", "closing"}, todo : SUBSET Attachments]

LEMMA CancelledTasks ==
  ASSUME TypeOK, NEW A PROVE CancelTasks(A) \in [Work -> Task]
<1>1. \A w \in Work : [task[w] EXCEPT !.cancel = TRUE] \in Task
  BY ZenonT(60) DEF TypeOK, Task
<1> QED
  BY <1>1 DEF CancelTasks, TypeOK

LEMMA InterruptedAll ==
  ASSUME TypeOK PROVE InterruptAll \in [Attachments -> AttachmentRow]
  BY AttachmentUpdate DEF InterruptAll, TypeOK

LEMMA BatchInLog ==
  ASSUME TypeOK, LogsFit, NEW a \in Attachments
  PROVE  Batch(a) \in SUBSET (1..MaxEvents) /\ Len(log[a]) \in Nat
  BY Limits DEF Batch, TypeOK, LogsFit

LEMMA TypeInit == Init => TypeOK /\ LogsFit
<1> SUFFICES ASSUME Init PROVE TypeOK /\ LogsFit
  OBVIOUS
<1>1. [state |-> "none", source |-> "unknown", handoff |-> "none", gen |-> None,
       late |-> FALSE] \in AttachmentRow
  BY DEF AttachmentRow
<1>2. [status |-> "none", attempts |-> 0, att |-> None, events |-> {}] \in WorkRow
  BY Limits DEF WorkRow
<1>3. [status |-> "none", saved |-> "none", waits |-> FALSE] \in RunRow
  BY DEF RunRow
<1>4. NoFeedback \in Feedback /\ NoTask \in Task
  BY Limits DEF NoFeedback, Feedback, NoTask, Task, Dispositions
<1>5. \A a \in Attachments : Len(log[a]) = 0
  BY DEF Init
<1>6. starts \in 0..MaxStarts
  BY Limits DEF Init
<1> QED
  <2>1. att \in [Attachments -> AttachmentRow] /\ work \in [Work -> WorkRow]
    BY <1>1, <1>2 DEF Init
  <2>2. run \in [Work -> RunRow] /\ fb \in [Work -> Feedback] /\ task \in [Work -> Task]
    BY <1>3, <1>4 DEF Init
  <2>3. log \in [Attachments -> Seq(Kinds)] /\ LogsFit
    BY <1>5, Limits DEF Init, LogsFit
  <2>4. sub \in [Attachments -> [cursor : Nat, pending : SUBSET (1..MaxEvents)]]
    BY DEF Init
  <2>5. /\ write \in [Work -> {"none", "prepared", "dispatched", "unknown"}]
        /\ expired \in BOOLEAN
        /\ loop \in [at : {"down", "select", "route", "claim", "closing"},
                    todo : SUBSET Attachments]
    BY DEF Init, At
  <2> QED
    BY <1>6, <2>1, <2>2, <2>3, <2>4, <2>5 DEF TypeOK

LEMMA TypeAttachment ==
  ASSUME TypeOK, AttachmentStep PROVE att' \in [Attachments -> AttachmentRow]
<1>1. ASSUME NEW a \in Attachments,
             \/ OpenAttachment(a) \/ CompleteSource(a) \/ InterruptAttachment(a)
             \/ Detach(a) \/ HandoffExpires(a) \/ RouteFails(a)
      PROVE  att' \in [Attachments -> AttachmentRow]
  <2>1. att[a] \in AttachmentRow /\ att \in [Attachments -> AttachmentRow]
    BY DEF TypeOK
  <2> QED
    BY <1>1, <2>1, AttachmentUpdate, Zenon
    DEF OpenAttachment, CompleteSource, InterruptAttachment, Detach, HandoffExpires, RouteFails
<1>2. ASSUME NEW a \in Attachments, NEW kind \in Kinds, AppendEvents(a, kind)
      PROVE  att' \in [Attachments -> AttachmentRow]
  <2>1. /\ att[a] \in AttachmentRow /\ att \in [Attachments -> AttachmentRow]
        /\ att[a].source \in {"unknown", "running", "completed", "failed"}
    BY DEF TypeOK, AttachmentRow
  <2>2. SourceAfter(kind, att[a].source) \in {"unknown", "running", "completed", "failed"}
    BY <2>1, AttachmentsAssumption DEF SourceAfter
  <2> QED
    BY <1>2, <2>1, <2>2, AttachmentUpdate DEF AppendEvents
<1>3. ASSUME NEW a \in Attachments, NEW w \in Work, BeginRepair(a, w) \/ Release(a, w)
      PROVE  att' \in [Attachments -> AttachmentRow]
  <2>1. att[a] \in AttachmentRow /\ att \in [Attachments -> AttachmentRow]
    BY DEF TypeOK
  <2>2. CASE BeginRepair(a, w)
    <3>1. att' = [att EXCEPT ![a] = [att[a] EXCEPT !.handoff = "held", !.gen = w,
                                                    !.late = FALSE]]
      BY <2>1, <2>2 DEF BeginRepair
    <3> QED
      BY <2>1, <3>1, AttachmentUpdate
  <2>3. CASE Release(a, w)
    BY <2>1, <2>3, AttachmentUpdate DEF Release
  <2> QED
    BY <1>3, <2>2, <2>3
<1>4. ASSUME NEW w \in Work, Completed(w) PROVE att' \in [Attachments -> AttachmentRow]
  <2>1. att' = att \/ att' = [att EXCEPT ![work[w].att] = Interrupted(@)]
    BY <1>4 DEF Completed, CompletedRun, CompletedUnreadable
  <2>2. att \in [Attachments -> AttachmentRow]
    BY DEF TypeOK
  <2>3. \A a \in Attachments : Interrupted(att[a]) \in AttachmentRow
    BY <2>2, AttachmentUpdate
  <2>4. CASE att' = [att EXCEPT ![work[w].att] = Interrupted(@)]
    <3>1. att' = [a \in Attachments |-> IF a = work[w].att THEN Interrupted(att[a])
                                        ELSE att[a]]
      BY <2>2, <2>4
    <3> QED
      BY <2>2, <2>3, <3>1
  <2> QED
    BY <2>1, <2>2, <2>4
<1>5. CASE HostExit \/ Start
  BY <1>5, InterruptedAll DEF HostExit, Start
<1> QED
  BY <1>1, <1>2, <1>3, <1>4, <1>5 DEF AttachmentStep

\* What Completed publishes and settles.
LEMMA CompletedTables ==
  ASSUME TypeOK, NEW w \in Work, Completed(w)
  PROVE  /\ run' = [run EXCEPT ![w] = FinishedRun(@, task[w].disp)]
         /\ work' \in [Work -> WorkRow]
         /\ run' \in [Work -> RunRow]
         /\ fb' \in [Work -> Feedback]
<1> DEFINE R == [run EXCEPT ![w] = FinishedRun(@, task[w].disp)]
           F == PublishedWith(w, R)
<1>1. task[w].disp \in Dispositions
  BY DEF TypeOK, Task
<1>2. R \in [Work -> RunRow] /\ R[w] = FinishedRun(run[w], task[w].disp)
  BY <1>1, RunUpdate DEF TypeOK
<1>3. run' = R
  BY DEF Completed, CompletedRun, CompletedUnreadable
<1>4. CASE CompletedUnreadable(w)
  BY <1>2, <1>3, <1>4 DEF CompletedUnreadable, TypeOK
<1>5. CASE CompletedRun(w)
  <2>1. R[w].status \in Dispositions
    BY <1>1, <1>2, <1>5, RunUpdate, Zenon DEF CompletedRun, FinishedRun, RunStatuses, TypeOK
  <2>2. F \in [Work -> Feedback]
    BY <2>1, FeedbackUpdate, Zenon DEF PublishedWith, TypeOK
  <2>3. /\ SettledWork(work, R, F) \in [Work -> WorkRow]
        /\ SettledFeedback(work, R, F) \in [Work -> Feedback]
    BY <1>2, <2>2, Settling DEF TypeOK
  <2>4. WorkStatusOf(R[w].status) \in RowStatuses
    BY <2>1 DEF WorkStatusOf, RowStatuses, WorkStatuses, Unsettled, Dispositions
  <2>5. [SettledWork(work, R, F)[w] EXCEPT !.status = WorkStatusOf(R[w].status)] \in WorkRow
    BY <2>3, <2>4, WorkUpdate
  <2>6. \/ work' = SettledWork(work, R, F)
        \/ work' = [SettledWork(work, R, F) EXCEPT ![w].status = WorkStatusOf(R[w].status)]
    BY <1>5 DEF CompletedRun
  <2>7. fb' = SettledFeedback(work, R, F)
    BY <1>5 DEF CompletedRun
  <2>8. run' = [run EXCEPT ![w] = FinishedRun(@, task[w].disp)]
    BY <1>3
  <2> HIDE DEF R, F
  <2> QED
    BY <1>2, <1>3, <2>3, <2>5, <2>6, <2>7, <2>8, Zenon
<1> QED
  BY <1>4, <1>5 DEF Completed

\* What Start makes of the tables before it settles them.
LEMMA RecoveredTables ==
  ASSUME TypeOK
  PROVE  /\ RecoveredWork \in [Work -> WorkRow] /\ RecoveredRuns \in [Work -> RunRow]
         /\ RecoveredFeedback \in [Work -> Feedback]
<1>1. \A w \in Work : /\ [work[w] EXCEPT !.status = "interrupted"] \in WorkRow
                      /\ [run[w] EXCEPT !.status = "interrupted"] \in RunRow
                      /\ [fb[w] EXCEPT !.state = "pending"] \in Feedback
  BY WorkUpdate, RunUpdate, FeedbackUpdate, Zenon
  DEF TypeOK, RunStatuses, RowStatuses, WorkStatuses, Unsettled, Dispositions
<1> QED
  BY <1>1 DEF RecoveredWork, RecoveredRuns, RecoveredFeedback, TypeOK

LEMMA TypeWork ==
  ASSUME TypeOK, LogsFit, WorkStep PROVE work' \in [Work -> WorkRow]
<1> USE DEF RowStatuses, WorkStatuses, Unsettled
<1>1. work \in [Work -> WorkRow] /\ \A w \in Work : work[w] \in WorkRow
  BY DEF TypeOK
<1>2. ASSUME NEW a \in Attachments, Detach(a) PROVE work' \in [Work -> WorkRow]
  BY <1>1, <1>2, WorkUpdate, Zenon DEF Detach
<1>3. ASSUME NEW a \in Attachments, NEW w \in Work, NEW E \in SUBSET (1..MaxEvents)
      PROVE  Enqueued(work, w, a, E) \in [Work -> WorkRow]
  <2>1. [status |-> "queued", attempts |-> 0, att |-> a, events |-> E] \in WorkRow
    BY Limits DEF WorkRow
  <2> QED
    BY <1>1, <2>1 DEF Enqueued
<1>4. ASSUME NEW a \in Attachments, NEW w \in Work, BeginRepair(a, w) \/ RouteBatch(a, w)
      PROVE  work' \in [Work -> WorkRow]
  <2>1. {} \in SUBSET (1..MaxEvents) /\ Batch(a) \in SUBSET (1..MaxEvents)
    BY BatchInLog
  <2> QED
    BY <1>3, <1>4, <2>1 DEF BeginRepair, RouteBatch
<1>5. ASSUME NEW a \in Attachments, NEW w \in Work, Release(a, w)
      PROVE  work' \in [Work -> WorkRow]
  BY <1>1, <1>5, WorkUpdate, Zenon DEF Release
<1>6. ASSUME NEW w \in Work, Claim(w) PROVE work' \in [Work -> WorkRow]
  <2>1. work[w].attempts + 1 \in 0..MaxAttempts
    <3>1. work[w].attempts \in 0..MaxAttempts
      BY <1>1 DEF WorkRow
    <3>2. ~(work[w].attempts >= MaxAttempts)
      BY <1>6, Zenon DEF Claim, Exhausted
    <3> QED
      BY <3>1, <3>2, Limits
  <2>2. [work[w] EXCEPT !.status = "running", !.attempts = @ + 1] \in WorkRow
    BY <1>1, <2>1, WorkUpdate, Zenon
  <2>3. \A v \in Work : [work[v] EXCEPT !.status = "failed"] \in WorkRow
    BY <1>1, WorkUpdate, Zenon
  <2>4. PICK F \in SUBSET {v \in Work : Claimable(v) /\ Exhausted(v)} :
          work' = [v \in Work |->
                     IF v \in F THEN [work[v] EXCEPT !.status = "failed"]
                     ELSE IF v = w THEN [work[v] EXCEPT !.status = "running",
                                                        !.attempts = @ + 1]
                     ELSE work[v]]
    BY <1>6, Zenon DEF Claim
  <2> QED
    BY <1>1, <2>2, <2>3, <2>4
<1>7. CASE ClaimNothing
  BY <1>1, <1>7, WorkUpdate, Zenon DEF ClaimNothing
<1>8. CASE TickSettle
  BY <1>8, Settling DEF TickSettle, TypeOK
<1>9. CASE Start
  BY <1>9, RecoveredTables, Settling DEF Start
<1> QED
  BY <1>2, <1>4, <1>5, <1>6, <1>7, <1>8, <1>9, CompletedTables DEF WorkStep

LEMMA TypeRun ==
  ASSUME TypeOK, RunStep PROVE run' \in [Work -> RunRow]
<1>1. run \in [Work -> RunRow] /\ \A w \in Work : run[w] \in RunRow
  BY DEF TypeOK
<1>2. ASSUME NEW w \in Work, DeleteResultSource(w) \/ BeginRun(w) \/ Park(w) \/ Unpark(w)
      PROVE  run' \in [Work -> RunRow]
  <2>1. \E x \in RunRow : run' = [run EXCEPT ![w] = x]
    <3>1. CASE DeleteResultSource(w)
      <4>1. run' = [run EXCEPT ![w] = [run[w] EXCEPT !.saved = "none"]]
        BY <1>1, <3>1 DEF DeleteResultSource
      <4> QED
        BY <1>1, <4>1, RunUpdate
    <3>2. CASE BeginRun(w)
      <4>1. PICK s \in {"waiting", "running"} :
               run' = [run EXCEPT ![w] = [run[w] EXCEPT !.status = s]]
        BY <1>1, <3>2 DEF BeginRun
      <4>2. [run[w] EXCEPT !.status = s] \in RunRow
        BY <1>1, RunUpdate DEF RunStatuses
      <4> QED
        BY <4>1, <4>2
    <3>3. CASE Park(w)
      <4>1. run' = [run EXCEPT ![w] = [run[w] EXCEPT !.status = "waiting", !.waits = TRUE]]
        BY <1>1, <3>3 DEF Park
      <4>2. [run[w] EXCEPT !.status = "waiting", !.waits = TRUE] \in RunRow
        BY <1>1, RunUpdate DEF RunStatuses
      <4> QED
        BY <4>1, <4>2
    <3>4. CASE Unpark(w)
      <4>1. PICK s \in {run[w].status, "running"} :
               run' = [run EXCEPT ![w] = [run[w] EXCEPT !.waits = FALSE, !.status = s]]
        BY <1>1, <3>4 DEF Unpark
      <4>2. s \in RunStatuses
        BY <1>1, RunUpdate DEF RunStatuses
      <4>3. [run[w] EXCEPT !.waits = FALSE, !.status = s] \in RunRow
        BY <1>1, <4>2, RunUpdate
      <4> QED
        BY <4>1, <4>3
    <3> QED
      BY <1>2, <3>1, <3>2, <3>3, <3>4
  <2> QED
    BY <1>1, <2>1
<1>3. ASSUME NEW w \in Work, EndTask(w) PROVE run' \in [Work -> RunRow]
  <2>1. PICK d \in Endings(w) : run' = [run EXCEPT ![w] = FinishedRun(@, d)]
    BY <1>3 DEF EndTask
  <2>2. d \in Dispositions
    BY AttachmentsAssumption DEF Endings, Dispositions
  <2> QED
    BY <1>1, <2>1, <2>2, RunUpdate
<1>4. CASE Start
  BY <1>1, <1>4, RunUpdate, Zenon DEF Start, RecoveredRuns, RunStatuses, Dispositions
<1> QED
  BY <1>2, <1>3, <1>4, CompletedTables DEF RunStep

LEMMA TypeFeedback ==
  ASSUME TypeOK, FeedbackStep PROVE fb' \in [Work -> Feedback]
<1>1. fb \in [Work -> Feedback] /\ \A w \in Work : fb[w] \in Feedback
  BY DEF TypeOK
<1>2. ASSUME NEW a \in Attachments, DeliverFeedback(a) PROVE fb' \in [Work -> Feedback]
  <2>1. \A w \in Work : AfterDelivery(a, fb[w]) \in Feedback
    BY <1>1, FeedbackUpdate, Zenon
  <2> HIDE DEF Feedback
  <2> QED
    BY <1>1, <1>2, <2>1 DEF DeliverFeedback
<1>3. ASSUME NEW w \in Work, Steer(w) \/ Outdate(w) \/ DeleteResultSource(w)
      PROVE  fb' \in [Work -> Feedback]
  <2>1. ASSUME Steer(w) \/ Outdate(w)
        PROVE  \/ fb' = [fb EXCEPT ![w] = [fb[w] EXCEPT !.state = "unknown"]]
               \/ fb' = [fb EXCEPT ![w] = [fb[w] EXCEPT !.current = FALSE]]
    BY <1>1, <2>1 DEF Steer, Outdate
  <2>2. ASSUME DeleteResultSource(w)
        PROVE  \E s \in {"none", "expired"} :
                  fb' = [fb EXCEPT ![w] = [fb[w] EXCEPT !.state = s, !.current = FALSE]]
    BY <1>1, <2>2, Zenon DEF DeleteResultSource
  <2>3. /\ [fb[w] EXCEPT !.state = "unknown"] \in Feedback
        /\ [fb[w] EXCEPT !.current = FALSE] \in Feedback
        /\ \A s \in {"none", "expired"} :
              [fb[w] EXCEPT !.state = s, !.current = FALSE] \in Feedback
    BY <1>1, FeedbackUpdate, Zenon
  <2>4. \E x \in Feedback : fb' = [fb EXCEPT ![w] = x]
    BY <1>3, <2>1, <2>2, <2>3
  <2> QED
    BY <1>1, <2>4
<1>4. ASSUME NEW w \in Work, NEW outcome \in Outcomes, Acknowledge(w, outcome)
      PROVE  fb' \in [Work -> Feedback]
  BY <1>1, <1>4, FeedbackUpdate, AttachmentsAssumption, Zenon DEF Acknowledge
<1>5. CASE TickSettle
  BY <1>5, Settling DEF TickSettle, TypeOK
<1>6. CASE Start
  BY <1>6, RecoveredTables, Settling DEF Start
<1> QED
  BY <1>2, <1>3, <1>4, <1>5, <1>6, CompletedTables DEF FeedbackStep

LEMMA TypeWrite ==
  ASSUME TypeOK, WriteStep
  PROVE  write' \in [Work -> {"none", "prepared", "dispatched", "unknown"}]
<1>1. ASSUME NEW a \in Attachments, NEW w \in Work, Release(a, w)
      PROVE  write' \in [Work -> {"none", "prepared", "dispatched", "unknown"}]
  BY <1>1 DEF Release, Reconciled, TypeOK
<1>2. ASSUME NEW w \in Work, \/ SettleEffect(w) \/ EnterSession(w) \/ PrepareWrite(w)
                             \/ DispatchWrite(w) \/ WriteReturns(w)
      PROVE  write' \in [Work -> {"none", "prepared", "dispatched", "unknown"}]
  BY <1>2, Zenon
  DEF SettleEffect, EnterSession, PrepareWrite, DispatchWrite, WriteReturns, TypeOK
<1>3. CASE Crash
  BY <1>3 DEF Crash, TypeOK
<1> QED
  BY <1>1, <1>2, <1>3 DEF WriteStep

LEMMA TypeTask ==
  ASSUME TypeOK, TaskMove PROVE task' \in [Work -> Task]
<1>1. task \in [Work -> Task] /\ \A w \in Work : task[w] \in Task
  BY DEF TypeOK
<1>2. NoTask \in Task
  BY DEF NoTask, Task, Dispositions
<1>3. ASSUME NEW a \in Attachments,
             InterruptAttachment(a) \/ Detach(a) \/ RouteFails(a) \/ RouteInactive(a)
      PROVE  task' \in [Work -> Task]
  BY <1>3, CancelledTasks
  DEF InterruptAttachment, Detach, RouteFails, RouteInactive
<1>4. CASE Disconnect \/ RenewFails \/ ClaimExpires
  BY <1>4, CancelledTasks DEF Disconnect, RenewFails, ClaimExpires, Closing
<1>5. ASSUME NEW w \in Work, \/ Claim(w) \/ BeginRun(w) \/ EnterSession(w)
                             \/ Park(w) \/ Unpark(w)
      PROVE  task' \in [Work -> Task]
  <2>1. \A x \in {"starting", "begun", "session", "parked", "done"} :
           [task[w] EXCEPT !.at = x] \in Task /\ [NoTask EXCEPT !.at = x] \in Task
    BY <1>1, <1>2, TaskUpdate, Zenon DEF Dispositions
  <2> QED
    BY <1>1, <1>5, <2>1, Zenon DEF Claim, BeginRun, EnterSession, Park, Unpark
<1>6. ASSUME NEW w \in Work, TaskFails(w) \/ EndTask(w)
      PROVE  task' \in [Work -> Task]
  <2>1. \A d \in Dispositions : [task[w] EXCEPT !.at = "done", !.disp = d] \in Task
    BY <1>1, TaskUpdate
  <2>2. "failed" \in Dispositions /\ Endings(w) \subseteq Dispositions
    BY AttachmentsAssumption DEF Endings, Dispositions
  <2> QED
    <3>1. CASE TaskFails(w)
      <4>1. task' = [task EXCEPT ![w] = [task[w] EXCEPT !.at = "done", !.disp = "failed"]]
        BY <1>1, <3>1 DEF TaskFails
      <4> QED
        BY <1>1, <2>1, <2>2, <4>1
    <3>2. CASE EndTask(w)
      <4>1. PICK d \in Endings(w) :
               task' = [task EXCEPT ![w] = [task[w] EXCEPT !.at = "done", !.disp = d]]
        BY <1>1, <3>2 DEF EndTask
      <4> QED
        BY <1>1, <2>1, <2>2, <4>1
    <3> QED
      BY <1>6, <3>1, <3>2
<1>7. ASSUME NEW w \in Work, Completed(w) PROVE task' \in [Work -> Task]
  BY <1>1, <1>2, <1>7 DEF Completed
<1>8. CASE Crash
  BY <1>2, <1>8 DEF Crash
<1> QED
  BY <1>3, <1>4, <1>5, <1>6, <1>7, <1>8 DEF TaskMove

LEMMA TypeLoop ==
  ASSUME TypeOK, LoopStep PROVE loop' \in LoopRow
<1>1. loop \in LoopRow
  BY DEF TypeOK, LoopRow
<1>2. \A p \in {"down", "select", "route", "claim", "closing"} : At(p) \in LoopRow
  BY DEF At, LoopRow
<1>3. ASSUME NEW a \in Attachments, Route(a) PROVE loop' \in LoopRow
  BY <1>1, <1>3 DEF Route, RouteWaits, RouteBatch, RouteFails, RouteInactive, Skip, LoopRow
<1>4. ASSUME NEW w \in Work, Completed(w) PROVE loop' \in LoopRow
  BY <1>1, <1>2, <1>4 DEF Completed, CompletedRun, CompletedUnreadable, LoopFails
<1>5. CASE TickSettle
  BY <1>5 DEF TickSettle, LoopRow
<1> QED
  BY <1>2, <1>3, <1>4, <1>5, Zenon
  DEF LoopStep, Claim, RoutedAll, ClaimNothing, ClaimExpires, Disconnect, RenewFails,
      HostExit, Crash, Start, Closing

LEMMA TypeSource ==
  ASSUME TypeOK, LogsFit, SourceStep
  PROVE  /\ log' \in [Attachments -> Seq(Kinds)]
         /\ sub' \in [Attachments -> [cursor : Nat, pending : SUBSET (1..MaxEvents)]]
         /\ LogsFit'
<1>1. ASSUME NEW a \in Attachments, NEW kind \in Kinds, AppendEvents(a, kind)
      PROVE  /\ log' \in [Attachments -> Seq(Kinds)] /\ UNCHANGED sub
             /\ LogsFit'
  <2>1. /\ log' = [log EXCEPT ![a] = Append(@, kind)] /\ UNCHANGED sub
        /\ Len(log[a]) < MaxEvents /\ log[a] \in Seq(Kinds)
    BY <1>1 DEF AppendEvents, TypeOK
  <2>2. Append(log[a], kind) \in Seq(Kinds) /\ Len(Append(log[a], kind)) = Len(log[a]) + 1
    BY <2>1
  <2>3. log' \in [Attachments -> Seq(Kinds)]
    BY <2>1, <2>2 DEF TypeOK
  <2>4. Len(log[a]) + 1 <= MaxEvents
    BY <2>1, Limits
  <2>5. \A b \in Attachments : log'[b] = IF b = a THEN Append(log[a], kind) ELSE log[b]
    BY <2>1 DEF TypeOK
  <2> QED
    BY <2>1, <2>2, <2>3, <2>4, <2>5 DEF LogsFit
<1>2. ASSUME NEW a \in Attachments, RouteWaits(a) \/ \E w \in Work : RouteBatch(a, w)
      PROVE  /\ sub' \in [Attachments -> [cursor : Nat, pending : SUBSET (1..MaxEvents)]]
             /\ UNCHANGED log
  <2>1. /\ [cursor |-> Len(log[a]), pending |-> Batch(a)]
              \in [cursor : Nat, pending : SUBSET (1..MaxEvents)]
        /\ [cursor |-> Len(log[a]), pending |-> {}]
              \in [cursor : Nat, pending : SUBSET (1..MaxEvents)]
    BY BatchInLog
  <2> QED
    <3>1. /\ UNCHANGED log
          /\ \/ sub' = sub
             \/ sub' = [sub EXCEPT ![a] = [cursor |-> Len(log[a]), pending |-> Batch(a)]]
             \/ sub' = [sub EXCEPT ![a] = [cursor |-> Len(log[a]), pending |-> {}]]
      BY <1>2 DEF RouteWaits, RouteBatch, Polled
    <3>2. sub \in [Attachments -> [cursor : Nat, pending : SUBSET (1..MaxEvents)]]
      BY DEF TypeOK
    <3> QED
      BY <2>1, <3>1, <3>2
<1> QED
  BY <1>1, <1>2 DEF SourceStep, TypeOK, LogsFit

LEMMA TypeStep ==
  ASSUME TypeOK, LogsFit, [Next]_vars PROVE TypeOK' /\ LogsFit'
<1>1. Attributed
  BY Changes
<1>2. att' \in [Attachments -> AttachmentRow] /\ work' \in [Work -> WorkRow]
  BY <1>1, TypeAttachment, TypeWork DEF Attributed, TypeOK
<1>3. run' \in [Work -> RunRow] /\ fb' \in [Work -> Feedback]
  BY <1>1, TypeRun, TypeFeedback DEF Attributed, TypeOK
<1>4. /\ write' \in [Work -> {"none", "prepared", "dispatched", "unknown"}]
      /\ task' \in [Work -> Task]
  BY <1>1, TypeWrite, TypeTask DEF Attributed, TypeOK
<1>5. loop' \in LoopRow
  BY <1>1, TypeLoop DEF Attributed, TypeOK, LoopRow
<1>6. /\ log' \in [Attachments -> Seq(Kinds)]
      /\ sub' \in [Attachments -> [cursor : Nat, pending : SUBSET (1..MaxEvents)]]
      /\ LogsFit'
  <2>1. CASE SourceStep
    BY <2>1, TypeSource
  <2>2. CASE UNCHANGED <<log, sub>>
    BY <2>2 DEF TypeOK, LogsFit
  <2> QED
    BY <1>1, <2>1, <2>2 DEF Attributed
<1>7. expired' \in BOOLEAN /\ starts' \in 0..MaxStarts
  <2>1. CASE Start
    BY <2>1, Limits DEF Start, TypeOK
  <2>2. CASE DeadlinePasses
    BY <2>2 DEF DeadlinePasses, TypeOK
  <2>3. CASE UNCHANGED <<expired, starts>>
    BY <2>3 DEF TypeOK
  <2>4. CASE Harness
    BY <2>3, <2>4, ZenonT(60)
    DEF Harness, OpenAttachment, CompleteSource, InterruptAttachment, Detach, HandoffExpires,
        AppendEvents, BeginRepair, Release, DeliverFeedback, Steer, Outdate,
        DeleteResultSource, SettleEffect, Acknowledge
  <2>5. CASE Tick
    BY <2>3, <2>5, Zenon
    DEF Tick, TickSettle, RoutedAll, ClaimWork, ClaimNothing, ClaimExpires, Closing, Claim,
        Route, RouteWaits, RouteFails, RouteInactive, RouteBatch
  <2>6. CASE Disconnect \/ RenewFails \/ HostExit \/ Crash
    BY <2>3, <2>6 DEF Disconnect, RenewFails, HostExit, Crash, Closing
  <2>7. ASSUME NEW w \in Work, TaskStep(w) \/ Completed(w)
        PROVE  UNCHANGED <<expired, starts>>
    BY <2>7 DEF TaskStep, Advance, BeginRun, TaskFails, EnterSession, Unpark, Park, EndTask,
                PrepareWrite, DispatchWrite, WriteReturns, Completed
  <2> QED
    BY <2>1, <2>2, <2>3, <2>4, <2>5, <2>6, <2>7 DEF Next, Host, vars
<1> QED
  BY <1>2, <1>3, <1>4, <1>5, <1>6, <1>7 DEF TypeOK, LoopRow

\* Rows, tasks and the loop keep their shape for any attachments, items, limits
\* and faults, and no feedback is delivered more than MaxDeliveries times.
THEOREM TypeCorrect == Spec => []TypeOK
<1>1. TypeOK /\ LogsFit /\ [Next]_vars => TypeOK' /\ LogsFit'
  BY TypeStep
<1> QED
  BY TypeInit, <1>1, PTL DEF Spec

-----------------------------------------------------------------------------
(* One attached writer: only the attachment whose handoff is held or of    *)
(* unknown outcome is open.                                                *)

LEMMA InterruptedKeeps ==
  ASSUME NEW x \in AttachmentRow
  PROVE  /\ Interrupted(x).state \in Open <=> x.state \in Open
         /\ Interrupted(x).handoff \in {"held", "unknown"}
               <=> x.handoff \in {"held", "unknown"}
         /\ Interrupted(x).gen = x.gen
         /\ x.handoff = "unknown" => Interrupted(x).handoff = "unknown"
  BY DEF Interrupted, AttachmentRow, Open

\* Nobody's handoff starts and nobody opens.
Settled(b) == /\ att'[b].state \in Open => att[b].state \in Open
              /\ att'[b].handoff \in {"held", "unknown"} => Fenced(b)

\* Every step leaves an attachment as it was in this respect, opens it when no
\* handoff of the workspace is unsettled, or starts its repair alone.
LEMMA OpeningSteps ==
  ASSUME TypeOK, AttachmentStep, NEW b \in Attachments
  PROVE  \/ Settled(b)
         \/ /\ NoHandoffUnsettled
            /\ \A c \in Attachments : att'[c].handoff = att[c].handoff
         \/ /\ att[b].state \in Open
            /\ \A c \in Attachments \ {b} : att[c].state \notin Open
            /\ \A c \in Attachments \ {b} : att'[c] = att[c]
<1>1. att \in [Attachments -> AttachmentRow] /\ \A c \in Attachments : att[c] \in AttachmentRow
  BY DEF TypeOK
<1>2. CASE \E a \in Attachments : OpenAttachment(a)
  BY <1>1, <1>2 DEF OpenAttachment, Settled, Fenced, AttachmentRow, Open
<1>3. ASSUME NEW a \in Attachments,
             \/ CompleteSource(a) \/ HandoffExpires(a)
             \/ \E kind \in Kinds : AppendEvents(a, kind)
      PROVE  Settled(b)
  <2>1. \/ att' = [att EXCEPT ![a].late = TRUE]
        \/ \E s : att' = [att EXCEPT ![a].source = s]
    BY <1>3 DEF CompleteSource, HandoffExpires, AppendEvents
  <2>2. att'[b].state = att[b].state /\ att'[b].handoff = att[b].handoff
    BY <1>1, <2>1 DEF AttachmentRow
  <2> QED
    BY <2>2 DEF Settled, Fenced
<1>4. ASSUME NEW a \in Attachments, InterruptAttachment(a) \/ RouteFails(a)
      PROVE  Settled(b)
  <2>1. att'[b] \in {att[b], Interrupted(att[b])}
    BY <1>1, <1>4 DEF InterruptAttachment, RouteFails
  <2> QED
    BY <1>1, <2>1, InterruptedKeeps DEF Settled, Fenced
<1>5. ASSUME NEW a \in Attachments, Detach(a) PROVE Settled(b)
  BY <1>1, <1>5 DEF Detach, Settled, Fenced, Open, AttachmentRow
<1>6. ASSUME NEW a \in Attachments, NEW w \in Work, Release(a, w) PROVE Settled(b)
  BY <1>1, <1>6 DEF Release, Settled, Fenced, AttachmentRow
<1>7. ASSUME NEW a \in Attachments, NEW w \in Work, BeginRepair(a, w)
      PROVE  \/ Settled(b)
             \/ /\ att[b].state \in Open
                /\ \A c \in Attachments \ {b} : att[c].state \notin Open
                /\ \A c \in Attachments \ {b} : att'[c] = att[c]
  BY <1>1, <1>7 DEF BeginRepair, ActiveAttachment, Settled, Fenced, Open
<1>8. ASSUME NEW w \in Work, Completed(w) PROVE Settled(b)
  <2>1. att' = att \/ att' = [att EXCEPT ![work[w].att] = Interrupted(@)]
    BY <1>8 DEF Completed, CompletedRun, CompletedUnreadable
  <2>2. att'[b] \in {att[b], Interrupted(att[b])}
    BY <1>1, <2>1
  <2> QED
    BY <1>1, <2>2, InterruptedKeeps DEF Settled, Fenced
<1>9. CASE HostExit \/ Start
  <2>1. att'[b] = Interrupted(att[b])
    BY <1>9 DEF HostExit, Start, InterruptAll
  <2> QED
    BY <1>1, <2>1, InterruptedKeeps DEF Settled, Fenced
<1> QED
  BY <1>2, <1>3, <1>4, <1>5, <1>6, <1>7, <1>8, <1>9 DEF AttachmentStep

\* While the writer of one attachment is stopped, no other attachment of the
\* workspace is open, whatever opens, reconnects, detaches or restarts.
THEOREM OneCoordinator == Spec => []SingleCoordinator
<1>1. Init => SingleCoordinator
  BY DEF Init, SingleCoordinator, Fenced
<1>2. TypeOK /\ SingleCoordinator /\ [Next]_vars => SingleCoordinator'
  <2> SUFFICES ASSUME TypeOK, SingleCoordinator, [Next]_vars,
                      NEW a \in Attachments, NEW b \in Attachments,
                      Fenced(a)', a # b
               PROVE  ~(att'[b].state \in Open)
    BY DEF SingleCoordinator
  <2>1. CASE UNCHANGED att
    BY <2>1 DEF SingleCoordinator, Fenced
  <2>2. CASE AttachmentStep
    <3>1. att'[a].handoff \in {"held", "unknown"}
      BY DEF Fenced
    <3>2. CASE \E c \in {a, b} : /\ NoHandoffUnsettled
                                 /\ \A d \in Attachments : att'[d].handoff = att[d].handoff
      BY <3>1, <3>2 DEF NoHandoffUnsettled, Fenced
    <3>3. CASE Settled(a) /\ Settled(b)
      BY <3>1, <3>3 DEF Settled, SingleCoordinator
    <3>4. CASE /\ att[b].state \in Open
               /\ \A c \in Attachments \ {b} : att[c].state \notin Open
               /\ \A c \in Attachments \ {b} : att'[c] = att[c]
      BY <3>1, <3>4 DEF SingleCoordinator, Fenced
    <3>5. CASE /\ att[a].state \in Open
               /\ \A c \in Attachments \ {a} : att[c].state \notin Open
               /\ \A c \in Attachments \ {a} : att'[c] = att[c]
      BY <3>5
    <3> QED
      BY <2>2, <3>2, <3>3, <3>4, <3>5, OpeningSteps
  <2> QED
    BY <2>1, <2>2, Changes DEF Attributed
<1> QED
  BY <1>1, <1>2, TypeCorrect, PTL DEF Spec

-----------------------------------------------------------------------------
(* Rows that exist.  A task, a run or a write belongs to an item that was  *)
(* created; an item belongs to an attachment for ever.                     *)

RowsExist ==
    \A w \in Work :
        /\ work[w].status # "none" => work[w].att \in Attachments
        /\ work[w].status = "none" =>
              /\ work[w].att = None /\ work[w].events = {}
              /\ task[w].at = "idle" /\ run[w].status = "none"
        /\ write[w] # "none" => run[w].status # "none"

RInv == TypeOK /\ LogsFit /\ RowsExist

\* The item keeps its attachment and its batch, and is not created here.
SameItem(w) == /\ work'[w].att = work[w].att /\ work'[w].events = work[w].events
               /\ work'[w].status = "none" <=> work[w].status = "none"

Created(w) ==
    \E a \in Attachments, E \in SUBSET (1..MaxEvents) :
        /\ (BeginRepair(a, w) /\ E = {}) \/ (RouteBatch(a, w) /\ E = Batch(a))
        /\ work' = Enqueued(work, w, a, E)

LEMMA NewStatus ==
  ASSUME NEW x \in WorkRow, NEW s
  PROVE  /\ [x EXCEPT !.status = s].att = x.att
         /\ [x EXCEPT !.status = s].events = x.events
         /\ [x EXCEPT !.status = s].status = s
         /\ [x EXCEPT !.status = s, !.attempts = @ + 1].att = x.att
         /\ [x EXCEPT !.status = s, !.attempts = @ + 1].events = x.events
         /\ [x EXCEPT !.status = s, !.attempts = @ + 1].status = s
  BY DEF WorkRow

\* Settling changes the status of items that exist, and of nothing else.
LEMMA SettlingKeeps ==
  ASSUME NEW W \in [Work -> WorkRow], NEW R \in [Work -> RunRow],
         NEW F \in [Work -> Feedback], NEW w \in Work
  PROVE  /\ SettledWork(W, R, F)[w].att = W[w].att
         /\ SettledWork(W, R, F)[w].events = W[w].events
         /\ SettledWork(W, R, F)[w].status = "none" <=> W[w].status = "none"
<1>1. CASE w \in ToSettle(W, R, F)
  <2>1. /\ SettledWork(W, R, F)[w] = [W[w] EXCEPT !.status = WorkStatusOf(R[w].status)]
        /\ W[w].status # "none" /\ R[w].status # "none" /\ W[w] \in WorkRow
    BY <1>1 DEF SettledWork, ToSettle
  <2>2. WorkStatusOf(R[w].status) # "none"
    BY <2>1 DEF WorkStatusOf
  <2> QED
    BY <2>1, <2>2, NewStatus
<1>2. CASE w \notin ToSettle(W, R, F)
  BY <1>2 DEF SettledWork
<1> QED
  BY <1>1, <1>2

LEMMA ItemsStay ==
  ASSUME RInv, [Next]_vars, NEW w \in Work
  PROVE  SameItem(w) \/ Created(w)
<1> USE DEF RInv
<1>1. work \in [Work -> WorkRow] /\ \A v \in Work : work[v] \in WorkRow
  BY DEF TypeOK
<1>2. ASSUME NEW a \in Attachments, Detach(a) PROVE SameItem(w)
  <2>1. \/ work'[w] = work[w]
        \/ /\ work'[w] = [work[w] EXCEPT !.status = "cancelled"]
           /\ work[w].status \in {"queued", "interrupted"}
    BY <1>2 DEF Detach, QueuedWork
  <2> QED
    BY <1>1, <2>1 DEF SameItem, WorkRow
<1>3. ASSUME NEW a \in Attachments, NEW v \in Work, Release(a, v) PROVE SameItem(w)
  <2>1. \/ work'[w] = work[w]
        \/ /\ work'[w] = [work[w] EXCEPT !.status = "cancelled"]
           /\ work[w].status \in Unsettled
    <3>1. work' = [work EXCEPT ![v] = [work[v] EXCEPT
                                !.status = IF @ \in Unsettled THEN "cancelled" ELSE @]]
      BY <1>1, <1>3 DEF Release
    <3>2. CASE work[v].status \in Unsettled
      BY <1>1, <3>1, <3>2
    <3>3. CASE work[v].status \notin Unsettled
      BY <1>1, <3>1, <3>3 DEF WorkRow
    <3> QED
      BY <3>2, <3>3
  <2> QED
    BY <1>1, <2>1 DEF SameItem, Unsettled, WorkRow
<1>4. ASSUME NEW a \in Attachments, NEW v \in Work, BeginRepair(a, v) \/ RouteBatch(a, v)
      PROVE  SameItem(w) \/ Created(w)
  <2>1. \E E \in SUBSET (1..MaxEvents) :
           /\ (BeginRepair(a, v) /\ E = {}) \/ (RouteBatch(a, v) /\ E = Batch(a))
           /\ work' = Enqueued(work, v, a, E)
    <3>1. {} \in SUBSET (1..MaxEvents) /\ Batch(a) \in SUBSET (1..MaxEvents)
      BY BatchInLog
    <3>2. BeginRepair(a, v) => work' = Enqueued(work, v, a, {})
      BY DEF BeginRepair
    <3>3. RouteBatch(a, v) => work' = Enqueued(work, v, a, Batch(a))
      BY DEF RouteBatch
    <3>4. CASE BeginRepair(a, v)
      BY <3>1, <3>2, <3>4
    <3>5. CASE RouteBatch(a, v)
      BY <3>1, <3>3, <3>5
    <3> QED
      BY <1>4, <3>4, <3>5
  <2>2. CASE w = v
    BY <2>1, <2>2 DEF Created
  <2>3. CASE w # v
    <3>1. work'[w] = work[w]
      BY <1>1, <2>1, <2>3 DEF Enqueued
    <3> QED
      BY <3>1 DEF SameItem
  <2> QED
    BY <2>2, <2>3
<1>5. CASE ClaimNothing \/ \E v \in Work : Claim(v)
  <2>1. \/ work'[w] = work[w]
        \/ /\ \/ work'[w] = [work[w] EXCEPT !.status = "failed"]
              \/ work'[w] = [work[w] EXCEPT !.status = "running", !.attempts = @ + 1]
           /\ work[w].status \in {"queued", "interrupted"}
    <3>1. CASE ClaimNothing
      BY <3>1 DEF ClaimNothing, Claimable
    <3>2. ASSUME NEW v \in Work, Claim(v)
          PROVE  \/ work'[w] = work[w]
                 \/ /\ \/ work'[w] = [work[w] EXCEPT !.status = "failed"]
                       \/ work'[w] = [work[w] EXCEPT !.status = "running", !.attempts = @ + 1]
                    /\ Claimable(w)
      <4>1. PICK F \in SUBSET {u \in Work : Claimable(u) /\ Exhausted(u)} :
              work' = [u \in Work |->
                         IF u \in F THEN [work[u] EXCEPT !.status = "failed"]
                         ELSE IF u = v THEN [work[u] EXCEPT !.status = "running",
                                                            !.attempts = @ + 1]
                         ELSE work[u]]
        BY <3>2, Zenon DEF Claim
      <4>2. w \in F \/ w = v => Claimable(w)
        BY <3>2 DEF Claim
      <4> QED
        BY <4>1, <4>2
    <3> QED
      BY <1>5, <3>1, <3>2 DEF Claimable
  <2> QED
    BY <1>1, <2>1 DEF SameItem, WorkRow
<1>6. CASE TickSettle
  <2>1. /\ work \in [Work -> WorkRow] /\ run \in [Work -> RunRow]
        /\ fb \in [Work -> Feedback]
    BY DEF TypeOK
  <2>2. /\ SettledWork(work, run, fb)[w].att = work[w].att
        /\ SettledWork(work, run, fb)[w].events = work[w].events
        /\ SettledWork(work, run, fb)[w].status = "none" <=> work[w].status = "none"
    BY <2>1, SettlingKeeps
  <2>3. work' = SettledWork(work, run, fb)
    BY <1>6 DEF TickSettle
  <2> QED
    BY <2>2, <2>3 DEF SameItem
<1>7. CASE Start
  <2>1. /\ RecoveredWork \in [Work -> WorkRow] /\ RecoveredRuns \in [Work -> RunRow]
        /\ RecoveredFeedback \in [Work -> Feedback]
    BY RecoveredTables
  <2>2. \/ RecoveredWork[w] = work[w]
        \/ /\ RecoveredWork[w] = [work[w] EXCEPT !.status = "interrupted"]
           /\ work[w].status = "running"
    BY DEF RecoveredWork
  <2>3. /\ RecoveredWork[w].att = work[w].att
        /\ RecoveredWork[w].events = work[w].events
        /\ RecoveredWork[w].status = "none" <=> work[w].status = "none"
    BY <1>1, <2>2 DEF WorkRow
  <2> QED
    BY <1>7, <2>1, <2>3, SettlingKeeps DEF Start, SameItem
<1>8. ASSUME NEW v \in Work, Completed(v) PROVE SameItem(w)
  <2> DEFINE R == [run EXCEPT ![v] = FinishedRun(@, task[v].disp)]
             F == PublishedWith(v, R)
             S == SettledWork(work, R, F)
  <2>1. task[v].disp \in Dispositions /\ run[v] \in RunRow
    BY DEF TypeOK, Task
  <2>2. R \in [Work -> RunRow] /\ R[v] = FinishedRun(run[v], task[v].disp)
    BY <2>1, RunUpdate DEF TypeOK
  <2>3. CASE CompletedUnreadable(v)
    BY <2>3 DEF CompletedUnreadable, SameItem
  <2>4. CASE CompletedRun(v)
    <3>1. R[v].status \in Dispositions
      BY <2>1, <2>2, <2>4, RunUpdate, Zenon DEF CompletedRun, FinishedRun, RunStatuses
    <3>2. F \in [Work -> Feedback]
      BY <3>1, FeedbackUpdate, Zenon DEF PublishedWith, TypeOK
    <3>3. /\ S[w].att = work[w].att /\ S[w].events = work[w].events
          /\ S[w].status = "none" <=> work[w].status = "none"
          /\ S \in [Work -> WorkRow]
      <4> HIDE DEF R, F
      <4> QED
        BY <1>1, <2>2, <3>2, SettlingKeeps, Settling
    <3>4. work' = S \/ work' = [S EXCEPT ![v].status = WorkStatusOf(R[v].status)]
      BY <2>4, Zenon DEF CompletedRun
    <3>5. WorkStatusOf(R[v].status) # "none"
      BY <3>1 DEF WorkStatusOf, Dispositions
    <3>6. work[v].status # "none"
      BY <1>8 DEF Completed, RowsExist
    <3> HIDE DEF R, F, S
    <3>7. \/ work'[w] = S[w]
          \/ work'[w] = [S[w] EXCEPT !.status = WorkStatusOf(R[v].status)] /\ w = v
      BY <3>3, <3>4
    <3> QED
      BY <3>3, <3>5, <3>6, <3>7 DEF SameItem, WorkRow
  <2> QED
    BY <1>8, <2>3, <2>4 DEF Completed
<1>9. CASE UNCHANGED work
  BY <1>9 DEF SameItem
<1> QED
  BY <1>2, <1>3, <1>4, <1>5, <1>6, <1>7, <1>8, <1>9, Changes DEF Attributed, WorkStep

LEMMA RunsStay ==
  ASSUME TypeOK, [Next]_vars, NEW w \in Work, ~BeginRun(w)
  PROVE  run'[w].status = "none" <=> run[w].status = "none"
<1>1. run \in [Work -> RunRow] /\ \A v \in Work : run[v] \in RunRow
  BY DEF TypeOK
<1>2. ASSUME NEW v \in Work, BeginRun(v) PROVE run'[w] = run[w]
  BY <1>1, <1>2 DEF BeginRun
<1>3. ASSUME NEW v \in Work, DeleteResultSource(v) \/ Park(v) \/ Unpark(v)
      PROVE  run'[w].status = "none" <=> run[w].status = "none"
  <2>1. CASE DeleteResultSource(v)
    <3>1. run' = [run EXCEPT ![v].saved = "none"]
      BY <2>1 DEF DeleteResultSource
    <3> QED
      BY <1>1, <3>1 DEF RunRow
  <2>2. CASE Park(v)
    <3>1. /\ run' = [run EXCEPT ![v] = [run[v] EXCEPT !.status = "waiting", !.waits = TRUE]]
          /\ run[v].status = "running"
      BY <1>1, <2>2, Zenon DEF Park, RequireActive
    <3> QED
      BY <1>1, <3>1 DEF RunRow
  <2>3. CASE Unpark(v)
    <3>1. run' = [run EXCEPT ![v] = [run[v] EXCEPT
                    !.waits = FALSE, !.status = IF @ = "waiting" THEN "running" ELSE @]]
      BY <1>1, <2>3 DEF Unpark
    <3> QED
      BY <1>1, <3>1 DEF RunRow
  <2> QED
    BY <1>3, <2>1, <2>2, <2>3
<1>4. ASSUME NEW v \in Work, NEW d \in Dispositions, run' = [run EXCEPT ![v] = FinishedRun(@, d)]
      PROVE  run'[w].status = "none" <=> run[w].status = "none"
  BY <1>1, <1>4 DEF FinishedRun, RunRow, Dispositions
<1>5. ASSUME NEW v \in Work, EndTask(v)
      PROVE  run'[w].status = "none" <=> run[w].status = "none"
  <2>1. PICK d \in Endings(v) : run' = [run EXCEPT ![v] = FinishedRun(@, d)]
    BY <1>5 DEF EndTask
  <2>2. d \in Dispositions
    BY AttachmentsAssumption DEF Endings, Dispositions
  <2> QED
    BY <1>4, <2>1, <2>2
<1>6. ASSUME NEW v \in Work, Completed(v)
      PROVE  run'[w].status = "none" <=> run[w].status = "none"
  <2>1. task[v].disp \in Dispositions
    BY DEF TypeOK, Task
  <2> QED
    BY <1>4, <1>6, <2>1, CompletedTables
<1>7. CASE Start
  BY <1>1, <1>7 DEF Start, RecoveredRuns, RunRow
<1>8. CASE UNCHANGED run
  BY <1>8
<1> QED
  BY <1>2, <1>3, <1>5, <1>6, <1>7, <1>8, Changes DEF Attributed, RunStep

LEMMA TasksStart ==
  ASSUME TypeOK, [Next]_vars, NEW w \in Work, task[w].at = "idle", ~Claim(w)
  PROVE  task'[w].at = "idle"
<1>1. task \in [Work -> Task] /\ \A v \in Work : task[v] \in Task
  BY DEF TypeOK
<1>2. NoTask.at = "idle"
  BY DEF NoTask
<1>3. ASSUME NEW A, task' = CancelTasks(A) PROVE task'[w].at = "idle"
  BY <1>3 DEF CancelTasks
<1>4. CASE \E a \in Attachments :
              InterruptAttachment(a) \/ Detach(a) \/ RouteFails(a) \/ RouteInactive(a)
  BY <1>3, <1>4 DEF InterruptAttachment, Detach, RouteFails, RouteInactive
<1>5. CASE Disconnect \/ RenewFails \/ ClaimExpires
  BY <1>3, <1>5 DEF Disconnect, RenewFails, ClaimExpires, Closing
<1>6. ASSUME NEW v \in Work, Claim(v) PROVE task'[w] = task[w]
  <2>1. v # w
    BY <1>6
  <2>2. \E t : task' = [task EXCEPT ![v] = t]
    BY <1>6, Zenon DEF Claim
  <2> QED
    BY <1>1, <2>1, <2>2
<1>7. ASSUME NEW v \in Work, \/ BeginRun(v) \/ TaskFails(v) \/ EnterSession(v) \/ Park(v)
                             \/ Unpark(v) \/ EndTask(v)
      PROVE  task'[w] = task[w]
  <2>1. task[v].at # "idle" /\ \E t : task' = [task EXCEPT ![v] = t]
    BY <1>1, <1>7 DEF BeginRun, TaskFails, EnterSession, Park, Unpark, EndTask
  <2> QED
    BY <1>1, <2>1
<1>8. ASSUME NEW v \in Work, Completed(v) PROVE task'[w].at = "idle"
  BY <1>1, <1>2, <1>8 DEF Completed
<1>9. CASE Crash
  BY <1>2, <1>9 DEF Crash
<1>10. CASE UNCHANGED task
  BY <1>10
<1> QED
  BY <1>4, <1>5, <1>6, <1>7, <1>8, <1>9, <1>10, Changes DEF Attributed, TaskMove

LEMMA WritesStart ==
  ASSUME TypeOK, [Next]_vars, NEW w \in Work, write[w] = "none", ~PrepareWrite(w)
  PROVE  write'[w] = "none"
<1>1. write \in [Work -> {"none", "prepared", "dispatched", "unknown"}]
  BY DEF TypeOK
<1>2. ASSUME NEW a \in Attachments, NEW v \in Work, Release(a, v) PROVE write'[w] = "none"
  <2>1. PICK outcome \in Reconciled(v) : write' = [write EXCEPT ![v] = outcome]
    BY <1>2 DEF Release
  <2> QED
    BY <1>1, <2>1 DEF Reconciled
<1>3. ASSUME NEW v \in Work, PrepareWrite(v) PROVE write'[w] = "none"
  BY <1>1, <1>3 DEF PrepareWrite
<1>4. ASSUME NEW v \in Work, \/ SettleEffect(v) \/ EnterSession(v) \/ DispatchWrite(v)
                             \/ WriteReturns(v)
      PROVE  write'[w] = "none"
  BY <1>1, <1>4 DEF SettleEffect, EnterSession, DispatchWrite, WriteReturns
<1>5. CASE Crash
  BY <1>1, <1>5 DEF Crash
<1>6. CASE UNCHANGED write
  BY <1>6
<1> QED
  BY <1>2, <1>3, <1>4, <1>5, <1>6, Changes DEF Attributed, WriteStep

LEMMA RowsStep ==
  ASSUME RInv, [Next]_vars PROVE RowsExist'
<1> SUFFICES ASSUME NEW w \in Work
             PROVE  /\ work'[w].status # "none" => work'[w].att \in Attachments
                    /\ work'[w].status = "none" =>
                          /\ work'[w].att = None /\ work'[w].events = {}
                          /\ task'[w].at = "idle" /\ run'[w].status = "none"
                    /\ write'[w] # "none" => run'[w].status # "none"
  BY DEF RowsExist
<1>1. TypeOK /\ RowsExist
  BY DEF RInv
<1>2. BeginRun(w) => task[w].at = "starting" /\ run'[w].status \in {"waiting", "running"}
  BY <1>1 DEF BeginRun, TypeOK, RunRow
<1>3. Claim(w) => work[w].status # "none"
  BY Zenon DEF Claim, Claimable
<1>4. PrepareWrite(w) => run[w].status = "running"
  BY DEF PrepareWrite, RequireActive
<1>5. run[w].status # "none" => run'[w].status # "none"
  BY <1>1, <1>2, RunsStay
<1>6. write'[w] # "none" => run'[w].status # "none"
  BY <1>1, <1>4, <1>5, WritesStart DEF RowsExist
<1>7. work'[w].status = "none" => work[w].status = "none" /\ SameItem(w)
  <2>1. CASE SameItem(w)
    BY <2>1 DEF SameItem
  <2>2. CASE Created(w)
    BY <1>1, <2>2 DEF Created, Enqueued, TypeOK
  <2> QED
    BY <2>1, <2>2, ItemsStay
<1>8. work'[w].status # "none" => work'[w].att \in Attachments
  <2>1. CASE SameItem(w)
    BY <1>1, <2>1 DEF SameItem, RowsExist
  <2>2. CASE Created(w)
    BY <1>1, <2>2 DEF Created, Enqueued, TypeOK
  <2> QED
    BY <2>1, <2>2, ItemsStay
<1>9. ASSUME work[w].status = "none"
      PROVE  task'[w].at = "idle" /\ run'[w].status = "none"
  <2>1. task[w].at = "idle" /\ run[w].status = "none"
    BY <1>1, <1>9 DEF RowsExist
  <2> QED
    BY <1>1, <1>2, <1>3, <1>9, <2>1, RunsStay, TasksStart
<1>10. work'[w].status = "none" => work'[w].att = None /\ work'[w].events = {}
  BY <1>1, <1>7 DEF RowsExist, SameItem
<1> QED
  BY <1>6, <1>7, <1>8, <1>9, <1>10

\* Rows, tasks and writes refer to each other as the inductive invariant says.
THEOREM RowInvariance == Spec => []RInv
<1>1. Init => RInv
  <2>1. Init => RowsExist
    BY DEF Init, RowsExist, NoTask
  <2> QED
    BY <2>1, TypeInit DEF RInv
<1>2. RInv /\ [Next]_vars => RInv'
  BY TypeStep, RowsStep DEF RInv
<1> QED
  BY <1>1, <1>2, PTL DEF Spec

-----------------------------------------------------------------------------
(* The handoff outlives the write.                                         *)

\* Only a release ends a handoff or names another generation while it lasts.
LEMMA FenceStays ==
  ASSUME TypeOK, [Next]_vars, NEW a \in Attachments, Fenced(a),
         \A v \in Work : ~Release(a, v)
  PROVE  att'[a].handoff \in {"held", "unknown"} /\ att'[a].gen = att[a].gen
<1> DEFINE Kept == att'[a].handoff \in {"held", "unknown"} /\ att'[a].gen = att[a].gen
<1>1. att \in [Attachments -> AttachmentRow] /\ \A c \in Attachments : att[c] \in AttachmentRow
  BY DEF TypeOK
<1>2. att[a].handoff \in {"held", "unknown"}
  BY DEF Fenced
<1>3. ASSUME NEW c \in Attachments,
             \/ OpenAttachment(c) \/ CompleteSource(c) \/ HandoffExpires(c) \/ Detach(c)
             \/ \E kind \in Kinds : AppendEvents(c, kind)
      PROVE  Kept
  <2>1. \/ att' = [att EXCEPT ![c].late = TRUE]
        \/ \E s : att' = [att EXCEPT ![c].source = s]
        \/ \E s : att' = [att EXCEPT ![c].state = s]
    BY <1>3 DEF OpenAttachment, CompleteSource, HandoffExpires, Detach, AppendEvents
  <2>2. att'[a].handoff = att[a].handoff /\ att'[a].gen = att[a].gen
    BY <1>1, <2>1 DEF AttachmentRow
  <2> QED
    BY <1>2, <2>2
<1>4. ASSUME att'[a] \in {att[a], Interrupted(att[a])} PROVE Kept
  BY <1>1, <1>2, <1>4, InterruptedKeeps
<1>5. ASSUME NEW c \in Attachments, InterruptAttachment(c) \/ RouteFails(c) PROVE Kept
  BY <1>1, <1>4, <1>5 DEF InterruptAttachment, RouteFails
<1>6. ASSUME NEW w \in Work, Completed(w) PROVE Kept
  <2>1. att' = att \/ att' = [att EXCEPT ![work[w].att] = Interrupted(@)]
    BY <1>6 DEF Completed, CompletedRun, CompletedUnreadable
  <2> QED
    BY <1>1, <1>4, <2>1
<1>7. CASE HostExit \/ Start
  BY <1>4, <1>7 DEF HostExit, Start, InterruptAll
<1>8. ASSUME NEW c \in Attachments, NEW v \in Work, BeginRepair(c, v) PROVE Kept
  BY <1>1, <1>2, <1>8 DEF BeginRepair, Fenced
<1>9. ASSUME NEW c \in Attachments, NEW v \in Work, Release(c, v) PROVE Kept
  <2>1. c # a
    BY <1>9
  <2> QED
    BY <1>1, <1>2, <1>9, <2>1 DEF Release
<1>10. CASE UNCHANGED att
  BY <1>2, <1>10
<1> QED
  BY <1>3, <1>5, <1>6, <1>7, <1>8, <1>9, <1>10, Changes DEF Attributed, AttachmentStep

\* A released handoff leaves no write of the run it names.
LEMMA ReleaseSettles ==
  ASSUME RInv, NEW a \in Attachments, NEW w \in Work, Release(a, w)
  PROVE  write'[w] = "none"
<1>1. /\ write \in [Work -> {"none", "prepared", "dispatched", "unknown"}]
      /\ write[w] # "none" => run[w].status # "none"
  BY DEF RInv, TypeOK, RowsExist
<1>2. write[w] \in {"none", "unknown"}
  BY <1>1 DEF Release, ExecutorFree
<1>3. PICK outcome \in Reconciled(w) : /\ Releasable(w, outcome)
                                       /\ write' = [write EXCEPT ![w] = outcome]
  BY DEF Release
<1>4. outcome # "none" => outcome = "unknown" /\ write[w] = "unknown"
  BY <1>2 DEF Reconciled
<1> QED
  BY <1>1, <1>3, <1>4 DEF Releasable

\* A live write, even one whose outcome nobody recorded, is inside the handoff
\* that names its run, through interruptions, crashes and late releases.
THEOREM WritesNeedHold == Spec => []LiveWriteNeedsHold
<1>1. Init => LiveWriteNeedsHold
  BY DEF Init, LiveWriteNeedsHold
<1>2. RInv /\ LiveWriteNeedsHold /\ [Next]_vars => LiveWriteNeedsHold'
  <2> SUFFICES ASSUME RInv, LiveWriteNeedsHold, [Next]_vars,
                      NEW w \in Work, write'[w] # "none"
               PROVE  /\ work'[w].att # None
                      /\ att'[work'[w].att].handoff \in {"held", "unknown"}
                      /\ att'[work'[w].att].gen = w
    BY DEF LiveWriteNeedsHold, Fenced
  <2>1. TypeOK /\ RowsExist
    BY DEF RInv
  <2>2. CASE PrepareWrite(w)
    <3>1. UNCHANGED <<att, work>> /\ run[w].status = "running" /\ RequireAttachmentWrite(w)
      BY <2>2 DEF PrepareWrite, RequireActive
    <3>2. work[w].att \in Attachments
      BY <2>1, <3>1 DEF RowsExist
    <3> QED
      BY <3>1, <3>2, AttachmentsAssumption DEF RequireAttachmentWrite
  <2>3. CASE ~PrepareWrite(w)
    <3>1. write[w] # "none"
      BY <2>1, <2>3, WritesStart
    <3>2. /\ work[w].att \in Attachments /\ work[w].status # "none"
          /\ Fenced(work[w].att) /\ att[work[w].att].gen = w
      BY <2>1, <3>1 DEF RowsExist, LiveWriteNeedsHold
    <3>3. work'[w].att = work[w].att
      <4>1. ~Created(w)
        BY <3>2, Zenon DEF Created, BeginRepair, RouteBatch
      <4> QED
        BY <4>1, ItemsStay DEF SameItem
    <3>4. \A v \in Work : ~Release(work[w].att, v)
      <4> SUFFICES ASSUME NEW v \in Work, Release(work[w].att, v) PROVE FALSE
        OBVIOUS
      <4>1. v = w
        BY <3>2 DEF Release
      <4> QED
        BY <3>2, <4>1, ReleaseSettles
    <3> QED
      BY <2>1, <3>2, <3>3, <3>4, FenceStays, AttachmentsAssumption
  <2> QED
    BY <2>2, <2>3
<1> QED
  BY <1>1, <1>2, RowInvariance, PTL DEF Spec

-----------------------------------------------------------------------------
(* Feedback.                                                               *)

Decided == {"acknowledged", "rejected", "expired"}

\* Feedback row w goes on, or is decided again by the withdrawal of its source.
Forward(w) ==
    /\ fb[w].state \in Decided => fb'[w].state \in {fb[w].state, "expired"}
    /\ fb[w].state = "unknown" => fb'[w].state \in Decided \cup {"unknown"}
    /\ fb[w].state # "none" => fb'[w].state # "none"

LEMMA SettlingForward ==
  ASSUME NEW W \in [Work -> WorkRow], NEW R \in [Work -> RunRow],
         NEW F \in [Work -> Feedback], NEW w \in Work, F[w].state # "none"
  PROVE  SettledFeedback(W, R, F)[w] = F[w]
  BY DEF SettledFeedback, Published

LEMMA FeedbackForward ==
  ASSUME TypeOK, [Next]_vars, NEW w \in Work
  PROVE  Forward(w)
<1> USE DEF Decided
<1>1. fb \in [Work -> Feedback] /\ \A v \in Work : fb[v] \in Feedback
  BY DEF TypeOK
<1>2. ASSUME fb[w].state # "none" => fb'[w] = fb[w] PROVE Forward(w)
  BY <1>2 DEF Forward
<1>3. ASSUME NEW a \in Attachments, DeliverFeedback(a) PROVE Forward(w)
  <2>1. PICK page \in SUBSET PendingFeedback(a) :
           fb' = [v \in Work |-> IF v \in page THEN AfterDelivery(a, fb[v]) ELSE fb[v]]
    BY <1>3 DEF DeliverFeedback
  <2>2. CASE w \in page
    <3>1. fb[w].state \in {"pending", "delivered"} /\ fb'[w] = AfterDelivery(a, fb[w])
      BY <2>1, <2>2 DEF PendingFeedback
    <3>2. fb'[w].state # "none"
      BY <1>1, <3>1 DEF AfterDelivery, Feedback
    <3> QED
      BY <3>1, <3>2 DEF Forward
  <2>3. CASE w \notin page
    BY <1>2, <2>1, <2>3
  <2> QED
    BY <2>2, <2>3
<1>4. ASSUME NEW v \in Work, NEW outcome \in Outcomes, Acknowledge(v, outcome)
      PROVE  Forward(w)
  BY <1>1, <1>2, <1>4, AttachmentsAssumption DEF Acknowledge, Acknowledgeable, Forward, Feedback
<1>5. ASSUME NEW v \in Work, Steer(v) \/ Outdate(v) PROVE Forward(w)
  <2>1. \/ fb' = [fb EXCEPT ![v].state = "unknown"] /\ fb[v].state = "delivered"
        \/ fb' = [fb EXCEPT ![v].current = FALSE]
    BY <1>5 DEF Steer, Outdate
  <2> QED
    BY <1>1, <2>1 DEF Forward, Feedback
<1>6. ASSUME NEW v \in Work, DeleteResultSource(v) PROVE Forward(w)
  <2>1. fb' = [fb EXCEPT ![v] = [fb[v] EXCEPT
                 !.state = IF @ = "none" THEN @ ELSE "expired", !.current = FALSE]]
    BY <1>1, <1>6 DEF DeleteResultSource
  <2> QED
    BY <1>1, <2>1 DEF Forward, Feedback
<1>7. CASE TickSettle
  <2>1. /\ work \in [Work -> WorkRow] /\ run \in [Work -> RunRow]
        /\ fb' = SettledFeedback(work, run, fb)
    BY <1>7 DEF TickSettle, TypeOK
  <2> QED
    BY <1>1, <1>2, <2>1, SettlingForward
<1>8. CASE Start
  <2>1. fb' = SettledFeedback(RecoveredWork, RecoveredRuns, RecoveredFeedback)
    BY <1>8 DEF Start
  <2>2. \/ RecoveredFeedback[w] = fb[w]
        \/ fb[w].state = "delivered" /\ RecoveredFeedback[w].state = "pending"
    BY <1>1 DEF RecoveredFeedback, Feedback
  <2>3. RecoveredFeedback[w].state # "none" => fb'[w] = RecoveredFeedback[w]
    BY <2>1, RecoveredTables, SettlingForward
  <2> QED
    BY <2>2, <2>3 DEF Forward
<1>9. ASSUME NEW v \in Work, Completed(v) PROVE Forward(w)
  <2>1. CASE CompletedUnreadable(v)
    BY <1>2, <2>1 DEF CompletedUnreadable
  <2>2. CASE CompletedRun(v)
    <3> DEFINE R == [run EXCEPT ![v] = FinishedRun(@, task[v].disp)]
               F == PublishedWith(v, R)
    <3>1. fb' = SettledFeedback(work, R, F)
      BY <2>2 DEF CompletedRun
    <3>2. fb[w].state # "none" => F[w] = fb[w]
      BY <1>1 DEF PublishedWith, Published
    <3>3. fb'[w] = F[w] \/ F[w].state = "none"
      BY <3>1 DEF SettledFeedback, Published
    <3> HIDE DEF F
    <3> QED
      BY <1>2, <3>2, <3>3
  <2> QED
    BY <1>9, <2>1, <2>2 DEF Completed
<1>10. CASE UNCHANGED fb
  BY <1>2, <1>10
<1> QED
  BY <1>3, <1>4, <1>5, <1>6, <1>7, <1>8, <1>9, <1>10, Changes DEF Attributed, FeedbackStep

\* Advice that was decided, or that may already have been acted on, is never
\* offered again, through reconnections, retries and restarts.
THEOREM AdviceStays == Spec => AdviceIsNotRepeated
<1> DEFINE A == \A w \in Work :
          /\ fb[w].state \in {"acknowledged", "rejected", "expired"} =>
                fb'[w].state \in {fb[w].state, "expired"}
          /\ fb[w].state = "unknown" =>
                fb'[w].state \in {"unknown", "acknowledged", "rejected", "expired"}
<1>1. TypeOK /\ [Next]_vars => [A]_vars
  BY FeedbackForward DEF Forward, Decided
<1>2. Spec => [][A]_vars
  BY <1>1, TypeCorrect, PTL DEF Spec
<1> QED
  BY <1>2, PTL DEF AdviceIsNotRepeated

-----------------------------------------------------------------------------
(* Results reach their feedback.                                           *)

\* A saved result of a run that ended, with nobody left to hand it over.
Unclaimed(w) == /\ task[w].at = "idle"
                /\ run[w].status \in Dispositions \ {"interrupted"}
                /\ run[w].saved # "none"

LEMMA StartSettles ==
  ASSUME RInv, Start, NEW w \in Work, Unclaimed(w)'
  PROVE  fb'[w].state # "none"
<1>1. /\ run' = RecoveredRuns
      /\ fb' = SettledFeedback(RecoveredWork, RecoveredRuns, RecoveredFeedback)
  BY DEF Start
<1>2. /\ RecoveredRuns[w].status \in Dispositions \ {"interrupted"}
      /\ RecoveredRuns[w].saved # "none"
  BY <1>1 DEF Unclaimed
<1>3. RecoveredRuns[w].status \notin {"none", "running", "interrupted"}
  BY <1>2 DEF Dispositions
<1>4. run \in [Work -> RunRow] /\ work \in [Work -> WorkRow]
  BY DEF RInv, TypeOK
<1>5. RecoveredWork[w].status # "none"
  <2>1. run[w].status # "none"
    BY <1>3, <1>4 DEF RecoveredRuns
  <2>2. work[w].status # "none"
    BY <2>1 DEF RInv, RowsExist
  <2> QED
    BY <1>4, <2>2 DEF RecoveredWork, WorkRow
<1>6. CASE RecoveredFeedback[w].state = "none"
  <2>1. w \in ToSettle(RecoveredWork, RecoveredRuns, RecoveredFeedback)
    BY <1>2, <1>3, <1>5, <1>6 DEF ToSettle
  <2> QED
    BY <1>1, <1>6, <2>1 DEF SettledFeedback, Published
<1>7. CASE RecoveredFeedback[w].state # "none"
  BY <1>1, <1>7 DEF SettledFeedback, Published
<1> QED
  BY <1>6, <1>7

\* A result becomes unclaimed when the loop takes it, and the loop publishes it.
LEMMA CompletedPublishes ==
  ASSUME TypeOK, NEW v \in Work, Completed(v), loop'.at \notin {"down", "closing"}
  PROVE  fb'[v].state # "none"
<1> DEFINE R == [run EXCEPT ![v] = FinishedRun(@, task[v].disp)]
           F == PublishedWith(v, R)
<1>1. ~CompletedUnreadable(v)
  BY DEF CompletedUnreadable, LoopFails, At
<1>2. fb' = SettledFeedback(work, R, F)
  BY <1>1 DEF Completed, CompletedRun
<1>3. F[v].state # "none"
  BY DEF TypeOK, PublishedWith, Published
<1> HIDE DEF R, F
<1> QED
  BY <1>2, <1>3 DEF SettledFeedback, Published

\* A host that is closing or down runs again only as a new process.
LEMMA HostLeaves ==
  ASSUME TypeOK, [Next]_vars, ~Start, loop'.at \notin {"down", "closing"}
  PROVE  loop.at \notin {"down", "closing"}
<1>1. ASSUME NEW a \in Attachments, Route(a) PROVE loop.at = "route"
  BY <1>1 DEF Route, RouteWaits, RouteFails, RouteInactive, RouteBatch
<1>2. ASSUME NEW w \in Work, Claim(w) PROVE loop.at = "claim"
  BY <1>2 DEF Claim
<1>3. ASSUME NEW w \in Work, Completed(w) PROVE loop' = loop
  <2>1. loop' = loop \/ LoopFails
    BY <1>3 DEF Completed, CompletedRun, CompletedUnreadable
  <2> QED
    BY <2>1 DEF LoopFails, At
<1>4. CASE TickSettle \/ RoutedAll \/ ClaimNothing
  BY <1>4 DEF TickSettle, RoutedAll, ClaimNothing
<1>5. ~(ClaimExpires \/ Disconnect \/ RenewFails \/ HostExit \/ Crash)
  BY DEF ClaimExpires, Disconnect, RenewFails, HostExit, Crash, Closing, At
<1> QED
  BY <1>1, <1>2, <1>3, <1>4, <1>5, Changes DEF Attributed, LoopStep

LEMMA TasksEnd ==
  ASSUME TypeOK, [Next]_vars, NEW w \in Work, task'[w].at = "idle",
         ~Completed(w), ~Crash
  PROVE  task[w].at = "idle"
<1>1. task \in [Work -> Task] /\ \A v \in Work : task[v] \in Task
  BY DEF TypeOK
<1>2. ASSUME NEW A, task' = CancelTasks(A) PROVE task[w].at = "idle"
  BY <1>1, <1>2 DEF CancelTasks, Task
<1>3. CASE \E a \in Attachments :
              InterruptAttachment(a) \/ Detach(a) \/ RouteFails(a) \/ RouteInactive(a)
  BY <1>2, <1>3 DEF InterruptAttachment, Detach, RouteFails, RouteInactive
<1>4. CASE Disconnect \/ RenewFails \/ ClaimExpires
  BY <1>2, <1>4 DEF Disconnect, RenewFails, ClaimExpires, Closing
<1>5. ASSUME NEW v \in Work, \/ Claim(v) \/ BeginRun(v) \/ TaskFails(v) \/ EnterSession(v)
                             \/ Park(v) \/ Unpark(v) \/ EndTask(v)
      PROVE  task[w].at = "idle"
  <2>1. \E t : task' = [task EXCEPT ![v] = t] /\ t.at # "idle"
    <3>1. CASE Claim(v)
      <4>1. task' = [task EXCEPT ![v] = [NoTask EXCEPT !.at = "starting"]]
        BY <3>1 DEF Claim
      <4>2. [NoTask EXCEPT !.at = "starting"].at = "starting"
        BY DEF NoTask
      <4> QED
        BY <4>1, <4>2
    <3>2. CASE BeginRun(v) \/ EnterSession(v) \/ Park(v) \/ Unpark(v)
      <4>1. \E p \in {"begun", "parked", "session"} :
               task' = [task EXCEPT ![v] = [task[v] EXCEPT !.at = p]]
        BY <1>1, <3>2 DEF BeginRun, EnterSession, Park, Unpark
      <4>2. \A p : [task[v] EXCEPT !.at = p].at = p
        BY <1>1 DEF Task
      <4> QED
        BY <4>1, <4>2
    <3>3. CASE TaskFails(v) \/ EndTask(v)
      <4>1. \E d : task' = [task EXCEPT ![v] = [task[v] EXCEPT !.at = "done", !.disp = d]]
        BY <1>1, <3>3 DEF TaskFails, EndTask
      <4>2. \A d : [task[v] EXCEPT !.at = "done", !.disp = d].at = "done"
        BY <1>1 DEF Task
      <4> QED
        BY <4>1, <4>2
    <3> QED
      BY <1>5, <3>1, <3>2, <3>3
  <2> QED
    BY <1>1, <2>1
<1>6. ASSUME NEW v \in Work, Completed(v) PROVE task[w].at = "idle"
  <2>1. v # w
    BY <1>6
  <2> QED
    BY <1>1, <1>6, <2>1 DEF Completed
<1>7. CASE UNCHANGED task
  BY <1>7
<1> QED
  BY <1>3, <1>4, <1>5, <1>6, <1>7, Changes DEF Attributed, TaskMove

LEMMA UnclaimedSteps ==
  ASSUME TypeOK, [Next]_vars, NEW w \in Work, Unclaimed(w)', ~Completed(w), ~Start,
         loop'.at \notin {"down", "closing"}
  PROVE  Unclaimed(w)
<1>1. run \in [Work -> RunRow] /\ \A v \in Work : run[v] \in RunRow
  BY DEF TypeOK
<1>2. ~Crash
  BY DEF Crash, At
<1>3. task[w].at = "idle"
  BY <1>2, TasksEnd DEF Unclaimed
<1>4. /\ run'[w].status \in Dispositions \ {"interrupted"}
      /\ run'[w].saved # "none"
  BY DEF Unclaimed
<1>5. ASSUME run'[w] = run[w] PROVE Unclaimed(w)
  BY <1>3, <1>4, <1>5 DEF Unclaimed
<1>6. ASSUME NEW v \in Work, DeleteResultSource(v) PROVE Unclaimed(w)
  <2>1. run' = [run EXCEPT ![v].saved = "none"]
    BY <1>6 DEF DeleteResultSource
  <2>2. v = w => run'[w].saved = "none"
    BY <1>1, <2>1 DEF RunRow
  <2> QED
    BY <1>1, <1>4, <1>5, <2>1, <2>2
<1>7. ASSUME NEW v \in Work, BeginRun(v) \/ Park(v) \/ Unpark(v) \/ EndTask(v)
      PROVE  Unclaimed(w)
  <2>1. task[v].at # "idle" /\ \E r : run' = [run EXCEPT ![v] = r]
    BY <1>1, <1>7 DEF BeginRun, Park, Unpark, EndTask
  <2> QED
    BY <1>1, <1>3, <1>5, <2>1
<1>8. ASSUME NEW v \in Work, Completed(v) PROVE Unclaimed(w)
  <2>1. v # w
    BY <1>8
  <2>2. \E r : run' = [run EXCEPT ![v] = r]
    BY <1>8, CompletedTables
  <2> QED
    BY <1>1, <1>5, <2>1, <2>2
<1>9. CASE UNCHANGED run
  BY <1>5, <1>9
<1> QED
  BY <1>6, <1>7, <1>8, <1>9, Changes DEF Attributed, RunStep

\* The final results that tasks leave behind have their feedback while the host
\* runs, whichever process recorded them and whichever statement it was at.
THEOREM ResultsPublished == Spec => []SavedResultsArePublished
<1>1. Init => SavedResultsArePublished
  BY DEF Init, SavedResultsArePublished, At
<1>2. RInv /\ SavedResultsArePublished /\ [Next]_vars => SavedResultsArePublished'
  <2> SUFFICES ASSUME RInv, SavedResultsArePublished, [Next]_vars, NEW w \in Work,
                      loop'.at \notin {"down", "closing"}, Unclaimed(w)'
               PROVE  fb'[w].state # "none"
    BY DEF SavedResultsArePublished, Unclaimed
  <2>1. TypeOK
    BY DEF RInv
  <2>2. CASE Start
    BY <2>2, StartSettles
  <2>3. CASE Completed(w)
    BY <2>1, <2>3, CompletedPublishes
  <2>4. CASE ~Start /\ ~Completed(w)
    <3>1. loop.at \notin {"down", "closing"}
      BY <2>1, <2>4, HostLeaves
    <3>2. Unclaimed(w)
      BY <2>1, <2>4, UnclaimedSteps
    <3>3. fb[w].state # "none"
      BY <3>1, <3>2 DEF SavedResultsArePublished, Unclaimed
    <3> QED
      BY <2>1, <3>3, FeedbackForward DEF Forward
  <2> QED
    BY <2>2, <2>3, <2>4
<1> QED
  BY <1>1, <1>2, RowInvariance, PTL DEF Spec

-----------------------------------------------------------------------------
(* Every routed event is in one place.                                     *)

BatchesOf(a, i) == {w \in WorkOf(a) : i \in work[w].events}

\* Cursors do not pass what was reported, and references do not pass cursors.
RefsInPlace ==
    \A a \in Attachments :
        /\ sub[a].cursor <= Len(log[a])
        /\ sub[a].pending \subseteq 1..sub[a].cursor
        /\ \A w \in WorkOf(a) : work[w].events \subseteq 1..sub[a].cursor

QInv == RInv /\ RefsInPlace

LEMMA BatchesStay ==
  ASSUME RInv, [Next]_vars, NEW a \in Attachments, NEW i,
         \A w \in Work : ~RouteBatch(a, w)
  PROVE  BatchesOf(a, i)' = BatchesOf(a, i)
<1> SUFFICES ASSUME NEW w \in Work
             PROVE  work'[w].att = a /\ i \in work'[w].events
                       <=> work[w].att = a /\ i \in work[w].events
  BY DEF BatchesOf, WorkOf
<1>1. CASE SameItem(w)
  BY <1>1 DEF SameItem
<1>2. CASE Created(w)
  <2>1. PICK c \in Attachments, E \in SUBSET (1..MaxEvents) :
          /\ (BeginRepair(c, w) /\ E = {}) \/ (RouteBatch(c, w) /\ E = Batch(c))
          /\ work' = Enqueued(work, w, c, E)
    BY <1>2 DEF Created
  <2>2. work'[w].att = c /\ work'[w].events = E
    BY <2>1 DEF Enqueued, RInv, TypeOK
  <2>3. work[w].att # a
    BY <2>1, AttachmentsAssumption DEF BeginRepair, RouteBatch, RInv, RowsExist
  <2>4. c # a \/ E = {}
    BY <2>1
  <2> QED
    BY <2>2, <2>3, <2>4
<1> QED
  BY <1>1, <1>2, ItemsStay

\* What a step does to the cursor and to the log of one execution.
LEMMA SourceMoves ==
  ASSUME QInv, [Next]_vars, NEW a \in Attachments
  PROVE  \/ UNCHANGED <<log[a], sub[a]>>
         \/ /\ \E kind \in Kinds : log'[a] = Append(log[a], kind)
            /\ UNCHANGED sub[a]
         \/ /\ UNCHANGED log[a]
            /\ sub'[a] = [cursor |-> Len(log[a]), pending |-> Batch(a)]
            /\ \A w \in Work : ~RouteBatch(a, w)
         \/ /\ UNCHANGED log[a] /\ \E w \in Work : RouteBatch(a, w)
<1>1. /\ log \in [Attachments -> Seq(Kinds)]
      /\ sub \in [Attachments -> [cursor : Nat, pending : SUBSET (1..MaxEvents)]]
  BY DEF QInv, RInv, TypeOK
<1>2. ASSUME NEW c \in Attachments, NEW kind \in Kinds, AppendEvents(c, kind)
      PROVE  UNCHANGED sub[a] /\ log'[a] \in {log[a], Append(log[a], kind)}
  BY <1>1, <1>2 DEF AppendEvents
<1>3. ASSUME NEW c \in Attachments, RouteWaits(c)
      PROVE  /\ UNCHANGED log[a]
             /\ \/ UNCHANGED sub[a]
                \/ /\ sub'[a] = [cursor |-> Len(log[a]), pending |-> Batch(a)]
                   /\ \A w \in Work : ~RouteBatch(a, w)
  <2>1. UNCHANGED <<log, work>>
    BY <1>3 DEF RouteWaits
  <2>2. \A w \in Work : ~RouteBatch(a, w)
    <3> SUFFICES ASSUME NEW w \in Work, RouteBatch(a, w) PROVE FALSE
      OBVIOUS
    <3>1. work[w].status = "none" /\ work'[w].status = "queued"
      BY DEF RouteBatch, Enqueued, QInv, RInv, TypeOK
    <3> QED
      BY <2>1, <3>1
  <2>3. \/ UNCHANGED sub
        \/ sub' = [sub EXCEPT ![c] = [cursor |-> Len(log[c]), pending |-> Batch(c)]]
    BY <1>3 DEF RouteWaits
  <2> QED
    BY <1>1, <2>1, <2>2, <2>3
<1>4. ASSUME NEW c \in Attachments, NEW w \in Work, RouteBatch(c, w)
      PROVE  \/ UNCHANGED <<log[a], sub[a]>>
             \/ UNCHANGED log[a] /\ \E v \in Work : RouteBatch(a, v)
  <2>1. UNCHANGED log /\ sub' = [sub EXCEPT ![c] = Polled(c)]
    BY <1>4 DEF RouteBatch
  <2>2. CASE c = a
    BY <1>4, <2>1, <2>2
  <2>3. CASE c # a
    BY <1>1, <2>1, <2>3
  <2> QED
    BY <2>2, <2>3
<1>5. CASE UNCHANGED <<log, sub>>
  BY <1>5
<1>6. CASE SourceStep
  <2>1. CASE \E c \in Attachments, kind \in Kinds : AppendEvents(c, kind)
    BY <1>2, <2>1
  <2>2. CASE \E c \in Attachments : RouteWaits(c)
    BY <1>3, <2>2
  <2>3. CASE \E c \in Attachments, w \in Work : RouteBatch(c, w)
    BY <1>4, <2>3
  <2> QED
    BY <1>6, <2>1, <2>2, <2>3 DEF SourceStep
<1> QED
  BY <1>5, <1>6, Changes DEF Attributed

LEMMA Positions ==
  ASSUME QInv, NEW a \in Attachments
  PROVE  /\ Len(log[a]) \in Nat /\ sub[a].cursor \in Nat /\ sub[a].cursor <= Len(log[a])
         /\ log[a] \in Seq(Kinds)
         /\ sub[a].pending \subseteq 1..sub[a].cursor
         /\ Batch(a) \subseteq 1..Len(log[a])
         /\ \A w \in WorkOf(a) : work[w].events \subseteq 1..sub[a].cursor
<1>1. log[a] \in Seq(Kinds) /\ sub[a] \in [cursor : Nat, pending : SUBSET (1..MaxEvents)]
  BY DEF QInv, RInv, TypeOK
<1>2. /\ sub[a].cursor <= Len(log[a])
      /\ sub[a].pending \subseteq 1..sub[a].cursor
      /\ \A w \in WorkOf(a) : work[w].events \subseteq 1..sub[a].cursor
  BY DEF QInv, RefsInPlace
<1>3. Len(log[a]) \in Nat /\ sub[a].cursor \in Nat
  BY <1>1
<1>4. Batch(a) \subseteq 1..Len(log[a])
  BY <1>2, <1>3 DEF Batch
<1> QED
  BY <1>1, <1>2, <1>3, <1>4

LEMMA RoutedBatch ==
  ASSUME QInv, NEW a \in Attachments, NEW w \in Work, RouteBatch(a, w)
  PROVE  /\ sub'[a] = [cursor |-> Len(log[a]), pending |-> {}] /\ log'[a] = log[a]
         /\ work[w].att = None
         /\ \A v \in Work : work'[v] = IF v = w
                                       THEN [status |-> "queued", attempts |-> 0, att |-> a,
                                             events |-> Batch(a)]
                                       ELSE work[v]
  BY DEF RouteBatch, Polled, Enqueued, QInv, RInv, RowsExist, TypeOK

LEMMA RefsStep ==
  ASSUME QInv, [Next]_vars PROVE RefsInPlace'
<1> SUFFICES ASSUME NEW a \in Attachments
             PROVE  /\ sub'[a].cursor <= Len(log'[a])
                    /\ sub'[a].pending \subseteq 1..sub'[a].cursor
                    /\ \A w \in Work : work'[w].att = a =>
                          work'[w].events \subseteq 1..sub'[a].cursor
  BY DEF RefsInPlace, WorkOf
<1>1. /\ sub'[a].cursor <= Len(log'[a]) /\ sub'[a].cursor \in Nat
      /\ sub'[a].pending \subseteq 1..sub'[a].cursor
      /\ sub'[a].cursor >= sub[a].cursor
  <2>1. CASE UNCHANGED <<log[a], sub[a]>>
    BY <2>1, Positions
  <2>2. CASE (\E kind \in Kinds : log'[a] = Append(log[a], kind)) /\ UNCHANGED sub[a]
    <3>1. Len(log'[a]) = Len(log[a]) + 1
      BY <2>2, Positions
    <3> QED
      BY <2>2, <3>1, Positions
  <2>3. CASE UNCHANGED log[a] /\ sub'[a] = [cursor |-> Len(log[a]), pending |-> Batch(a)]
    BY <2>3, Positions
  <2>4. CASE \E w \in Work : RouteBatch(a, w)
    <3>1. sub'[a] = [cursor |-> Len(log[a]), pending |-> {}] /\ log'[a] = log[a]
      BY <2>4, RoutedBatch
    <3>2. sub'[a].cursor = Len(log[a]) /\ sub'[a].pending = {}
      BY <3>1
    <3> QED
      BY <3>1, <3>2, Positions
  <2> QED
    BY <2>1, <2>2, <2>3, <2>4, SourceMoves
<1>2. ASSUME NEW w \in Work, work'[w].att = a
      PROVE  work'[w].events \subseteq 1..sub'[a].cursor
  <2>1. CASE SameItem(w)
    <3>1. w \in WorkOf(a) /\ work'[w].events = work[w].events
      BY <1>2, <2>1 DEF SameItem, WorkOf
    <3>2. work[w].events \subseteq 1..sub[a].cursor /\ sub[a].cursor \in Nat
      BY <3>1, Positions
    <3> QED
      BY <1>1, <3>1, <3>2
  <2>2. CASE Created(w)
    <3>1. PICK c \in Attachments, E \in SUBSET (1..MaxEvents) :
            /\ (BeginRepair(c, w) /\ E = {}) \/ (RouteBatch(c, w) /\ E = Batch(c))
            /\ work' = Enqueued(work, w, c, E)
      BY <2>2 DEF Created
    <3>2. work'[w].att = c /\ work'[w].events = E
      BY <3>1 DEF Enqueued, QInv, RInv, TypeOK
    <3>3. CASE RouteBatch(a, w) /\ E = Batch(a)
      <4>1. sub'[a] = [cursor |-> Len(log[a]), pending |-> {}]
        BY <3>3, RoutedBatch
      <4>2. sub'[a].cursor = Len(log[a])
        BY <4>1
      <4> QED
        BY <3>2, <3>3, <4>2, Positions
    <3> QED
      BY <1>2, <3>1, <3>2, <3>3
  <2> QED
    BY <2>1, <2>2, ItemsStay DEF QInv
<1> QED
  BY <1>1, <1>2

LEMMA RoutedOnceStep ==
  ASSUME QInv, RoutedOnce, [Next]_vars PROVE RoutedOnce'
<1> DEFINE Once(B, i, c, P) ==
             IF i > c \/ i \in P THEN B = {} /\ (i > c => i \notin P)
             ELSE Cardinality(B) = 1
<1> SUFFICES ASSUME NEW a \in Attachments, NEW i \in 1..Len(log'[a]), log'[a][i] \in Routed
             PROVE  Once(BatchesOf(a, i)', i, sub'[a].cursor, sub'[a].pending)
  BY DEF RoutedOnce, BatchesOf
<1>1. \A j \in 1..Len(log[a]) : log[a][j] \in Routed =>
         Once(BatchesOf(a, j), j, sub[a].cursor, sub[a].pending)
  BY DEF RoutedOnce, BatchesOf
<1>2. i \in Nat
  OBVIOUS
<1> HIDE DEF Routed
<1>3. CASE \A w \in Work : ~RouteBatch(a, w)
  <2>1. BatchesOf(a, i)' = BatchesOf(a, i)
    BY <1>3, BatchesStay DEF QInv
  <2>2. CASE UNCHANGED <<log[a], sub[a]>>
    BY <1>1, <2>1, <2>2
  <2>3. CASE (\E kind \in Kinds : log'[a] = Append(log[a], kind)) /\ UNCHANGED sub[a]
    <3>1. PICK kind \in Kinds : log'[a] = Append(log[a], kind)
      BY <2>3
    <3>2. /\ Len(log'[a]) = Len(log[a]) + 1
          /\ \A j \in 1..Len(log[a]) : log'[a][j] = log[a][j]
      BY <3>1, Positions
    <3>3. CASE i \in 1..Len(log[a])
      BY <1>1, <2>1, <2>3, <3>2, <3>3
    <3>4. CASE i = Len(log[a]) + 1
      <4>1. i > sub[a].cursor /\ i \notin sub[a].pending
        BY <3>4, Positions
      <4>2. \A w \in WorkOf(a) : i \notin work[w].events
        BY <3>4, Positions
      <4> QED
        BY <2>1, <2>3, <4>1, <4>2 DEF BatchesOf
    <3> QED
      BY <3>2, <3>3, <3>4, Positions
  <2>4. CASE UNCHANGED log[a] /\ sub'[a] = [cursor |-> Len(log[a]), pending |-> Batch(a)]
    <3>1. ~(i > sub'[a].cursor) /\ sub'[a].pending = Batch(a)
      BY <2>4, Positions
    <3>2. Once(BatchesOf(a, i), i, sub[a].cursor, sub[a].pending)
      BY <1>1, <2>4
    <3>3. i \in Batch(a) <=> i > sub[a].cursor \/ i \in sub[a].pending
      BY <2>4, Positions DEF Batch
    <3> QED
      BY <2>1, <3>1, <3>2, <3>3
  <2> QED
    BY <1>3, <2>2, <2>3, <2>4, SourceMoves
<1>4. ASSUME NEW w \in Work, RouteBatch(a, w)
      PROVE  Once(BatchesOf(a, i)', i, sub'[a].cursor, sub'[a].pending)
  <2>1. /\ sub'[a] = [cursor |-> Len(log[a]), pending |-> {}] /\ log'[a] = log[a]
        /\ work[w].att = None
        /\ \A v \in Work : work'[v] = IF v = w
                                      THEN [status |-> "queued", attempts |-> 0, att |-> a,
                                            events |-> Batch(a)]
                                      ELSE work[v]
    BY <1>4, RoutedBatch
  <2>2. ~(i > sub'[a].cursor) /\ i \notin sub'[a].pending
    BY <2>1, Positions
  <2>3. Once(BatchesOf(a, i), i, sub[a].cursor, sub[a].pending)
    BY <1>1, <2>1
  <2>4. i \in Batch(a) <=> i > sub[a].cursor \/ i \in sub[a].pending
    BY <2>1, Positions DEF Batch
  <2>5. w \notin BatchesOf(a, i)
    BY <2>1, AttachmentsAssumption DEF BatchesOf, WorkOf
  <2>6. BatchesOf(a, i)' = IF i \in Batch(a) THEN BatchesOf(a, i) \cup {w} ELSE BatchesOf(a, i)
    BY <2>1, <2>5 DEF BatchesOf, WorkOf
  <2>7. Cardinality(BatchesOf(a, i)') = 1
    <3>1. CASE i \in Batch(a)
      <4>1. BatchesOf(a, i)' = {w}
        BY <2>3, <2>4, <2>6, <3>1
      <4> QED
        BY <4>1, FS_Singleton
    <3>2. CASE i \notin Batch(a)
      BY <2>3, <2>4, <2>6, <3>2
    <3> QED
      BY <3>1, <3>2
  <2> QED
    BY <2>2, <2>7
<1> QED
  BY <1>3, <1>4

\* A routed event is ahead of the cursor, pending, or in exactly one batch,
\* whatever interrupts the polls, for any batch size and any delay.
THEOREM EventsRoutedOnce == Spec => []RoutedOnce
<1>1. Init => RefsInPlace /\ RoutedOnce
  BY AttachmentsAssumption DEF Init, RefsInPlace, RoutedOnce, WorkOf
<1>2. RInv /\ RefsInPlace /\ RoutedOnce /\ [Next]_vars => RefsInPlace' /\ RoutedOnce'
  BY RefsStep, RoutedOnceStep DEF QInv
<1> QED
  BY <1>1, <1>2, RowInvariance, PTL DEF Spec
-----------------------------------------------------------------------------
(* Completed attachments.  An item is decided once; what still can be heard *)
(* of it afterwards is known from its task, its run and its feedback.       *)

\* Nothing more is to come from the run of w.
Silent(w) == /\ task[w].at = "idle"
             /\ run[w].status \in {"none", "interrupted"} \/ run[w].saved = "none"

Over(status) == status \notin {"none"} \cup Unsettled

\* Only items that run have a task, and only a host that is up has one; while
\* it is up a run that is open has a task that began it.
TasksOwned ==
    /\ loop.at = "down" => \A w \in Work : task[w].at = "idle"
    /\ \A w \in Work :
          /\ work[w].status \in {"queued", "interrupted"} => task[w].at = "idle"
          /\ loop.at # "down" /\ run[w].status \in {"running", "waiting"}
                => task[w].at \notin {"idle", "starting"}

\* The item of a handoff carries no batch of events.
RepairsApart ==
    \A a \in Attachments : att[a].gen # None =>
        work[att[a].gen].status # "none" /\ work[att[a].gen].events = {}

\* A batch that is decided has its feedback, or will never have one.
DecidedIsHeard ==
    \A w \in Work : Over(work[w].status) /\ work[w].events # {} =>
        fb[w].state # "none" \/ Silent(w)

QuietInv == RInv /\ SavedResultsArePublished /\ TasksOwned /\ RepairsApart /\ DecidedIsHeard

LEMMA ClaimRuns ==
  ASSUME TypeOK, NEW v \in Work, Claim(v), NEW w \in Work
  PROVE  /\ Claimable(v) /\ work'[v].status = "running"
         /\ w # v /\ work'[w] # work[w] => /\ work[w].status \in {"queued", "interrupted"}
                                           /\ work'[w].status = "failed"
<1>1. work \in [Work -> WorkRow] /\ \A u \in Work : work[u] \in WorkRow
  BY DEF TypeOK
<1>2. PICK F \in SUBSET {u \in Work : Claimable(u) /\ Exhausted(u)} :
        work' = [u \in Work |->
                   IF u \in F THEN [work[u] EXCEPT !.status = "failed"]
                   ELSE IF u = v THEN [work[u] EXCEPT !.status = "running",
                                                      !.attempts = @ + 1]
                   ELSE work[u]]
  BY DEF Claim
<1>3. v \notin F /\ Claimable(v)
  BY DEF Claim
<1>4. work'[v].status = "running"
  <2>1. work'[v] = [work[v] EXCEPT !.status = "running", !.attempts = @ + 1]
    BY <1>2, <1>3
  <2> QED
    BY <1>1, <2>1, NewStatus
<1>5. ASSUME w # v, work'[w] # work[w]
      PROVE  work[w].status \in {"queued", "interrupted"} /\ work'[w].status = "failed"
  <2>1. w \in F /\ work'[w] = [work[w] EXCEPT !.status = "failed"]
    BY <1>2, <1>5
  <2> QED
    BY <1>1, <2>1, NewStatus DEF Claimable
<1> QED
  BY <1>3, <1>4, <1>5

\* What may happen to the status of an item.
GivenUp(w) == /\ work[w].status \in {"queued", "interrupted"}
              /\ work'[w].status \in {"cancelled", "failed"}
              /\ loop.at \in {"select", "claim"}
              /\ UNCHANGED <<run, fb>>

SettledHere(w) == Over(work'[w].status) /\ fb'[w].state # "none"

Interrupts(w) == /\ work'[w].status = "interrupted"
                 /\ work[w].status \in {"running", "interrupted"}
                 /\ Start \/ Completed(w)

StatusMove(w) ==
    \/ work'[w].status = work[w].status
    \/ Created(w) \/ GivenUp(w) \/ SettledHere(w) \/ Interrupts(w)
    \/ Claim(w)
    \/ \E a \in Attachments : Release(a, w)

\* Settling gives an item a status that is over, and feedback.
LEMMA SettlingDecides ==
  ASSUME NEW W \in [Work -> WorkRow], NEW R \in [Work -> RunRow],
         NEW F \in [Work -> Feedback], NEW w \in Work
  PROVE  \/ SettledWork(W, R, F)[w] = W[w]
         \/ /\ Over(SettledWork(W, R, F)[w].status)
            /\ SettledWork(W, R, F)[w].status = WorkStatusOf(R[w].status)
            /\ R[w].status # "interrupted"
            /\ SettledFeedback(W, R, F)[w].state # "none"
<1>1. CASE w \in ToSettle(W, R, F)
  <2>1. /\ SettledWork(W, R, F)[w] = [W[w] EXCEPT !.status = WorkStatusOf(R[w].status)]
        /\ R[w].status \notin {"none", "running", "interrupted"}
        /\ W[w] \in WorkRow /\ R[w] \in RunRow
    BY <1>1 DEF SettledWork, ToSettle
  <2>2. Over(WorkStatusOf(R[w].status))
    BY <2>1 DEF WorkStatusOf, Over, Unsettled, RunRow, Dispositions
  <2>3. SettledFeedback(W, R, F)[w].state # "none"
    BY <1>1 DEF SettledFeedback, Published
  <2> QED
    BY <2>1, <2>2, <2>3, NewStatus
<1>2. CASE w \notin ToSettle(W, R, F)
  BY <1>2 DEF SettledWork
<1> QED
  BY <1>1, <1>2

LEMMA StatusMoves ==
  ASSUME RInv, [Next]_vars, NEW w \in Work
  PROVE  StatusMove(w)
<1>1. /\ work \in [Work -> WorkRow] /\ run \in [Work -> RunRow] /\ fb \in [Work -> Feedback]
      /\ \A v \in Work : work[v] \in WorkRow
  BY DEF RInv, TypeOK
<1>2. ASSUME NEW a \in Attachments, Detach(a) PROVE StatusMove(w)
  <2>1. \/ work'[w] = work[w]
        \/ /\ work'[w] = [work[w] EXCEPT !.status = "cancelled"]
           /\ work[w].status \in {"queued", "interrupted"}
    BY <1>2 DEF Detach, QueuedWork
  <2>2. loop.at = "select" /\ UNCHANGED <<run, fb>>
    BY <1>2 DEF Detach
  <2>3. [work[w] EXCEPT !.status = "cancelled"].status = "cancelled"
    BY <1>1, NewStatus
  <2>4. work'[w] = work[w] \/ GivenUp(w)
    BY <2>1, <2>2, <2>3 DEF GivenUp
  <2> QED
    BY <2>4 DEF StatusMove
<1>3. ASSUME NEW a \in Attachments, NEW v \in Work, Release(a, v) PROVE StatusMove(w)
  <2>1. CASE v = w
    BY <1>3, <2>1 DEF StatusMove
  <2>2. CASE v # w
    BY <1>1, <1>3, <2>2 DEF Release, StatusMove
  <2> QED
    BY <2>1, <2>2
<1>4. ASSUME NEW a \in Attachments, NEW v \in Work, BeginRepair(a, v) \/ RouteBatch(a, v)
      PROVE  StatusMove(w)
  BY ItemsStay, <1>1, <1>4 DEF StatusMove, BeginRepair, RouteBatch, Enqueued, SameItem
<1>5. ASSUME NEW v \in Work, Claim(v) PROVE StatusMove(w)
  <2>1. CASE v = w
    BY <1>5, <2>1 DEF StatusMove
  <2>2. CASE v # w
    <3>1. work'[w] # work[w] => /\ work[w].status \in {"queued", "interrupted"}
                                /\ work'[w].status = "failed"
      BY <1>5, <2>2, ClaimRuns DEF RInv
    <3>2. loop.at = "claim" /\ UNCHANGED <<run, fb>>
      BY <1>5 DEF Claim
    <3> QED
      BY <3>1, <3>2 DEF StatusMove, GivenUp
  <2> QED
    BY <2>1, <2>2
<1>6. CASE ClaimNothing
  <2>1. \/ work'[w] = work[w]
        \/ /\ work'[w] = [work[w] EXCEPT !.status = "failed"]
           /\ work[w].status \in {"queued", "interrupted"}
    BY <1>6 DEF ClaimNothing, Claimable
  <2>2. loop.at = "claim" /\ UNCHANGED <<run, fb>>
    BY <1>6 DEF ClaimNothing
  <2>3. [work[w] EXCEPT !.status = "failed"].status = "failed"
    BY <1>1, NewStatus
  <2>4. work'[w] = work[w] \/ GivenUp(w)
    BY <2>1, <2>2, <2>3 DEF GivenUp
  <2> QED
    BY <2>4 DEF StatusMove
<1>7. CASE TickSettle
  <2>1. work' = SettledWork(work, run, fb) /\ fb' = SettledFeedback(work, run, fb)
    BY <1>7 DEF TickSettle
  <2> QED
    BY <1>1, <2>1, SettlingDecides DEF StatusMove, SettledHere
<1>8. CASE Start
  <2>1. /\ work' = SettledWork(RecoveredWork, RecoveredRuns, RecoveredFeedback)
        /\ fb' = SettledFeedback(RecoveredWork, RecoveredRuns, RecoveredFeedback)
    BY <1>8 DEF Start
  <2>2. \/ RecoveredWork[w] = work[w]
        \/ RecoveredWork[w].status = "interrupted" /\ work[w].status = "running"
    BY <1>1, NewStatus DEF RecoveredWork
  <2>3. /\ RecoveredWork \in [Work -> WorkRow] /\ RecoveredRuns \in [Work -> RunRow]
        /\ RecoveredFeedback \in [Work -> Feedback]
    BY RecoveredTables DEF RInv
  <2>4. work'[w] = RecoveredWork[w] \/ SettledHere(w)
    BY <2>1, <2>3, SettlingDecides DEF SettledHere
  <2> QED
    BY <1>8, <2>2, <2>4 DEF StatusMove, Interrupts
<1>9. ASSUME NEW v \in Work, Completed(v) PROVE StatusMove(w)
  <2> DEFINE R == [run EXCEPT ![v] = FinishedRun(@, task[v].disp)]
             F == PublishedWith(v, R)
             S == SettledWork(work, R, F)
  <2>1. task[v].disp \in Dispositions /\ run[v] \in RunRow
    BY DEF RInv, TypeOK, Task
  <2>2. R \in [Work -> RunRow] /\ R[v] = FinishedRun(run[v], task[v].disp)
    BY <1>1, <2>1, RunUpdate
  <2>3. CASE CompletedUnreadable(v)
    BY <2>3 DEF CompletedUnreadable, StatusMove
  <2>4. CASE CompletedRun(v)
    <3>1. R[v].status \in Dispositions
      BY <2>1, <2>2, <2>4, RunUpdate, Zenon DEF CompletedRun, FinishedRun, RunStatuses
    <3>2. F \in [Work -> Feedback] /\ F[v].state # "none"
      BY <1>1, <3>1, FeedbackUpdate DEF PublishedWith, Published
    <3>3. fb' = SettledFeedback(work, R, F)
      BY <2>4 DEF CompletedRun
    <3>4. \/ work' = S
          \/ /\ work' = [S EXCEPT ![v].status = WorkStatusOf(R[v].status)]
             /\ LeaseCloses(S[v].status, WorkStatusOf(R[v].status))
      BY <2>4, Zenon DEF CompletedRun
    <3>5. S \in [Work -> WorkRow]
      <4> HIDE DEF R, F
      <4> QED
        BY <1>1, <2>2, <3>2, Settling
    <3>6. \/ S[w] = work[w]
          \/ Over(S[w].status) /\ R[w].status # "interrupted" /\ fb'[w].state # "none"
      <4> HIDE DEF R, F
      <4> QED
        BY <1>1, <2>2, <3>2, <3>3, SettlingDecides
    <3>7. fb'[v].state # "none"
      BY <3>2, <3>3 DEF SettledFeedback, Published
    <3> HIDE DEF R, F, S
    <3>8. CASE work'[w] = S[w]
      BY <3>6, <3>8 DEF StatusMove, SettledHere
    <3>9. CASE work'[w] # S[w]
      <4>1. /\ w = v /\ work'[w].status = WorkStatusOf(R[v].status)
            /\ LeaseCloses(S[v].status, WorkStatusOf(R[v].status))
        <5>1. work' = [S EXCEPT ![v] = [S[v] EXCEPT !.status = WorkStatusOf(R[v].status)]]
          BY <3>4, <3>5, <3>9
        <5>2. w = v /\ work'[v] = [S[v] EXCEPT !.status = WorkStatusOf(R[v].status)]
          BY <3>5, <3>9, <5>1
        <5>3. S[v] \in WorkRow
          BY <3>5
        <5> QED
          BY <3>4, <3>9, <5>2, <5>3, NewStatus
      <4>2. CASE R[v].status = "interrupted"
        <5>1. work'[w].status = "interrupted" /\ S[w] = work[w]
          BY <3>6, <4>1, <4>2 DEF WorkStatusOf
        <5> QED
          BY <1>9, <4>1, <4>2, <5>1 DEF LeaseCloses, WorkStatusOf, StatusMove, Interrupts
      <4>3. CASE R[v].status # "interrupted"
        <5>1. Over(WorkStatusOf(R[v].status))
          BY <3>1, <4>3 DEF Over, Unsettled, WorkStatusOf, Dispositions
        <5> QED
          BY <3>7, <4>1, <5>1 DEF StatusMove, SettledHere
      <4> QED
        BY <4>2, <4>3
    <3> QED
      BY <3>8, <3>9
  <2> QED
    BY <1>9, <2>3, <2>4 DEF Completed
<1>10. CASE UNCHANGED work
  BY <1>10 DEF StatusMove
<1> QED
  BY <1>2, <1>3, <1>4, <1>5, <1>6, <1>7, <1>8, <1>9, <1>10, Changes DEF Attributed, WorkStep

\* Only a new process leaves the state of a host that is down.
LEMMA DownStays ==
  ASSUME TypeOK, [Next]_vars, ~Start, loop.at = "down"
  PROVE  loop'.at = "down"
<1>1. ASSUME NEW a \in Attachments, Route(a) PROVE FALSE
  BY <1>1 DEF Route, RouteWaits, RouteFails, RouteInactive, RouteBatch
<1>2. ~\E w \in Work : Claim(w) \/ Completed(w)
  BY DEF Claim, Completed
<1>3. ~(\/ TickSettle \/ RoutedAll \/ ClaimNothing \/ ClaimExpires \/ Disconnect \/ RenewFails
        \/ HostExit \/ Crash)
  BY DEF TickSettle, RoutedAll, ClaimNothing, ClaimExpires, Disconnect, RenewFails,
         HostExit, Crash
<1> QED
  BY <1>1, <1>2, <1>3, Changes DEF Attributed, LoopStep

\* A host goes down when its tasks are gone, or takes them with it.
LEMMA GoingDown ==
  ASSUME RInv, TasksOwned, [Next]_vars, loop'.at = "down", NEW w \in Work
  PROVE  task'[w].at = "idle"
<1>1. TypeOK /\ loop \in LoopRow
  BY DEF RInv, TypeOK, LoopRow
<1>2. CASE Crash
  BY <1>2 DEF Crash, NoTask
<1>3. CASE HostExit
  BY <1>3 DEF HostExit, ActiveTasks
<1>4. CASE UNCHANGED loop
  <2>1. loop.at = "down"
    BY <1>4
  <2>2. task[w].at = "idle" /\ ~Claim(w)
    BY <2>1 DEF TasksOwned, Claim
  <2> QED
    BY <1>1, <2>2, TasksStart
<1>5. ASSUME NEW a \in Attachments, Route(a) PROVE FALSE
  BY <1>1, <1>5 DEF Route, RouteWaits, RouteFails, RouteInactive, RouteBatch, Skip, LoopRow
<1>6. ASSUME NEW v \in Work, Claim(v) PROVE FALSE
  BY <1>6 DEF Claim, At
<1>7. ASSUME NEW v \in Work, Completed(v) PROVE UNCHANGED loop
  <2>1. loop' = loop \/ LoopFails
    BY <1>7 DEF Completed, CompletedRun, CompletedUnreadable
  <2> QED
    BY <2>1 DEF LoopFails, At
<1>8. ~(\/ TickSettle \/ RoutedAll \/ ClaimNothing \/ ClaimExpires \/ Disconnect \/ RenewFails
        \/ Start)
  BY DEF TickSettle, RoutedAll, ClaimNothing, ClaimExpires, Disconnect, RenewFails, Closing,
         Start, At
<1> QED
  BY <1>2, <1>3, <1>4, <1>5, <1>6, <1>7, <1>8, Changes DEF Attributed, LoopStep

LEMMA TaskBegins ==
  ASSUME TypeOK, [Next]_vars, NEW w \in Work, task'[w].at = "starting", ~Claim(w)
  PROVE  task[w].at = "starting"
<1>1. task \in [Work -> Task] /\ \A v \in Work : task[v] \in Task
  BY DEF TypeOK
<1>2. ASSUME NEW A, task' = CancelTasks(A) PROVE task[w].at = "starting"
  BY <1>1, <1>2 DEF CancelTasks, Task
<1>3. CASE \E a \in Attachments :
              InterruptAttachment(a) \/ Detach(a) \/ RouteFails(a) \/ RouteInactive(a)
  BY <1>2, <1>3 DEF InterruptAttachment, Detach, RouteFails, RouteInactive
<1>4. CASE Disconnect \/ RenewFails \/ ClaimExpires
  BY <1>2, <1>4 DEF Disconnect, RenewFails, ClaimExpires, Closing
<1>5. ASSUME NEW v \in Work, Claim(v) PROVE task[w].at = "starting"
  <2>1. v # w
    BY <1>5
  <2> QED
    BY <1>1, <1>5, <2>1, Zenon DEF Claim
<1>6. ASSUME NEW v \in Work, \/ BeginRun(v) \/ TaskFails(v) \/ EnterSession(v) \/ Park(v)
                             \/ Unpark(v) \/ EndTask(v) \/ Completed(v)
      PROVE  task[w].at = "starting"
  <2>1. \E t : task' = [task EXCEPT ![v] = t] /\ t.at # "starting"
    <3>1. CASE BeginRun(v) \/ EnterSession(v) \/ Park(v) \/ Unpark(v)
      <4>1. \E p \in {"begun", "parked", "session"} :
               task' = [task EXCEPT ![v] = [task[v] EXCEPT !.at = p]]
        BY <1>1, <3>1 DEF BeginRun, EnterSession, Park, Unpark
      <4>2. \A p : [task[v] EXCEPT !.at = p].at = p
        BY <1>1 DEF Task
      <4> QED
        BY <4>1, <4>2
    <3>2. CASE TaskFails(v) \/ EndTask(v)
      <4>1. \E d : task' = [task EXCEPT ![v] = [task[v] EXCEPT !.at = "done", !.disp = d]]
        BY <1>1, <3>2 DEF TaskFails, EndTask
      <4>2. \A d : [task[v] EXCEPT !.at = "done", !.disp = d].at = "done"
        BY <1>1 DEF Task
      <4> QED
        BY <4>1, <4>2
    <3>3. CASE Completed(v)
      <4>1. task' = [task EXCEPT ![v] = NoTask] /\ NoTask.at = "idle"
        BY <3>3 DEF Completed, NoTask
      <4> QED
        BY <4>1
    <3> QED
      BY <1>6, <3>1, <3>2, <3>3
  <2> QED
    BY <1>1, <2>1
<1>7. CASE Crash
  BY <1>7 DEF Crash, NoTask
<1>8. CASE UNCHANGED task
  BY <1>8
<1> QED
  BY <1>3, <1>4, <1>5, <1>6, <1>7, <1>8, Changes DEF Attributed, TaskMove

\* A run is opened by its task, and closed when its result is taken.
LEMMA RunsOpen ==
  ASSUME TypeOK, [Next]_vars, NEW w \in Work, run'[w].status \in {"running", "waiting"},
         ~BeginRun(w)
  PROVE  run[w].status \in {"running", "waiting"} /\ ~Completed(w) /\ ~Start
<1>1. run \in [Work -> RunRow] /\ \A v \in Work : run[v] \in RunRow
  BY DEF TypeOK
<1>2. ASSUME NEW v \in Work, NEW d \in Dispositions, run' = [run EXCEPT ![v] = FinishedRun(@, d)]
      PROVE  v # w /\ run'[w] = run[w]
  <2>1. FinishedRun(run[v], d).status \notin {"running", "waiting"}
    BY <1>1 DEF FinishedRun, Dispositions
  <2> QED
    BY <1>1, <1>2, <2>1
<1>3. ASSUME NEW v \in Work, Completed(v) PROVE v # w /\ run'[w] = run[w]
  <2>1. task[v].disp \in Dispositions
    BY DEF TypeOK, Task
  <2> QED
    BY <1>2, <1>3, <2>1, CompletedTables
<1>4. ~Start
  BY <1>1 DEF Start, RecoveredRuns, RunRow
<1>5. ASSUME NEW v \in Work, EndTask(v) PROVE run'[w] = run[w]
  <2>1. PICK d \in Endings(v) : run' = [run EXCEPT ![v] = FinishedRun(@, d)]
    BY <1>5 DEF EndTask
  <2>2. d \in Dispositions
    BY AttachmentsAssumption DEF Endings, Dispositions
  <2> QED
    BY <1>2, <2>1, <2>2
<1>6. ASSUME NEW v \in Work, BeginRun(v) PROVE run'[w] = run[w]
  BY <1>1, <1>6 DEF BeginRun
<1>7. ASSUME NEW v \in Work, DeleteResultSource(v) \/ Park(v) \/ Unpark(v)
      PROVE  run[w].status \in {"running", "waiting"}
  <2>1. CASE DeleteResultSource(v)
    BY <1>1, <2>1 DEF DeleteResultSource, RunRow
  <2>2. CASE Park(v)
    BY <1>1, <2>2 DEF Park, RequireActive
  <2>3. CASE Unpark(v)
    <3>1. run' = [run EXCEPT ![v] = [run[v] EXCEPT
                    !.waits = FALSE, !.status = IF @ = "waiting" THEN "running" ELSE @]]
      BY <1>1, <2>3 DEF Unpark
    <3> QED
      BY <1>1, <3>1 DEF RunRow
  <2> QED
    BY <1>7, <2>1, <2>2, <2>3
<1>8. CASE UNCHANGED run
  BY <1>3, <1>4, <1>8
<1> QED
  BY <1>3, <1>4, <1>5, <1>6, <1>7, <1>8, Changes DEF Attributed, RunStep

LEMMA OwnersStep ==
  ASSUME RInv, TasksOwned, [Next]_vars PROVE TasksOwned'
<1>1. TypeOK
  BY DEF RInv
<1>2. ASSUME NEW w \in Work, work'[w].status \in {"queued", "interrupted"}
      PROVE  task'[w].at = "idle"
  <2>1. CASE task[w].at = "idle" /\ ~Claim(w)
    BY <1>1, <2>1, TasksStart
  <2>2. ~Claim(w)
    BY <1>1, <1>2, ClaimRuns
  <2>3. CASE Completed(w)
    BY <1>1, <2>3 DEF Completed, TypeOK, NoTask
  <2>4. CASE task[w].at # "idle" /\ ~Completed(w)
    <3>1. work[w].status \notin {"none", "queued", "interrupted"} /\ ~Start
      BY <2>4 DEF TasksOwned, RInv, RowsExist, Start
    <3>2. ~Created(w)
      BY <3>1, Zenon DEF Created, BeginRepair, RouteBatch
    <3>3. ASSUME NEW a \in Attachments, Release(a, w) PROVE FALSE
      <4>1. work' = [work EXCEPT ![w] = [work[w] EXCEPT
                              !.status = IF @ \in Unsettled THEN "cancelled" ELSE @]]
        BY <1>1, <3>3 DEF Release, TypeOK
      <4> QED
        BY <1>1, <1>2, <3>1, <4>1 DEF TypeOK, WorkRow, Unsettled
    <3> QED
      BY <1>2, <2>2, <2>4, <3>1, <3>2, <3>3, StatusMoves
      DEF StatusMove, GivenUp, SettledHere, Over, Unsettled, Interrupts
  <2> QED
    BY <2>1, <2>2, <2>3, <2>4
<1>3. ASSUME NEW w \in Work, loop'.at # "down", run'[w].status \in {"running", "waiting"}
      PROVE  task'[w].at \notin {"idle", "starting"}
  <2>1. CASE BeginRun(w)
    BY <1>1, <2>1 DEF BeginRun, TypeOK, Task
  <2>2. CASE ~BeginRun(w)
    <3>1. run[w].status \in {"running", "waiting"} /\ ~Completed(w) /\ ~Start
      BY <1>1, <1>3, <2>2, RunsOpen
    <3>2. loop.at # "down" /\ ~Crash
      BY <1>1, <1>3, <3>1, DownStays DEF Crash, At
    <3>3. task[w].at \notin {"idle", "starting"}
      BY <3>1, <3>2 DEF TasksOwned
    <3>4. ~Claim(w)
      BY <3>3, Zenon DEF TasksOwned, Claim, Claimable
    <3> QED
      BY <1>1, <3>1, <3>2, <3>3, <3>4, TasksEnd, TaskBegins
  <2> QED
    BY <2>1, <2>2
<1> QED
  BY <1>2, <1>3, GoingDown DEF TasksOwned

LEMMA RepairsStep ==
  ASSUME RInv, RepairsApart, [Next]_vars PROVE RepairsApart'
<1> SUFFICES ASSUME NEW a \in Attachments, att'[a].gen # None
             PROVE  work'[att'[a].gen].status # "none" /\ work'[att'[a].gen].events = {}
  BY DEF RepairsApart
<1>1. TypeOK /\ att \in [Attachments -> AttachmentRow] /\ work \in [Work -> WorkRow]
  BY DEF RInv, TypeOK
<1>2. CASE att'[a].gen = att[a].gen
  <2> DEFINE w == att[a].gen
  <2>1. w \in Work
    BY <1>1, <1>2 DEF AttachmentRow
  <2>2. work[w].status # "none" /\ work[w].events = {}
    BY <1>2 DEF RepairsApart
  <2>3. ~Created(w)
    BY <2>2, Zenon DEF Created, BeginRepair, RouteBatch
  <2> QED
    BY <1>2, <2>1, <2>2, <2>3, ItemsStay DEF SameItem
<1>3. ASSUME NEW w \in Work, BeginRepair(a, w)
      PROVE  work'[att'[a].gen].status # "none" /\ work'[att'[a].gen].events = {}
  <2>1. att'[a].gen = w /\ work' = Enqueued(work, w, a, {})
    BY <1>1, <1>3 DEF BeginRepair, AttachmentRow
  <2>2. work'[w] = [status |-> "queued", attempts |-> 0, att |-> a, events |-> {}]
    BY <1>1, <2>1 DEF Enqueued
  <2> QED
    BY <2>1, <2>2
<1>4. ASSUME NEW b \in Attachments, NEW w \in Work, BeginRepair(b, w), b # a
      PROVE  att'[a].gen = att[a].gen
  BY <1>1, <1>4 DEF BeginRepair
<1>5. \A x \in AttachmentRow :
         /\ Interrupted(x).gen = x.gen
         /\ \A s : /\ [x EXCEPT !.state = s].gen = x.gen
                   /\ [x EXCEPT !.source = s].gen = x.gen
  BY DEF AttachmentRow, Interrupted
<1>6. ASSUME NEW b \in Attachments,
             \/ OpenAttachment(b) \/ CompleteSource(b) \/ InterruptAttachment(b)
             \/ Detach(b) \/ HandoffExpires(b) \/ RouteFails(b)
             \/ \E kind \in Kinds : AppendEvents(b, kind)
             \/ \E w \in Work : Release(b, w)
      PROVE  att'[a].gen = att[a].gen
  <2>1. \E x : att' = [att EXCEPT ![b] = x] /\ x.gen = att[b].gen
    <3>1. CASE OpenAttachment(b) \/ Detach(b)
      <4>1. PICK s : att' = [att EXCEPT ![b] = [att[b] EXCEPT !.state = s]]
        BY <1>1, <3>1 DEF OpenAttachment, Detach
      <4>2. [att[b] EXCEPT !.state = s].gen = att[b].gen
        BY <1>1, <1>5
      <4> QED
        BY <4>1, <4>2
    <3>2. CASE CompleteSource(b) \/ \E kind \in Kinds : AppendEvents(b, kind)
      <4>1. PICK s : att' = [att EXCEPT ![b] = [att[b] EXCEPT !.source = s]]
        BY <1>1, <3>2 DEF CompleteSource, AppendEvents
      <4>2. [att[b] EXCEPT !.source = s].gen = att[b].gen
        BY <1>1, <1>5
      <4> QED
        BY <4>1, <4>2
    <3>3. CASE InterruptAttachment(b) \/ RouteFails(b)
      <4>1. att' = [att EXCEPT ![b] = Interrupted(att[b])]
        BY <1>1, <3>3 DEF InterruptAttachment, RouteFails
      <4> QED
        BY <1>1, <1>5, <4>1
    <3>4. CASE HandoffExpires(b) \/ \E w \in Work : Release(b, w)
      <4>1. \/ att' = [att EXCEPT ![b] = [att[b] EXCEPT !.late = TRUE]]
            \/ att' = [att EXCEPT ![b] = [att[b] EXCEPT !.handoff = "released"]]
        BY <1>1, <3>4 DEF HandoffExpires, Release
      <4>2. CASE att' = [att EXCEPT ![b] = [att[b] EXCEPT !.late = TRUE]]
        <5>1. [att[b] EXCEPT !.late = TRUE].gen = att[b].gen
          BY <1>1 DEF AttachmentRow
        <5> QED
          BY <4>2, <5>1
      <4>3. CASE att' = [att EXCEPT ![b] = [att[b] EXCEPT !.handoff = "released"]]
        <5>1. [att[b] EXCEPT !.handoff = "released"].gen = att[b].gen
          BY <1>1 DEF AttachmentRow
        <5> QED
          BY <4>3, <5>1
      <4> QED
        BY <4>1, <4>2, <4>3
    <3> QED
      BY <1>6, <3>1, <3>2, <3>3, <3>4
  <2> QED
    BY <1>1, <2>1
<1>7. ASSUME NEW w \in Work, Completed(w) PROVE att'[a].gen = att[a].gen
  <2>1. att' = att \/ att' = [att EXCEPT ![work[w].att] = Interrupted(@)]
    BY <1>7 DEF Completed, CompletedRun, CompletedUnreadable
  <2> QED
    BY <1>1, <1>5, <2>1
<1>8. CASE HostExit \/ Start
  <2>1. att' = InterruptAll
    BY <1>8 DEF HostExit, Start
  <2>2. att'[a] = Interrupted(att[a]) /\ att[a] \in AttachmentRow
    BY <1>1, <2>1 DEF InterruptAll
  <2>3. att'[a].gen = att[a].gen
    BY <1>5, <2>2
  <2> QED
    BY <1>2, <2>3
<1>9. CASE UNCHANGED att
  BY <1>2, <1>9
<1> QED
  BY <1>2, <1>3, <1>4, <1>6, <1>7, <1>8, <1>9, Changes DEF Attributed, AttachmentStep

\* A silent item without feedback gets none.
LEMMA SilentStays ==
  ASSUME RInv, [Next]_vars, NEW w \in Work, Silent(w), ~Claim(w)
  PROVE  Silent(w)' /\ (fb[w].state = "none" => fb'[w].state = "none")
<1>1. /\ TypeOK
      /\ run \in [Work -> RunRow] /\ fb \in [Work -> Feedback] /\ task \in [Work -> Task]
      /\ task[w].at = "idle"
  BY DEF RInv, TypeOK, Silent
<1>2. task'[w].at = "idle"
  BY <1>1, TasksStart
<1> DEFINE Mute(row) == row.status \in {"none", "interrupted"} \/ row.saved = "none"
<1>3. Mute(run[w])
  BY DEF Silent
<1>4. ASSUME NEW v \in Work, \/ BeginRun(v) \/ Park(v) \/ Unpark(v) \/ EndTask(v)
                             \/ Completed(v)
      PROVE  v # w /\ run'[w] = run[w]
  <2>1. v # w
    BY <1>1, <1>4 DEF BeginRun, Park, Unpark, EndTask, Completed
  <2>2. \E r : run' = [run EXCEPT ![v] = r]
    BY <1>1, <1>4, CompletedTables DEF BeginRun, Park, Unpark, EndTask
  <2> QED
    BY <1>1, <2>1, <2>2
<1>5. ASSUME NEW v \in Work, DeleteResultSource(v)
      PROVE  Mute(run'[w])
  BY <1>1, <1>3, <1>5 DEF DeleteResultSource, RunRow
<1>6. Mute(RecoveredRuns[w])
  BY <1>1, <1>3 DEF RecoveredRuns, RunRow
<1>7. Silent(w)'
  <2>1. Mute(run'[w])
    <3>1. CASE Start
      BY <1>6, <3>1 DEF Start
    <3>2. CASE UNCHANGED run
      BY <1>3, <3>2
    <3> HIDE DEF Mute
    <3> QED
      BY <1>3, <1>4, <1>5, <3>1, <3>2, Changes DEF Attributed, RunStep
  <2> QED
    BY <1>2, <2>1 DEF Silent
<1>8. ASSUME NEW W, NEW R, NEW F \in [Work -> Feedback], Mute(R[w])
      PROVE  SettledFeedback(W, R, F)[w] = F[w]
  BY <1>8 DEF SettledFeedback, ToSettle
<1>9. ASSUME fb[w].state = "none" PROVE fb'[w].state = "none"
  <2>1. ASSUME NEW a \in Attachments, DeliverFeedback(a) PROVE fb'[w] = fb[w]
    BY <1>1, <1>9, <2>1 DEF DeliverFeedback, PendingFeedback
  <2>2. ASSUME NEW v \in Work, \/ Steer(v) \/ \E outcome \in Outcomes : Acknowledge(v, outcome)
        PROVE  fb'[w] = fb[w]
    BY <1>1, <1>9, <2>2 DEF Steer, Acknowledge, Acknowledgeable
  <2>3. ASSUME NEW v \in Work, Outdate(v) PROVE fb'[w] = fb[w]
    BY <1>1, <1>9, <2>3 DEF Outdate
  <2>4. ASSUME NEW v \in Work, DeleteResultSource(v) PROVE fb'[w].state = "none"
    <3>1. fb' = [fb EXCEPT ![v] = [fb[v] EXCEPT
                   !.state = IF @ = "none" THEN @ ELSE "expired", !.current = FALSE]]
      BY <1>1, <2>4 DEF DeleteResultSource
    <3> QED
      BY <1>1, <1>9, <3>1 DEF Feedback
  <2>5. CASE TickSettle
    BY <1>1, <1>3, <1>8, <1>9, <2>5 DEF TickSettle
  <2>6. CASE Start
    <3>1. RecoveredFeedback \in [Work -> Feedback] /\ RecoveredFeedback[w] = fb[w]
      BY <1>1, <1>9, RecoveredTables DEF RecoveredFeedback
    <3> QED
      BY <1>6, <1>8, <1>9, <2>6, <3>1 DEF Start
  <2>7. ASSUME NEW v \in Work, Completed(v) PROVE fb'[w] = fb[w]
    <3> DEFINE R == [run EXCEPT ![v] = FinishedRun(@, task[v].disp)]
               F == PublishedWith(v, R)
    <3>1. v # w
      BY <1>4, <2>7
    <3>2. CASE CompletedUnreadable(v)
      BY <3>2 DEF CompletedUnreadable
    <3>3. CASE CompletedRun(v)
      <4>1. fb' = SettledFeedback(work, R, F)
        BY <3>3 DEF CompletedRun
      <4>2. R[w] = run[w] /\ F[w] = fb[w]
        BY <1>1, <3>1 DEF PublishedWith
      <4> HIDE DEF R, F
      <4>3. w \notin ToSettle(work, R, F)
        BY <1>3, <4>2 DEF ToSettle
      <4> QED
        BY <4>1, <4>2, <4>3 DEF SettledFeedback
    <3> QED
      BY <2>7, <3>2, <3>3 DEF Completed
  <2>8. CASE UNCHANGED fb
    BY <1>9, <2>8
  <2> QED
    BY <1>9, <2>1, <2>2, <2>3, <2>4, <2>5, <2>6, <2>7, <2>8, Changes
    DEF Attributed, FeedbackStep
<1> QED
  BY <1>7, <1>9

\* What a decided item can become.
LEMMA OverStays ==
  ASSUME RInv, [Next]_vars, NEW w \in Work, Over(work[w].status)
  PROVE  Over(work'[w].status) /\ SameItem(w) /\ ~Claim(w)
<1>1. work[w].status \notin {"none", "queued", "running", "interrupted"}
  BY DEF Over, Unsettled
<1>2. ~Created(w) /\ ~Claim(w)
  BY <1>1, Zenon DEF Created, BeginRepair, RouteBatch, Claim, Claimable
<1>3. SameItem(w)
  BY <1>2, ItemsStay
<1>4. ASSUME NEW a \in Attachments, Release(a, w) PROVE work'[w].status = work[w].status
  <2>1. work \in [Work -> WorkRow]
    BY DEF RInv, TypeOK
  <2> QED
    BY <1>1, <1>4, <2>1 DEF Release, Unsettled, WorkRow
<1> QED
  BY <1>1, <1>2, <1>3, <1>4, StatusMoves DEF StatusMove, GivenUp, SettledHere, Interrupts

LEMMA DecidedStep ==
  ASSUME QuietInv, [Next]_vars PROVE DecidedIsHeard'
<1> SUFFICES ASSUME NEW w \in Work, Over(work'[w].status), work'[w].events # {}
             PROVE  fb'[w].state # "none" \/ Silent(w)'
  BY DEF DecidedIsHeard
<1>1. RInv /\ TypeOK
  BY DEF QuietInv, RInv
<1>2. fb[w].state # "none" => fb'[w].state # "none"
  BY <1>1, FeedbackForward DEF Forward
<1>3. ~Claim(w)
  BY <1>1, ClaimRuns DEF Over, Unsettled
<1>4. ~Created(w)
  <2>1. SUFFICES ASSUME Created(w) PROVE FALSE
    OBVIOUS
  <2>2. PICK a \in Attachments, E \in SUBSET (1..MaxEvents) : work' = Enqueued(work, w, a, E)
    BY <2>1 DEF Created
  <2>3. work'[w].status = "queued"
    BY <1>1, <2>2 DEF Enqueued, TypeOK
  <2> QED
    BY <2>3 DEF Over, Unsettled
<1>5. SameItem(w)
  BY <1>1, <1>4, ItemsStay
<1>6. ASSUME fb[w].state # "none" \/ Silent(w)
      PROVE  fb'[w].state # "none" \/ Silent(w)'
  BY <1>1, <1>2, <1>3, <1>6, SilentStays
<1>7. CASE Over(work[w].status)
  BY <1>5, <1>6, <1>7 DEF QuietInv, DecidedIsHeard, SameItem
<1>8. CASE GivenUp(w)
  <2>1. /\ task[w].at = "idle" /\ loop.at \notin {"down", "closing"}
        /\ run[w].status \notin {"running", "waiting"}
    BY <1>8 DEF GivenUp, QuietInv, TasksOwned
  <2>2. \/ run[w].status \in {"none", "interrupted"}
        \/ run[w].status \in Dispositions \ {"interrupted"}
    BY <1>1, <2>1 DEF TypeOK, RunRow
  <2>3. fb[w].state # "none" \/ Silent(w)
    BY <2>1, <2>2 DEF QuietInv, SavedResultsArePublished, Silent
  <2> QED
    BY <1>6, <2>3
<1>9. CASE SettledHere(w)
  BY <1>9 DEF SettledHere
<1>10. ASSUME NEW a \in Attachments, Release(a, w) PROVE FALSE
  <2>1. w = att[a].gen /\ w # None
    BY <1>10, AttachmentsAssumption DEF Release
  <2>2. work[w].events = {}
    BY <2>1 DEF QuietInv, RepairsApart
  <2> QED
    BY <1>5, <2>2 DEF SameItem
<1>11. ~Interrupts(w)
  BY DEF Interrupts, Over, Unsettled
<1>12. work'[w].status = work[w].status => Over(work[w].status)
  OBVIOUS
<1> QED
  BY <1>1, <1>3, <1>4, <1>7, <1>8, <1>9, <1>10, <1>11, <1>12, StatusMoves DEF StatusMove

\* An attachment becomes completed when it is finished, and stays so.
LEMMA CompletedAttachments ==
  ASSUME TypeOK, [Next]_vars, NEW a \in Attachments, att'[a].state = "completed"
  PROVE  att[a].state = "completed" \/ (Detach(a) /\ Finished(a))
<1>1. att \in [Attachments -> AttachmentRow]
  BY DEF TypeOK
<1>2. \A x \in AttachmentRow : Interrupted(x).state = "completed" => x.state = "completed"
  BY DEF AttachmentRow, Interrupted
<1>3. ASSUME NEW b \in Attachments,
             \/ OpenAttachment(b) \/ CompleteSource(b) \/ HandoffExpires(b)
             \/ \E kind \in Kinds : AppendEvents(b, kind)
             \/ \E w \in Work : BeginRepair(b, w) \/ Release(b, w)
      PROVE  att[a].state = "completed"
  <2>1. \E x : att' = [att EXCEPT ![b] = x] /\ x.state \in {att[b].state, "active"}
    <3>1. CASE OpenAttachment(b)
      <4>1. att' = [att EXCEPT ![b] = [att[b] EXCEPT !.state = "active"]]
        BY <1>1, <3>1 DEF OpenAttachment
      <4>2. [att[b] EXCEPT !.state = "active"].state = "active"
        BY <1>1 DEF AttachmentRow
      <4> QED
        BY <4>1, <4>2
    <3>2. CASE CompleteSource(b) \/ \E kind \in Kinds : AppendEvents(b, kind)
      <4>1. \E s : att' = [att EXCEPT ![b] = [att[b] EXCEPT !.source = s]]
        BY <1>1, <3>2 DEF CompleteSource, AppendEvents
      <4>2. \A s : [att[b] EXCEPT !.source = s].state = att[b].state
        BY <1>1 DEF AttachmentRow
      <4> QED
        BY <4>1, <4>2
    <3>3. CASE HandoffExpires(b)
      <4>1. att' = [att EXCEPT ![b] = [att[b] EXCEPT !.late = TRUE]]
        BY <1>1, <3>3 DEF HandoffExpires
      <4>2. [att[b] EXCEPT !.late = TRUE].state = att[b].state
        BY <1>1 DEF AttachmentRow
      <4> QED
        BY <4>1, <4>2
    <3>4. ASSUME NEW w \in Work, BeginRepair(b, w)
          PROVE  \E x : att' = [att EXCEPT ![b] = x] /\ x.state = att[b].state
      <4>1. att' = [att EXCEPT ![b] = [att[b] EXCEPT !.handoff = "held", !.gen = w,
                                                     !.late = FALSE]]
        BY <1>1, <3>4 DEF BeginRepair
      <4>2. [att[b] EXCEPT !.handoff = "held", !.gen = w, !.late = FALSE].state = att[b].state
        BY <1>1 DEF AttachmentRow
      <4> QED
        BY <4>1, <4>2
    <3>5. ASSUME NEW w \in Work, Release(b, w)
          PROVE  \E x : att' = [att EXCEPT ![b] = x] /\ x.state = att[b].state
      <4>1. att' = [att EXCEPT ![b] = [att[b] EXCEPT !.handoff = "released"]]
        BY <1>1, <3>5 DEF Release
      <4>2. [att[b] EXCEPT !.handoff = "released"].state = att[b].state
        BY <1>1 DEF AttachmentRow
      <4> QED
        BY <4>1, <4>2
    <3> QED
      BY <1>3, <3>1, <3>2, <3>3, <3>4, <3>5
  <2> QED
    BY <1>1, <2>1
<1>4. ASSUME NEW b \in Attachments, InterruptAttachment(b) \/ RouteFails(b)
      PROVE  att[a].state = "completed"
  <2>1. att' = [att EXCEPT ![b] = Interrupted(att[b])]
    BY <1>1, <1>4 DEF InterruptAttachment, RouteFails
  <2> QED
    BY <1>1, <1>2, <2>1
<1>5. ASSUME NEW b \in Attachments, Detach(b)
      PROVE  att[a].state = "completed" \/ (b = a /\ Finished(a))
  <2>1. att' = [att EXCEPT ![b] = [att[b] EXCEPT
                              !.state = IF Finished(b) THEN "completed" ELSE "detached"]]
    BY <1>1, <1>5 DEF Detach
  <2>2. CASE b = a
    <3>1. att'[a] = [att[a] EXCEPT !.state = IF Finished(a) THEN "completed" ELSE "detached"]
      BY <1>1, <2>1, <2>2
    <3> QED
      BY <1>1, <2>2, <3>1 DEF AttachmentRow
  <2>3. CASE b # a
    BY <1>1, <2>1, <2>3
  <2> QED
    BY <2>2, <2>3
<1>6. ASSUME NEW w \in Work, Completed(w) PROVE att[a].state = "completed"
  <2>1. att' = att \/ att' = [att EXCEPT ![work[w].att] = Interrupted(@)]
    BY <1>6 DEF Completed, CompletedRun, CompletedUnreadable
  <2> QED
    BY <1>1, <1>2, <2>1
<1>7. CASE HostExit \/ Start
  <2>1. att' = InterruptAll
    BY <1>7 DEF HostExit, Start
  <2> QED
    BY <1>1, <1>2, <2>1 DEF InterruptAll
<1>8. CASE UNCHANGED att
  BY <1>8
<1> QED
  BY <1>3, <1>4, <1>5, <1>6, <1>7, <1>8, Changes DEF Attributed, AttachmentStep

LEMMA QuietStep ==
  ASSUME QuietInv, CompletedIsQuiet, [Next]_vars PROVE CompletedIsQuiet'
<1> DEFINE Loud(w) == work[w].status \in {"queued", "interrupted", "running"}
                      \/ fb[w].state \in {"pending", "delivered"}
<1> SUFFICES ASSUME NEW a \in Attachments, att'[a].state = "completed",
                    NEW w \in Work, work'[w].att = a, work'[w].events # {}, Loud(w)'
             PROVE  FALSE
  BY DEF CompletedIsQuiet, QueuedWork, RunningWork, PendingFeedback, WorkOf
<1>1. RInv /\ TypeOK
  BY DEF QuietInv, RInv
<1>2. CASE Detach(a) /\ Finished(a)
  <2>1. QueuedWork(a) = {} /\ RunningWork(a) = {} /\ PendingFeedback(a) = {}
    BY <1>2 DEF Finished
  <2>2. work'[w] = work[w] /\ fb' = fb
    BY <1>2, <2>1 DEF Detach
  <2> QED
    BY <2>1, <2>2 DEF QueuedWork, RunningWork, PendingFeedback, WorkOf
<1>3. CASE att[a].state = "completed"
  <2>1. ~Created(w)
    <3>1. SUFFICES ASSUME Created(w) PROVE FALSE
      OBVIOUS
    <3>2. PICK b \in Attachments, E \in SUBSET (1..MaxEvents) :
             /\ (BeginRepair(b, w) /\ E = {}) \/ (RouteBatch(b, w) /\ E = Batch(b))
             /\ work' = Enqueued(work, w, b, E)
      BY <3>1 DEF Created
    <3>3. work'[w].att = b
      BY <1>1, <3>2 DEF Enqueued, TypeOK
    <3>4. att[b].state = "active"
      BY <3>2 DEF BeginRepair, RouteBatch, ActiveAttachment
    <3> QED
      BY <1>3, <3>3, <3>4
  <2>2. SameItem(w)
    BY <1>1, <2>1, ItemsStay
  <2>3. work[w].att = a /\ work[w].events # {} /\ ~Loud(w)
    BY <1>3, <2>2 DEF SameItem, CompletedIsQuiet, QueuedWork, RunningWork, PendingFeedback,
                      WorkOf
  <2>4. work[w].status # "none"
    BY <1>1, <2>3 DEF RInv, RowsExist
  <2>5. Over(work[w].status)
    BY <2>3, <2>4 DEF Over, Unsettled
  <2>6. Over(work'[w].status) /\ ~Claim(w)
    BY <1>1, <2>5, OverStays
  <2>7. fb'[w].state \in {"pending", "delivered"}
    BY <2>6 DEF Over, Unsettled
  <2>8. fb[w].state = "none"
    <3>1. fb[w].state \in Decided \cup {"unknown", "none"}
      BY <1>1, <2>3 DEF TypeOK, Feedback, Decided
    <3> QED
      BY <1>1, <2>7, <3>1, FeedbackForward DEF Forward, Decided
  <2>9. Silent(w)
    BY <2>3, <2>5, <2>8 DEF QuietInv, DecidedIsHeard
  <2> QED
    BY <1>1, <2>6, <2>7, <2>8, <2>9, SilentStays
<1> QED
  BY <1>1, <1>2, <1>3, CompletedAttachments

\* An attachment recorded as completed stays quiet, whatever was recorded
\* between its statements and however its host ended: nothing that carries a
\* batch of events is queued, run or delivered for it any more.
THEOREM CompletedStaysQuiet == Spec => []CompletedIsQuiet
<1> DEFINE I == TasksOwned /\ RepairsApart /\ DecidedIsHeard /\ CompletedIsQuiet
<1>1. Init => I
  BY DEF Init, NoTask, At, TasksOwned, RepairsApart, DecidedIsHeard, CompletedIsQuiet,
         Over
<1>2. RInv /\ SavedResultsArePublished /\ I /\ [Next]_vars => I'
  BY OwnersStep, RepairsStep, DecidedStep, QuietStep DEF QuietInv
<1>3. I => CompletedIsQuiet
  OBVIOUS
<1> QED
  BY <1>1, <1>2, <1>3, RowInvariance, ResultsPublished, PTL DEF Spec
=============================================================================
