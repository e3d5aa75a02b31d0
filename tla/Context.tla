------------------------------- MODULE Context -------------------------------
(***************************************************************************)
(* A run's session with its provider, on top of Retention: segments of     *)
(* messages saved one by one, an authorization before every call of the    *)
(* provider, and summaries that take the place of older messages           *)
(* (context.rs, compaction.rs and the worker's context.ts, compaction.ts,  *)
(* agent.ts).                                                              *)
(*                                                                         *)
(* The worker keeps its messages in memory and sends them from there until *)
(* a summary exists; the tables keep the same messages with their sources. *)
(* The owner, other savers and the cleanup of Retention interleave between *)
(* any two calls of the worker; its session may end at any of them and be  *)
(* opened again.                                                           *)
(***************************************************************************)
EXTENDS Retention

CONSTANTS
    Window,  \* how many of the newest messages fit the provider's window
    MaxRuns  \* bound on runs, one after the other

ASSUME ContextAssumption == Window \in Nat /\ MaxRuns \in Nat \ {0}

VARIABLES
    ctx,    \* context_sources of the run's newest segment
    mind,   \* ghost: records whose content is in that segment
    runs,   \* runs begun
    asked,  \* work that a run requested: its source event and, ghost, its text
    work,   \* the work that the run executes
    seg,    \* context_items of the newest segment, in order
    heads,  \* its context_summaries that were committed, in order
    plan,   \* the compaction the worker is engaged in
    worker, \* what the worker does
    memory, \* its messages: positions in the segment, and ghost contents
    sent    \* what the provider is given, and what was withdrawn when it was chosen

session == <<ctx, mind, runs, asked, work, seg, heads, plan, worker, memory, sent>>
cvars == <<vars, session>>

Nothing == [holds |-> {}, items |-> {}]
NothingSent == [holds |-> {}, before |-> {}, whole |-> TRUE]
NoWork == [source |-> None, holds |-> {}]
NoPlan == [phase |-> "none"]
NoHead == [id |-> None, through |-> 0, items |-> {}]

\* summary_head: the newest summary that was not redacted.
Committed == {i \in DOMAIN heads : copy[heads[i].id] = "live"}
SummaryHead == IF Committed = {} THEN NoHead ELSE heads[Max(Committed)]
Summary == {SummaryHead.id} \ {None}

\* context_tail: the messages up to it no longer fit the window, and the ones after
\* it begin with an answer.
TailAfter ==
    LET answers == {k \in DOMAIN seg : seg[k].answer}
        full == {s \in DOMAIN seg : Len(seg) - s >= Window /\ \E k \in answers : s < k}
    IN  IF full = {} THEN 0 ELSE Min({k \in answers : Max(full) < k}) - 1

SessionTypeOK ==
    /\ TypeOK
    /\ ctx \in SUBSET Node /\ mind \in SUBSET Records
    /\ runs \in 0..MaxRuns
    /\ {asked, work} \subseteq [source : Events \cup {None}, holds : SUBSET Records]
    /\ seg \in Seq([id : Activities, answer : BOOLEAN])
    /\ heads \in Seq([id : Activities, through : Nat, items : SUBSET Nat])
    /\ \/ plan = NoPlan
       \/ plan \in [phase : {"prepared", "read"}, after : Nat, through : Nat,
                    prev : Activities \cup {None}, holds : SUBSET Records, items : SUBSET Nat]
    /\ worker \in {"closed", "acting", "authorized", "answered"}
    /\ memory \in [holds : SUBSET Records, items : SUBSET (DOMAIN seg)]
    /\ SummaryHead.through <= Len(seg)
    /\ sent \in [holds : SUBSET Records, before : SUBSET Records, whole : BOOLEAN]

SessionInit ==
    /\ Init
    /\ ctx = {} /\ mind = {} /\ runs = 1
    /\ asked = NoWork /\ work = NoWork
    /\ seg = <<>> /\ heads = <<>> /\ plan = NoPlan
    /\ worker = "closed" /\ memory = Nothing
    /\ sent = NothingSent

-----------------------------------------------------------------------------
Contents(ids) == UNION {holds[e] : e \in ids}
Positions(i, j) == {k \in DOMAIN seg : i < k /\ k <= j}
Messages(i, j) == {seg[k].id : k \in Positions(i, j)}

\* work_source, of which require_active asks in every call of the run: the task was
\* not withdrawn.
Task == {work.source} \ {None}
Active == Available(Task)

\* Mutant: the sources are looked up, not what they were derived from.
EligibleDirectly == \A n \in ctx : body[n] # "none" /\ tomb[n] = "none"

\* context_available: the newest segment may be used.
Eligible == Available(ctx)

\* read_context and read_summary: messages of that segment, none redacted.
Readable(ids) == Eligible /\ \A e \in ids : copy[e] = "live"

\* DurableContext.open on a segment that authorization keeps: the worker reads the
\* messages that fit the window.
OpenSession ==
    /\ worker = "closed"
    /\ RunIdle
    /\ Readable(Messages(TailAfter, Len(seg)))
    /\ worker' = "authorized"
    /\ memory' = [holds |-> Contents(Messages(TailAfter, Len(seg))), items |-> Positions(TailAfter, Len(seg))]
    /\ UNCHANGED <<vars, ctx, mind, runs, asked, work, seg, heads, plan, sent>>

\* authorize_context before a call of the provider: a kept segment leaves the
\* worker its messages.
KeepSegment ==
    /\ worker = "acting"
    /\ RunIdle
    /\ Eligible
    /\ worker' = "authorized"
    /\ UNCHANGED <<vars, ctx, mind, runs, asked, work, seg, heads, plan, memory, sent>>

\* A segment starts with the task of the work w, whose source it cites.
StartSegment(w) ==
    /\ ctx' = {w.source} \ {None} /\ mind' = w.holds
    /\ seg' = <<>> /\ heads' = <<>>

\* authorize_context, also after a refused compaction: a segment with a source that
\* is no longer available is replaced by one with the owner's prompt only, which
\* the worker reads in the place of its messages.
NewSegment ==
    /\ worker \in {"closed", "acting", "authorized"}
    /\ RunIdle
    /\ Active /\ ~Eligible
    /\ StartSegment(work) /\ plan' = NoPlan
    /\ worker' = IF worker = "closed" THEN "closed" ELSE "authorized"
    /\ memory' = Nothing /\ sent' = NothingSent
    /\ UNCHANGED <<vars, runs, asked, work>>

\* The run is parked, interrupted or cancelled, its host restarts or its worker is
\* lost: whatever the worker held in memory is gone.
CloseSession ==
    /\ worker # "closed"
    /\ worker' = "closed"
    /\ memory' = Nothing /\ plan' = NoPlan /\ sent' = NothingSent
    /\ call' = NoCall
    /\ UNCHANGED <<tables, draft, exporter, holds, faults, ctx, mind, runs, asked, work, seg,
                   heads>>

\* begin_run: the next run executes the work that was requested, or a request of the
\* owner, with a context of its own.  The source of its task is in every segment.
NextRun ==
    /\ worker = "closed" /\ RunIdle
    /\ runs < MaxRuns
    /\ seg # <<>>
    /\ runs' = runs + 1
    /\ work' = asked /\ asked' = NoWork
    /\ StartSegment(asked)
    /\ UNCHANGED <<vars, plan, worker, memory, sent>>

-----------------------------------------------------------------------------
\* Compaction, which the worker repeats until nothing is left to prepare.

\* prepare_compaction: the messages after the last summary, up to the tail or as
\* many as one summary takes.
PrepareCompaction(through) ==
    /\ worker = "authorized" /\ plan = NoPlan
    /\ Readable(Messages(SummaryHead.through, through))
    /\ SummaryHead.through < through /\ through <= TailAfter
    /\ plan' = [phase |-> "prepared", after |-> SummaryHead.through, through |-> through,
                prev |-> SummaryHead.id, holds |-> {}, items |-> {}]
    /\ UNCHANGED <<vars, ctx, mind, runs, asked, work, seg, heads, worker, memory, sent>>

\* read_compaction: the summarizing call of the provider is given the messages and
\* the summary before them.
ReadCompaction ==
    /\ worker = "authorized" /\ plan.phase = "prepared"
    /\ LET previous == {heads[i] : i \in {j \in Committed : heads[j].id = plan.prev}}
           ids == Messages(plan.after, plan.through) \cup {h.id : h \in previous}
       IN  /\ plan.prev # None => previous # {} /\ Available({plan.prev})
           /\ Readable(ids)
           /\ plan' = [plan EXCEPT !.phase = "read", !.holds = Contents(ids) \cup work.holds,
                          !.items = Positions(plan.after, plan.through)
                                        \cup UNION {h.items : h \in previous}]
           /\ sent' = [holds |-> Contents(ids) \cup work.holds, before |-> Withdrawn, whole |-> TRUE]
    /\ UNCHANGED <<vars, ctx, mind, runs, asked, work, seg, heads, worker, memory>>

\* commit_compaction: the summary is an event that cites the sources of all the
\* messages it stands for and the summary before it.
CommitCompaction ==
    /\ worker = "authorized" /\ plan.phase = "read"
    /\ Eligible /\ (plan.prev # None => Available({plan.prev}))
    /\ SummaryHead.id = plan.prev
    /\ Unused(Activities) # {}
    /\ LET s == Fresh(Activities)
           sources == from[seg[plan.through].id]
       IN  /\ heads' = Append(heads, [id |-> s, through |-> plan.through, items |-> plan.items])
           /\ body' = [body EXCEPT ![s] = "live"]
           /\ copy' = [copy EXCEPT ![s] = "live"]
           /\ from' = [from EXCEPT ![s] = sources]
           /\ holds' = [holds EXCEPT ![s] = plan.holds]
           /\ Cite(s, sources \cup ({plan.prev} \ {None}))
    /\ plan' = NoPlan /\ sent' = NothingSent
    /\ UNCHANGED <<rev, tomb, queue, ready, call, draft, exporter, faults,
                   ctx, mind, runs, asked, work, seg, worker, memory>>

-----------------------------------------------------------------------------
\* The provider and the tools.

\* Mutant: whatever compaction achieved is taken to be enough.
WindowHoldsAnyway == TRUE

\* Nothing is left to prepare: what the last summary does not cover fits the window.
WindowHolds == TailAfter <= SummaryHead.through

\* The call of the provider after the last authorization (providerMessages): with the
\* messages in memory, or the last summary and the messages after it, read again.
CallProvider ==
    /\ worker = "authorized" /\ plan = NoPlan
    /\ WindowHolds
    /\ Eligible
    /\ LET tail == Messages(SummaryHead.through, Len(seg))
       IN  IF Summary = {}
           THEN sent' = [holds |-> memory.holds \cup work.holds, before |-> Withdrawn,
                         whole |-> memory.items = DOMAIN seg]
           ELSE /\ Readable(tail \cup Summary) /\ Available(Summary)
                /\ sent' = [holds |-> Contents(tail \cup Summary) \cup work.holds,
                            before |-> Withdrawn,
                            whole |-> SummaryHead.items \cup
                                        Positions(SummaryHead.through, Len(seg)) = DOMAIN seg]
    /\ worker' = "answered"
    /\ UNCHANGED <<vars, ctx, mind, runs, asked, work, seg, heads, plan, memory>>

\* append_context: a message with content `known` and the sources `refs` of its own
\* joins the segment; an activity event cites all sources of the segment so far and
\* the summary it continues from.
SaveMessage(refs, known) ==
    /\ Unused(Activities) # {}
    /\ LET e == Fresh(Activities)
       IN  /\ ctx' = ctx \cup refs
           /\ mind' = mind \cup known
           /\ from' = [from EXCEPT ![e] = ctx \cup refs]
           /\ copy' = [copy EXCEPT ![e] = "live"]
           /\ body' = [body EXCEPT ![e] = "live"]
           /\ holds' = [holds EXCEPT ![e] = known]
           /\ Cite(e, ctx \cup refs \cup Summary)
           /\ seg' = Append(seg, [id |-> e, answer |-> call = NoCall])
    /\ memory' = [holds |-> memory.holds \cup known, items |-> memory.items \cup {Len(seg) + 1}]
    /\ worker' = "acting"
    /\ UNCHANGED <<rev, tomb, queue, ready, draft, exporter, faults, runs, asked, work,
                   heads, plan>>

\* The answer is saved before any tool it calls.
SaveAnswer ==
    /\ worker = "answered"
    /\ SaveMessage({}, sent.holds)
    /\ sent' = NothingSent
    /\ UNCHANGED call

\* The tool's result with the sources that the host reported, also those that were
\* withdrawn since.
SaveToolResult ==
    /\ worker = "acting" /\ call.phase = "retained"
    /\ SaveMessage({call.node, call.result}, call.holds)
    /\ call' = NoCall
    /\ UNCHANGED sent

\* Mutant: only the references of the author count.
RunSourcesClaimed == {}

\* run_context_sources, which everything the run derives cites.
RunSources == ctx \cup Summary

\* A tool call of the worker begins.
Calling == worker = "acting" /\ RunIdle /\ Active

Read(n) == Calling /\ ReadNode(n) /\ UNCHANGED session
Observe == (RetainResult(RunSources) \/ ReadConflict) /\ UNCHANGED session

\* record.submit: inherit_context_sources, then the checks of Retention.
RunSubmits(r) ==
    /\ Calling
    /\ ctx # {}
    /\ CheckSubmission(r, RunSources, mind)
    /\ UNCHANGED session

\* An event that cites the context of its author, whatever became of that context.
Publish(known) ==
    /\ ctx # {}
    /\ Unused(Events) # {}
    /\ LET e == Fresh(Events)
       IN  /\ body' = [body EXCEPT ![e] = "live"]
           /\ holds' = [holds EXCEPT ![e] = known]
           /\ Cite(e, RunSources)
    /\ UNCHANGED <<rev, copy, from, tomb, queue, ready, call, draft, exporter, faults>>

\* send_message, and finish_run for the saved result: the event stands for the text
\* that is removed with it.
SendMessage == Calling /\ Publish(mind) /\ UNCHANGED session

\* enqueue_work_in: the event has no text of the task, which is kept with the work.
RequestWork ==
    /\ Calling /\ Publish({})
    /\ asked' = [source |-> Fresh(Events), holds |-> mind]
    /\ UNCHANGED <<ctx, mind, runs, work, seg, heads, plan, worker, memory, sent>>

\* The owner, saves under way and the cleanup do not wait for the session.
Others ==
    /\ \/ \E r \in Records : OwnerSubmits(r) \/ Retire(r, TRUE) \/ Retire(r, FALSE)
       \/ SaveRecord \/ SaveConflict
       \/ \E r \in Roots : AdvanceCleanup(r)
    /\ UNCHANGED session

SessionNext ==
    \/ OpenSession \/ KeepSegment \/ NewSegment \/ CloseSession \/ NextRun
    \/ \E t \in 1..Len(seg) : PrepareCompaction(t)
    \/ ReadCompaction \/ CommitCompaction
    \/ CallProvider \/ SaveAnswer \/ SaveToolResult
    \/ \E n \in Node : Read(n)
    \/ Observe
    \/ \E r \in Records : RunSubmits(r)
    \/ SendMessage \/ RequestWork \/ Others

SessionSpec == SessionInit /\ [][SessionNext]_cvars

-----------------------------------------------------------------------------
\* Whatever the provider is given was available when the worker was last authorized
\* or read the compaction: of what it holds in memory or of what summaries carry,
\* nothing had been withdrawn by then.
ProviderContentWasAvailable == sent.holds \cap sent.before = {}

\* The provider is never given a conversation with a hole: every message of the
\* segment is in the view or in the summary it starts with, also when the session
\* was reopened with only the messages that fit the window.
ViewIsWhole == sent.whole
=============================================================================
