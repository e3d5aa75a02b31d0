------------------------------ MODULE Retention ------------------------------
(***************************************************************************)
(* Source lineage, withdrawal and cleanup: what agents derive from records *)
(* (retained tool results, events, further records, training exports), the *)
(* edges that say so, and the jobs that follow those edges to remove what  *)
(* was deleted (sources.rs, source_cleanup.rs, records.rs, exports.rs,     *)
(* export_files.rs, tool_results.rs, communication.rs, evidence.rs).       *)
(*                                                                         *)
(* One action is one write transaction, one external step, or one read     *)
(* whose result is used in a later transaction.  The owner, a run, the     *)
(* exporter, the cleanup and the recovery of a second runtime interleave   *)
(* between them.  Tables and files survive Crash; what a caller remembers  *)
(* (call, draft, exporter) does not.                                       *)
(*                                                                         *)
(* holds is a ghost: the records whose content a node was written from.    *)
(* The code never sees it; it has the edges.  Material is of one scope and *)
(* of the development split, where the code may delete it.                 *)
(***************************************************************************)
EXTENDS Naturals, FiniteSets, Sequences, SequencesExt

CONSTANTS
    Records,      \* ids of records, which alone can be revised
    Results,      \* ids of retained tool results (artifact snapshots)
    Events,       \* ids of messages, run results and other immutable events
    Activities,   \* ids of events with a copy in the context: messages and summaries
    Exports,      \* ids of training exports (artifact snapshots with a file)
    None,         \* no node
    Given,        \* for a record saved before, what it was written from; else {}
    Withdrawable, \* records whose owner may retire or delete them
    MaxRevisions, \* bound on the contents saved under each record id
    MaxFaults,    \* bound on crashes, failed cleanup steps and failed writes
    Batch         \* children one cleanup transaction may list (100 in the code)

Node == Records \cup Results \cup Events \cup Activities \cup Exports
Roots == Records \cup Exports

ASSUME RetentionAssumption ==
    /\ IsFiniteSet(Node)
    /\ None \notin Node
    /\ Records \cap (Results \cup Events \cup Activities \cup Exports) = {}
    /\ Results \cap (Events \cup Activities \cup Exports) = {}
    /\ Events \cap (Activities \cup Exports) = {}
    /\ Activities \cap Exports = {}
    /\ Given \in [Records -> SUBSET Records]
    /\ \A r \in Records : \A s \in Given[r] :
          r \in Given[r] /\ s \in Given[s] /\ Given[s] \subseteq Given[r]
    /\ Withdrawable \subseteq Records
    /\ MaxRevisions \in [Records -> Nat \ {0}] /\ MaxFaults \in Nat
    /\ Batch \in Nat \ {0}

VARIABLES
    rev,      \* records: the version, 0 while the record does not exist
    body,     \* what is retained of each node
    copy,     \* context_items, context_summaries: the text an activity is about
    from,     \* context_sources up to the position of that text
    edges,    \* source_edges: <<subject, source>>
    tomb,     \* source_tombstones
    job,      \* source_cleanup: one job per withdrawn root
    item,     \* source_cleanup_items of each job
    queue,    \* their order
    ready,    \* exports: artifact_snapshots.available
    call,     \* a tool call between its read and the answer to its caller
    draft,    \* a record save between its checks and its transaction
    exporter, \* the export between its manifest and its publication
    holds,    \* ghost: records whose content each node was written from
    faults    \* crashes and failures so far

tables == <<rev, body, copy, from, edges, tomb, job, item, queue, ready>>
vars == <<tables, call, draft, exporter, holds, faults>>

-----------------------------------------------------------------------------
NoCall == [phase |-> "none"]
NoDraft == [rec |-> None]
NoJob == [status |-> "none", delete |-> FALSE]
JobRow == [status : {"none", "pending", "failed", "complete"}, delete : BOOLEAN]
Bodies == {"none", "manifest", "partial", "live", "gone"}

TypeOK ==
    \* Beyond its contents a record has one version for its retirement and one for its
    \* deletion, however often either is asked for or cleaned.
    /\ rev \in [Records -> Nat] /\ \A r \in Records : rev[r] <= MaxRevisions[r] + 2
    /\ body \in [Node -> Bodies]
    /\ copy \in [Activities -> {"none", "live", "gone"}]
    /\ from \in [Activities -> SUBSET Node]
    /\ edges \in SUBSET (Node \X Node)
    /\ tomb \in [Node -> {"none", "retired", "deleted"}]
    /\ job \in [Roots -> JobRow]
    /\ item \in [Roots -> [Node -> {"none", "todo", "paid", "done"}]]
    /\ queue \in [Roots -> Seq(Node)]
    /\ ready \in [Exports -> BOOLEAN]
    /\ \/ call = NoCall
       \/ call \in [phase : {"read"}, node : Node, version : Nat,
                    holds : SUBSET Records]
       \/ call \in [phase : {"retained"}, node : Node, result : Results,
                    holds : SUBSET Records]
    /\ draft = NoDraft \/ draft \in [rec : Records, refs : SUBSET Node,
                                     expected : Nat, holds : SUBSET Records]
    /\ exporter \in Exports \cup {None}
    /\ holds \in [Node -> SUBSET Records]
    /\ faults \in 0..MaxFaults

Init ==
    /\ rev = [r \in Records |-> IF Given[r] # {} THEN 1 ELSE 0]
    /\ body = [n \in Node |-> IF n \in Records /\ Given[n] # {} THEN "live" ELSE "none"]
    /\ copy = [e \in Activities |-> "none"]
    /\ from = [e \in Activities |-> {}]
    /\ edges = {e \in Records \X Records : e[1] # e[2] /\ e[2] \in Given[e[1]]}
    /\ tomb = [n \in Node |-> "none"]
    /\ job = [r \in Roots |-> NoJob]
    /\ item = [r \in Roots |-> [n \in Node |-> "none"]]
    /\ queue = [r \in Roots |-> <<>>]
    /\ ready = [x \in Exports |-> FALSE]
    /\ call = NoCall /\ draft = NoDraft /\ exporter = None
    /\ holds = [n \in Node |-> IF n \in Records THEN Given[n] ELSE {}]
    /\ faults = 0

-----------------------------------------------------------------------------
\* The lineage graph.

Parents(n) == {p \in Node : <<n, p>> \in edges}
Children(n) == {c \in Node : <<c, n>> \in edges}
Image(S, R) == {e[2] : e \in {d \in R : d[1] \in S}}

\* S and whatever the pairs of R lead to from it.
Reach(S, R) ==
    LET step[i \in Nat] ==
            IF i = 0 THEN S ELSE LET T == step[i - 1] IN T \cup Image(T, R)
    IN  step[Cardinality(Node)]

\* S and everything it was derived from, as the edges tell.
Lineage(S) == Reach(S, edges)

\* require_sources: nothing in the lineage is withdrawn, absent or unpublished.
Available(S) ==
    \A n \in Lineage(S) : /\ body[n] # "none" /\ tomb[n] = "none"
                          /\ n \in Exports => ready[n]

\* Mutant: only what is named is cited.
CapturedAsNamed(refs) == refs

\* capture_mutable_ancestry: the references and, through records that are not
\* withdrawn, what those records cite now.
Mutable == {e \in edges : e[1] \in Records /\ tomb[e[1]] = "none"}
Captured(refs) == Reach(refs, Mutable)

\* Mutant: a job that already passed a source does not learn of the derivation.
CiteKeepingJobs(n, refs) ==
    /\ edges' = {e \in edges : e[1] # n} \cup {<<n, s>> : s \in Captured(refs)}
    /\ UNCHANGED <<item, job>>

\* source_edges: replace the edges of n, and send every cleanup job that already
\* visited one of its sources back to that source.
Cite(n, refs) ==
    LET sources == Captured(refs)
    IN  /\ edges' = {e \in edges : e[1] # n} \cup {<<n, s>> : s \in sources}
        /\ item' = [r \in Roots |-> [m \in Node |->
                       IF m \in sources /\ item[r][m] # "none" THEN "todo" ELSE item[r][m]]]
        /\ job' = [r \in Roots |->
                      IF \E s \in sources : item[r][s] # "none"
                      THEN [job[r] EXCEPT !.status = "pending"] ELSE job[r]]

\* Ids are fresh UUIDs: which unused one is taken makes no difference.
Unused(ids) == {i \in ids : body[i] = "none"}
Fresh(ids) == CHOOSE i \in Unused(ids) : TRUE

-----------------------------------------------------------------------------
\* Records.

\* submit_for_run, its checks: the references are available and so is the record
\* to be revised.  A run's submission cites its whole context, whose content its
\* author knows (module Context); the owner's is the owner's own.
CheckSubmission(r, refs, known) ==
    /\ draft = NoDraft
    /\ rev[r] < MaxRevisions[r]
    /\ Available(refs)
    /\ rev[r] # 0 => Available({r})
    /\ draft' = [rec |-> r, refs |-> refs, expected |-> rev[r], holds |-> known \cup {r}]
    /\ UNCHANGED <<tables, call, exporter, holds, faults>>

OwnerSubmits(r) == CheckSubmission(r, {}, {})
\* Mutant: the version is not compared.
VersionIgnored == TRUE

\* The update finds the version that the submission was checked against.
VersionMatches == rev[draft.rec] = draft.expected

\* save_record_for_run: one transaction, refused when the version moved.
SaveRecord ==
    /\ draft # NoDraft
    /\ VersionMatches
    /\ rev' = [rev EXCEPT ![draft.rec] = @ + 1]
    /\ body' = [body EXCEPT ![draft.rec] = "live"]
    /\ holds' = [holds EXCEPT ![draft.rec] = draft.holds]
    /\ Cite(draft.rec, draft.refs)
    /\ draft' = NoDraft
    /\ UNCHANGED <<copy, from, tomb, queue, ready, call, exporter, faults>>

SaveConflict ==
    /\ draft # NoDraft
    /\ ~VersionMatches
    /\ draft' = NoDraft
    /\ UNCHANGED <<tables, call, exporter, holds, faults>>

\* Mutant: a record that is cleaned again is saved again.
StillThereAlways(n, delete) == TRUE

\* The record is not withdrawn yet, or only retired.
StillThere(n, delete) == tomb[n] = "none" \/ (delete /\ body[n] = "live")

\* retire, and without deletion expire_memories: the record is withdrawn and its
\* job queued in the transaction that saves it.  The edges stay.
Retire(r, delete) ==
    /\ r \in Withdrawable /\ rev[r] > 0
    /\ StillThere(r, delete)
    /\ rev' = [rev EXCEPT ![r] = @ + 1]
    /\ body' = [body EXCEPT ![r] = IF delete THEN "gone" ELSE @]
    /\ tomb' = [tomb EXCEPT ![r] = IF delete THEN "deleted" ELSE "retired"]
    /\ item' = [item EXCEPT ![r] =
                   IF delete /\ job[r].status # "none" /\ ~job[r].delete
                   THEN [n \in Node |-> IF @[n] = "none" THEN "none" ELSE "todo"] ELSE @]
    /\ job' = [job EXCEPT ![r] = [status |-> "pending", delete |-> @.delete \/ delete]]
    /\ UNCHANGED <<copy, from, edges, queue, ready, call, draft, exporter, holds, faults>>

-----------------------------------------------------------------------------
\* Tool calls.

\* No call is under way, nor a submission that a run makes with its context.
RunIdle == call = NoCall /\ (draft # NoDraft => draft.refs = {})

\* A tool reads an available node: record.read, artifact.read of a retained
\* result, message.inbox and evidence.read of an event.
ReadNode(n) ==
    /\ RunIdle
    /\ n \notin Exports
    /\ body[n] = "live"
    /\ Available({n})
    /\ call' = [phase |-> "read", node |-> n, holds |-> holds[n],
                version |-> IF n \in Records THEN rev[n] ELSE 1]
    /\ UNCHANGED <<tables, draft, exporter, holds, faults>>

\* observe_tool, its transaction: the result is retained with the source it was
\* read from and the context of the calling run, {} for a caller without one.  A
\* source withdrawn since the read is cited like any other.
RetainResult(context) ==
    /\ call.phase = "read"
    /\ call.node \in Records => rev[call.node] = call.version
    /\ Unused(Results) # {}
    /\ LET o == Fresh(Results)
       IN  /\ body' = [body EXCEPT ![o] = "live"]
           /\ holds' = [holds EXCEPT ![o] = call.holds]
           /\ Cite(o, context \cup {call.node})
           /\ call' = [phase |-> "retained", node |-> call.node, result |-> o,
                       holds |-> call.holds]
    /\ UNCHANGED <<rev, copy, from, tomb, queue, ready, draft, exporter, faults>>

\* The record was revised between the read and the transaction.
ReadConflict ==
    /\ call.phase = "read"
    /\ call.node \in Records /\ rev[call.node] # call.version
    /\ call' = NoCall
    /\ UNCHANGED <<tables, draft, exporter, holds, faults>>

\* The caller has its answer.
EndCall ==
    /\ call.phase = "retained"
    /\ call' = NoCall
    /\ UNCHANGED <<tables, draft, exporter, holds, faults>>

-----------------------------------------------------------------------------
\* Cleanup.

\* cleanup_source_payload and cleanup_tombstone, on one node of a job.
CleanedBody(n, delete) ==
    IF n \in Exports THEN "gone"
    ELSE IF delete /\ body[n] = "live" THEN "gone" ELSE body[n]

CleanedTomb(n, delete) ==
    IF n \in Records \/ (delete /\ n \in Events \cup Activities)
    THEN IF delete \/ tomb[n] = "deleted" THEN "deleted" ELSE "retired"
    ELSE tomb[n]

CleanPayload(n, delete) ==
    /\ body' = [body EXCEPT ![n] = CleanedBody(n, delete)]
    /\ tomb' = [tomb EXCEPT ![n] = CleanedTomb(n, delete)]
    /\ rev' = IF n \in Records /\ StillThere(n, delete)
              THEN [rev EXCEPT ![n] = @ + 1] ELSE rev
    /\ ready' = IF n \in Exports THEN [ready EXCEPT ![n] = FALSE] ELSE ready
    \* redact_context_source: the messages from the first that observed n on.
    /\ copy' = IF delete
               THEN [e \in Activities |-> IF n \in from[e] THEN "gone" ELSE copy[e]]
               ELSE copy

\* Mutant: a job that failed once is not taken up again.
UnfinishedPending(r) == job[r].status = "pending"

\* cleanup_sources: the jobs it advances, the failed ones after the others.
Unfinished(r) == job[r].status \in {"pending", "failed"}

\* The children of n that the job does not know.
Unlisted(n, items) == {c \in Children(n) : items[c] = "none"}

\* The root is queued when the job is new.
Order(r) == IF queue[r] = <<>> THEN <<r>> ELSE queue[r]
Items(r) == [item[r] EXCEPT ![r] = IF @ = "none" THEN "todo" ELSE @]

\* The item of position i in the queue is the first unfinished one.
IsNext(r, i) ==
    /\ Items(r)[Order(r)[i]] \in {"todo", "paid"}
    /\ \A j \in 1..(i - 1) : Items(r)[Order(r)[j]] = "done"

\* One transaction of advance_cleanup: the first unfinished item has its payload
\* cleaned, once, and as many of its children queued as the batch has room for.
CleanItem(r, n) ==
    LET unlisted == Unlisted(n, Items(r))
        room == Min({Batch, Cardinality(unlisted)})
    IN  /\ IF Items(r)[n] = "todo" THEN CleanPayload(n, job[r].delete)
           ELSE UNCHANGED <<rev, body, tomb, ready, copy>>
        /\ \E listed \in kSubset(room, unlisted) :
              LET after == [c \in Node |->
                      IF c = n THEN IF listed = unlisted THEN "done" ELSE "paid"
                      ELSE IF c \in listed THEN "todo" ELSE Items(r)[c]]
              IN  /\ item' = [item EXCEPT ![r] = after]
                  /\ queue' = [queue EXCEPT ![r] = Order(r) \o SetToSeq(listed)]
                  /\ job' = [job EXCEPT ![r].status =
                         IF \E c \in Node : after[c] \in {"todo", "paid"}
                         THEN "pending" ELSE "complete"]
        /\ UNCHANGED <<from, edges, call, draft, exporter, holds, faults>>

AdvanceCleanup(r) ==
    /\ Unfinished(r)
    /\ \E i \in DOMAIN Order(r) : IsNext(r, i) /\ CleanItem(r, Order(r)[i])

\* The transaction rolls back and the job is marked failed; a file it removed
\* stays removed.
FailCleanup(r) ==
    /\ Unfinished(r)
    /\ faults < MaxFaults
    /\ faults' = faults + 1
    /\ job' = [job EXCEPT ![r].status = "failed"]
    /\ \/ UNCHANGED body
       \/ \E x \in Exports :
            /\ item[r][x] = "todo" \/ (x = r /\ item[r][x] = "none")
            /\ body' = [body EXCEPT ![x] = "gone"]
    /\ UNCHANGED <<rev, copy, from, edges, tomb, item, queue, ready, call, draft, exporter,
                   holds>>

-----------------------------------------------------------------------------
\* Exports.

\* export_training, first transaction: the lineage is reviewed and becomes the
\* edges of a manifest that no reader may open yet.
BeginExport(r) ==
    /\ exporter = None
    /\ body[r] = "live" /\ Available({r})
    /\ Unused(Exports) # {}
    /\ LET x == Fresh(Exports)
       IN  /\ body' = [body EXCEPT ![x] = "manifest"]
           /\ holds' = [holds EXCEPT ![x] = holds[r]]
           /\ edges' = edges \cup {<<x, s>> : s \in Lineage({r})}
           /\ exporter' = x
    /\ UNCHANGED <<rev, copy, from, tomb, job, item, queue, ready, call, draft, faults>>

\* Mutant: the review of the first transaction is trusted.
MayPublishReviewed(x) == tomb[x] = "none"

\* The second transaction's checks, before the file is created.
MayPublish(x) == tomb[x] = "none" /\ Available(Parents(x))

\* The file is written and synced, then the manifest made ready, before the
\* transaction releases the database.
PublishExport ==
    /\ exporter # None
    /\ MayPublish(exporter)
    /\ body' = [body EXCEPT ![exporter] = "live"]
    /\ ready' = [ready EXCEPT ![exporter] = TRUE]
    /\ exporter' = None
    /\ UNCHANGED <<rev, copy, from, edges, tomb, job, item, queue, call, draft, holds, faults>>

\* Mutant: no job is queued for the file.
WithdrawExportOnly(x) ==
    /\ tomb' = [tomb EXCEPT ![x] = IF @ = "none" THEN "deleted" ELSE @]
    /\ ready' = [ready EXCEPT ![x] = FALSE]
    /\ UNCHANGED job

\* Mutant: the job of a file that was already removed is opened again.
WithdrawExportAgain(x) ==
    /\ tomb' = [tomb EXCEPT ![x] = IF @ = "none" THEN "deleted" ELSE @]
    /\ ready' = [ready EXCEPT ![x] = FALSE]
    /\ job' = [job EXCEPT ![x] = [status |-> "pending", delete |-> TRUE]]

\* withdraw_export.
WithdrawExport(x) ==
    /\ tomb' = [tomb EXCEPT ![x] = IF @ = "none" THEN "deleted" ELSE @]
    /\ ready' = [ready EXCEPT ![x] = FALSE]
    /\ job' = [job EXCEPT ![x] = IF @.status = "none"
                                 THEN [status |-> "pending", delete |-> TRUE] ELSE @]

RefuseExport ==
    /\ exporter # None
    /\ ~MayPublish(exporter)
    /\ WithdrawExport(exporter)
    /\ exporter' = None
    /\ UNCHANGED <<rev, body, copy, from, edges, item, queue, call, draft, holds, faults>>

\* The write, the sync or the commit fails, with part of the file on disk.
FailExport ==
    /\ exporter # None
    /\ MayPublish(exporter)
    /\ faults < MaxFaults
    /\ faults' = faults + 1
    /\ WithdrawExport(exporter)
    /\ body' = [body EXCEPT ![exporter] = "partial"]
    /\ exporter' = None
    /\ UNCHANGED <<rev, copy, from, edges, item, queue, call, draft, holds>>

\* The process dies: callers forget, an uncommitted file stays as it is.
Crash ==
    /\ faults < MaxFaults
    /\ faults' = faults + 1
    /\ call' = NoCall /\ draft' = NoDraft /\ exporter' = None
    /\ \/ UNCHANGED body
       \/ /\ exporter # None /\ MayPublish(exporter)
          /\ body' = [body EXCEPT ![exporter] = "partial"]
    /\ UNCHANGED <<rev, copy, from, edges, tomb, job, item, queue, ready, holds>>

\* recover_export_files when any runtime starts, refresh_export_files whenever
\* one serves a call: unready manifests and ready ones without a file.
RecoverExport(x) ==
    /\ body[x] # "none"
    /\ \/ ~ready[x] /\ tomb[x] = "none"
       \/ ready[x] /\ body[x] = "gone"
    /\ WithdrawExport(x)
    /\ UNCHANGED <<rev, body, copy, from, edges, item, queue, call, draft, exporter, holds,
                   faults>>

-----------------------------------------------------------------------------
Next ==
    \/ \E r \in Records : \/ OwnerSubmits(r)
                          \/ Retire(r, TRUE) \/ Retire(r, FALSE)
                          \/ BeginExport(r)
    \/ SaveRecord \/ SaveConflict
    \/ \E n \in Node : ReadNode(n)
    \/ RetainResult({}) \/ ReadConflict \/ EndCall
    \/ PublishExport \/ RefuseExport \/ FailExport
    \/ \E r \in Roots : AdvanceCleanup(r) \/ FailCleanup(r)
    \/ \E x \in Exports : RecoverExport(x)
    \/ Crash

Spec == Init /\ [][Next]_vars

\* Every served call that reads or derives material first refreshes the exports
\* and advances the pending jobs, and failed ones after them (rpc.rs 57-80,
\* refresh_artifact_sources); a runtime that died is started again.
FairSpec ==
    /\ Spec
    /\ \A r \in Roots : WF_vars(AdvanceCleanup(r))
    /\ \A x \in Exports : WF_vars(RecoverExport(x))

-----------------------------------------------------------------------------
Withdrawn == {r \in Records : tomb[r] # "none"}

\* Contents still stored anywhere that were written from the records rs.
Stored(n) == body[n] \in {"partial", "live"} \/ (n \in Activities /\ copy[n] = "live")
Remains(r) == \E n \in Node : Stored(n) /\ r \in holds[n]

\* Whatever a reader may open carries nothing of a withdrawn record: the edges lead
\* from each piece of material to every record it was written from, although records
\* are revised and lose references after they were read.
AvailableIsClean ==
    \A n \in Node : body[n] = "live" /\ Available({n}) => holds[n] \cap Withdrawn = {}

\* A completed deletion left nothing: no event, result, record, context message
\* or export file still holds what was deleted, also when it was derived, saved
\* or published while the job ran or after it had ended.
CompletedDeletionIsTotal ==
    \A r \in Records : job[r] = [status |-> "complete", delete |-> TRUE] => ~Remains(r)

\* A reader can open an export only when its file was completely written, and a
\* file left by a crash or a failed write is owned by a manifest that recovery or
\* its own job still has to remove.
ExportFilesAreOwned ==
    \A x \in Exports :
        /\ ready[x] => body[x] \in {"live", "gone"} /\ exporter # x
        /\ body[x] = "partial" => tomb[x] = "none" \/ job[x].status \in {"pending", "failed"}

\* An unfinished job has an item to go on with, and the items before that are done:
\* jobs are opened, failed, sent back and widened to deletions by others, each with
\* its own idea of the items, and one left without work would stay open.  So
\* advance_cleanup never needs the branch that finds no item (source_cleanup.rs:41).
OpenJobsHaveWork ==
    \A r \in Roots : Unfinished(r) => \E i \in DOMAIN Order(r) : IsNext(r, i)

\* A withdrawal is never undone and deleted content never comes back, although
\* saves that were checked before it are still on their way.
WithdrawalStands ==
    [][\A n \in Node :
         /\ tomb[n] # "none" => tomb'[n] # "none" /\ (body[n] = "gone" => body'[n] = "gone")
         /\ tomb[n] = "deleted" => tomb'[n] = "deleted"]_vars

\* Deletion finishes: once nothing more is derived, what was written from a
\* deleted record is gone for good, whatever failed on the way.
DeletionFinishes ==
    \A r \in Records : tomb[r] = "deleted" ~> ~Remains(r)
=============================================================================
