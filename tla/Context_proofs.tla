--------------------------- MODULE Context_proofs ---------------------------
(***************************************************************************)
(* Theorems of Context: the provider is given nothing that was withdrawn   *)
(* before, sessions leave the tables of Retention sound, a completed       *)
(* deletion is also total for the context's own copies, and no view of a   *)
(* conversation has a hole.                                                *)
(***************************************************************************)
EXTENDS Context, Retention_proofs

-----------------------------------------------------------------------------
\* Steps of a session on the tables of Retention.

\* What S leads to, S1 leads to later.
LEMMA KnownGrows ==
    ASSUME TypeOK, TypeOK', Fixed \subseteq Fixed', NEW S \in SUBSET Node,
           NEW S1 \in SUBSET Node, S \subseteq S1
    PROVE  Reach(S, Fixed) \subseteq Reach(S1, Fixed')
<1>1. Fixed \in SUBSET (Node \X Node) /\ Fixed' \in SUBSET (Node \X Node) BY DEF TypeOK, Fixed
<1> QED BY <1>1, ReachGrows

\* A fresh node n that cites refs and holds what they lead to.
FreshNode(n, refs, known) ==
    /\ n \in Events \cup Activities /\ body[n] = "none"
    /\ refs \in SUBSET InUse
    /\ known \in SUBSET Records /\ known \subseteq Reach(refs, Fixed)
    /\ body' = [body EXCEPT ![n] = "live"]
    /\ holds' = [holds EXCEPT ![n] = known]
    /\ Cite(n, refs)
    /\ UNCHANGED <<rev, tomb, queue, ready, draft, exporter, faults>>
    /\ call' \in {call, NoCall}
    /\ copy' \in [Activities -> {"none", "live", "gone"}]
    /\ from' \in [Activities -> SUBSET Node]

LEMMA FreshNodeFacts ==
    ASSUME RetentionInv, NEW n, NEW refs, NEW known, FreshNode(n, refs, known)
    PROVE  /\ n \in Node /\ n \notin Records /\ n \notin Exports /\ refs \in SUBSET Node
           /\ TypeOK' /\ Grows
           /\ \A m \in Node : m # n => body'[m] = body[m] /\ holds'[m] = holds[m]
           /\ body'[n] = "live" /\ holds'[n] = known
<1>0. TypeOK BY DEF RetentionInv
<1>1. n \in Node /\ n \notin Records /\ n \notin Exports /\ refs \in SUBSET Node
  BY RetentionAssumption DEF FreshNode, Node, InUse, RetentionAssumption
<1>2. /\ edges' \in SUBSET (Node \X Node)
      /\ item' \in [Roots -> [Node -> {"none", "todo", "paid", "done"}]]
      /\ job' \in [Roots -> JobRow]
  BY <1>0, <1>1, CiteType DEF FreshNode
<1>3. body' \in [Node -> Bodies] BY <1>0, <1>1 DEF FreshNode, TypeOK, Bodies
<1>4. holds' \in [Node -> SUBSET Records] BY <1>0, <1>1 DEF FreshNode, TypeOK
<1>5. TypeOK' BY <1>0, <1>2, <1>3, <1>4 DEF TypeOK, FreshNode
<1>6. /\ \A m \in Node : m # n => body'[m] = body[m] /\ holds'[m] = holds[m]
      /\ body'[n] = "live" /\ holds'[n] = known
  BY <1>0, <1>1 DEF FreshNode, TypeOK
<1>7. edges \subseteq edges' BY <1>1, FreshCite DEF FreshNode
<1>8. \A m \in Node : body[m] # "none" => body'[m] # "none" BY <1>6
<1>9. \A r \in Records : rev[r] <= rev'[r] BY <1>0 DEF FreshNode, TypeOK
<1>10. rev' = rev /\ tomb' = tomb BY DEF FreshNode
<1>11. Grows BY <1>0, <1>5, <1>7, <1>8, <1>9, <1>10, GrowsByTables
<1> QED BY <1>1, <1>5, <1>6, <1>11

LEMMA FreshNodeKeeps ==
    ASSUME RetentionInv, NEW n, NEW refs, NEW known, FreshNode(n, refs, known)
    PROVE  RetentionInv'
<1>0. /\ TypeOK /\ TablesInv /\ TypeOK' /\ Grows /\ refs \in SUBSET Node
      /\ n \in Node /\ n \notin Records /\ n \notin Exports
      /\ \A m \in Node : m # n => body'[m] = body[m] /\ holds'[m] = holds[m]
      /\ body'[n] = "live" /\ holds'[n] = known
  BY FreshNodeFacts DEF RetentionInv
<1>1. /\ refs \in SUBSET InUse /\ Cite(n, refs) /\ body[n] = "none" /\ tomb' = tomb /\ rev' = rev
      /\ body' = [body EXCEPT ![n] = "live"] /\ ready' = ready /\ exporter' = exporter
      /\ known \subseteq Reach(refs, Fixed)
  BY DEF FreshNode
<1>2. known \subseteq Origins(n)'
  <2>1. refs \subseteq Captured(refs) /\ Captured(refs) \subseteq InUse BY <1>1, CapturedFacts
  <2>2. Captured(refs) \subseteq Parents(n)'
    <3>1. \A s \in Captured(refs) : <<n, s>> \in edges' /\ s \in Node
      BY <1>1, <2>1 DEF Cite, InUse
    <3> QED BY <3>1 DEF Parents
  <2>3. ({n} \cup Parents(n))' \in SUBSET Node BY <1>0 DEF Parents
  <2>4. refs \subseteq ({n} \cup Parents(n))' BY <2>1, <2>2
  <2>5. Reach(refs, Fixed) \subseteq Reach(({n} \cup Parents(n))', Fixed')
    BY <1>0, <2>3, <2>4, KnownGrows DEF Grows
  <2> QED BY <1>1, <2>5 DEF Origins
<1>3. BlankOK' /\ JobsOK' /\ CleanedOK' /\ ListedOK' /\ ClosedOK' /\ TracedOK'
  BY <1>0, <1>1, <1>2, CiteKeeps
<1>4. \A q \in Roots : /\ job'[q].delete = job[q].delete
                       /\ job'[q].status = "none" <=> job[q].status = "none"
  BY <1>0, <1>1, CiteItems
<1>5. RecordsOK'
  <2>1. \A q \in Records : q # n /\ q \in Node /\ q \in Roots BY <1>0, RootsAreNodes DEF Roots
  <2> QED BY <1>0, <1>1, <1>4, <2>1 DEF TablesInv, RecordsOK
<1>6. ExportsOK'
  <2>1. \A x \in Exports : x # n /\ x \in Node /\ x \in Roots BY <1>0, RootsAreNodes DEF Roots
  <2> QED BY <1>0, <1>1, <1>4, <2>1 DEF TablesInv, ExportsOK
<1>7. OthersOK' BY <1>0 DEF TablesInv, OthersOK
<1>8. DraftOK' BY <1>0, CallersKeep DEF FreshNode
<1>9. CallOK'
  <2>1. CASE call' = call BY <1>0, <2>1, CallersKeep
  <2>2. CASE call' = NoCall BY <2>2 DEF CallOK, NoCall
  <2> QED BY <2>1, <2>2 DEF FreshNode
<1> QED BY <1>0, <1>3, <1>5, <1>6, <1>7, <1>8, <1>9 DEF RetentionInv, TablesInv

\* What a run submits holds what its context leads to, and the record itself.
LEMMA SubmissionKeeps ==
    ASSUME RetentionInv, NEW r \in Records, NEW refs \in SUBSET InUse, NEW known \in SUBSET Records,
           known \subseteq Reach(refs, Fixed), CheckSubmission(r, refs, known)
    PROVE  RetentionInv' /\ Grows
<1>0. /\ TypeOK /\ TablesInv /\ r \in Node /\ rev[r] \in Nat /\ refs \in SUBSET Node
      /\ UNCHANGED <<tables, call, exporter, holds, faults>>
      /\ draft' = [rec |-> r, refs |-> refs, expected |-> rev[r], holds |-> known \cup {r}]
      /\ rev[r] < MaxRevisions[r] /\ (rev[r] # 0 => Available({r}))
  BY RootsAreNodes DEF CheckSubmission, RetentionInv, TypeOK, InUse
<1>1. TypeOK'
  <2>1. draft' \in [rec : Records, refs : SUBSET Node, expected : Nat, holds : SUBSET Records]
    BY <1>0
  <2> QED BY <1>0, <2>1 DEF TypeOK, tables
<1>2. TablesInv' /\ Grows BY <1>0, <1>1, QuietKeeps
<1>3. CallOK' BY <1>0, <1>1, <1>2, CallersKeep
<1>4. tomb[r] = "none"
  <2>1. CASE rev[r] = 0 BY <1>0, <2>1 DEF TablesInv, RecordsOK, BlankOK
  <2>2. CASE rev[r] # 0
    <3>1. {r} \in SUBSET Node /\ edges \in SUBSET (Node \X Node) BY <1>0 DEF TypeOK
    <3>2. r \in Lineage({r}) BY <3>1, ReachClosed DEF Lineage
    <3> QED BY <1>0, <2>2, <3>2 DEF Available
  <2> QED BY <2>1, <2>2
<1>5. known \cup {r} \subseteq Reach({r} \cup refs, Fixed')
  <2>1. {r} \cup refs \in SUBSET Node /\ Fixed' \in SUBSET (Node \X Node)
    BY <1>0, <1>1 DEF TypeOK, Fixed
  <2>2. r \in Reach({r} \cup refs, Fixed') BY <2>1, ReachClosed
  <2>3. Reach(refs, Fixed) \subseteq Reach({r} \cup refs, Fixed')
    BY <1>0, <1>1, <1>2, <2>1, KnownGrows DEF Grows
  <2> QED BY <2>2, <2>3
<1>6. UNCHANGED <<rev, tomb, body>> BY <1>0 DEF tables
<1>7. \A n \in refs : body[n] # "none" BY DEF InUse
<1>8. DraftOK' BY <1>0, <1>4, <1>5, <1>6, <1>7, SMTT(30) DEF DraftOK
<1> QED BY <1>1, <1>2, <1>3, <1>8 DEF RetentionInv
-----------------------------------------------------------------------------
\* What steps of the tables do to the messages and summaries, except the one that
\* is new.

Carries(new) ==
    /\ Grows
    /\ \A e \in Activities :
          /\ body[e] # "none" => /\ holds'[e] = holds[e] /\ from'[e] = from[e]
                                 /\ copy'[e] \in {copy[e], "gone"}
          /\ body[e] = "none" /\ e \notin new => body'[e] = "none" /\ copy'[e] # "live"

\* Every text holds what the sources up to its position lead to.
TextOK(e) ==
    IF body[e] = "none" THEN copy[e] # "live"
    ELSE from[e] \subseteq InUse /\ holds[e] \subseteq Reach(from[e], Fixed)
TextsOK == \A e \in Activities : TextOK(e)

\* A deletion that passed one of those sources redacted the text.
CopiesOK ==
    \A r \in Roots, e \in Activities : \A n \in from[e] :
        job[r].delete /\ Paid(r, n) => copy[e] # "live"

TextInv == RetentionInv /\ TextsOK /\ CopiesOK

LEMMA ActivitiesAreNodes == Activities \subseteq Node /\ Activities \cap (Records \cup Exports) = {}
BY RetentionAssumption DEF RetentionAssumption, Node

LEMMA InUseStays ==
    ASSUME TypeOK, TypeOK', Grows
    PROVE  InUse \subseteq InUse' /\ InUse \in SUBSET Node /\ Fixed \subseteq Fixed'
BY DEF Grows, InUse

LEMMA TextsCarried ==
    ASSUME TypeOK, TypeOK', TextsOK, NEW new, Carries(new), NEW e \in Activities \ new
    PROVE  TextOK(e)'
<1>0. e \in Node /\ Grows BY ActivitiesAreNodes DEF Carries
<1>1. CASE body[e] = "none"
  BY <1>1 DEF TextsOK, TextOK, Carries
<1>2. CASE body[e] # "none"
  <2>1. /\ body'[e] # "none" /\ holds'[e] = holds[e] /\ from'[e] = from[e]
        /\ from[e] \subseteq InUse /\ holds[e] \subseteq Reach(from[e], Fixed)
    BY <1>0, <1>2 DEF TextsOK, TextOK, Carries, Grows
  <2>2. from[e] \in SUBSET Node /\ from'[e] \in SUBSET Node BY DEF TypeOK
  <2>3. Reach(from[e], Fixed) \subseteq Reach(from'[e], Fixed')
    BY <1>0, <2>1, <2>2, KnownGrows, InUseStays
  <2>4. from'[e] \subseteq InUse' BY <1>0, <2>1, InUseStays
  <2> QED BY <2>1, <2>3, <2>4 DEF TextOK
<1> QED BY <1>1, <1>2

\* Steps whose jobs pass nothing new.
LEMMA CopiesCarried ==
    ASSUME TypeOK, TypeOK', TextsOK, CopiesOK, NEW new, Carries(new),
           \A r \in Roots, n \in Node : job'[r].delete /\ Paid(r, n)' => job[r].delete /\ Paid(r, n),
           \A r \in Roots : \A e \in new \cap Activities : \A n \in from'[e] : ~Paid(r, n)'
    PROVE  CopiesOK'
<1> SUFFICES ASSUME NEW r \in Roots, NEW e \in Activities, NEW n \in from'[e],
                    job'[r].delete, Paid(r, n)'
             PROVE  copy'[e] # "live"
  BY DEF CopiesOK
<1>1. n \in Node BY DEF TypeOK
<1>2. job[r].delete /\ Paid(r, n) /\ e \notin new BY <1>1
<1>3. CASE body[e] = "none"
  BY <1>2, <1>3 DEF Carries, TextsOK, TextOK
<1>4. CASE body[e] # "none"
  BY <1>2, <1>4 DEF Carries, CopiesOK
<1> QED BY <1>3, <1>4

LEMMA QuietCarries ==
    ASSUME TextInv, TypeOK', UNCHANGED <<tables, exporter, holds>>
    PROVE  Carries({}) /\ CopiesOK'
<1>1. TypeOK BY DEF TextInv, RetentionInv
<1>2. Grows BY QuietKeeps DEF TextInv
<1>3. UNCHANGED <<body, copy, from, item, job, holds>> BY DEF tables
<1>4. Carries({}) BY <1>2, <1>3 DEF Carries, TextInv, TextsOK, TextOK
<1>5. \A r \in Roots, n \in Node : job'[r].delete /\ Paid(r, n)' => job[r].delete /\ Paid(r, n)
  BY <1>3 DEF Paid
<1> QED BY <1>1, <1>4, <1>5, CopiesCarried DEF TextInv

LEMMA CitePaid ==
    ASSUME RetentionInv, TypeOK', NEW n \in Node, NEW refs \in SUBSET InUse, Cite(n, refs)
    PROVE  /\ \A r \in Roots, m \in Node : job'[r].delete /\ Paid(r, m)' => job[r].delete /\ Paid(r, m)
           /\ \A r \in Roots : \A m \in refs : ~Paid(r, m)'
<1>1. \A r \in Roots : \A m \in Node : item'[r][m] \in {"paid", "done"} =>
                 item'[r][m] = item[r][m] /\ m \notin Captured(refs)
  BY CiteItems
<1>2. \A r \in Roots : job'[r].delete = job[r].delete BY CiteItems
<1>3. refs \subseteq Captured(refs) /\ refs \subseteq Node BY CapturedFacts DEF InUse
<1> QED BY <1>1, <1>2, <1>3 DEF Paid

LEMMA SaveRecordCarries ==
    ASSUME TextInv, TypeOK', SaveRecord
    PROVE  Carries({}) /\ CopiesOK'
<1>0. TypeOK /\ RetentionInv BY DEF TextInv, RetentionInv
<1>1. draft.rec \in Records /\ draft.rec \in Node /\ draft.refs \in SUBSET InUse
  BY <1>0, SavedIsMutable
<1>2. \A e \in Activities : e \in Node /\ e # draft.rec BY <1>1, ActivitiesAreNodes
<1>3. Grows BY <1>0, SaveRecordGrows
<1>4. \A e \in Activities : holds'[e] = holds[e] /\ body'[e] = body[e]
  BY <1>0, <1>1, <1>2 DEF SaveRecord, TypeOK
<1>5. copy' = copy /\ from' = from BY DEF SaveRecord
<1>6. Carries({}) BY <1>3, <1>4, <1>5 DEF Carries, TextInv, TextsOK, TextOK
<1>7. \A r \in Roots, m \in Node : job'[r].delete /\ Paid(r, m)' => job[r].delete /\ Paid(r, m)
  BY <1>0, <1>1, CitePaid DEF SaveRecord
<1> QED BY <1>0, <1>6, <1>7, CopiesCarried DEF TextInv

LEMMA RetireCarries ==
    ASSUME TextInv, TypeOK', NEW r \in Records, NEW delete \in BOOLEAN, Retire(r, delete)
    PROVE  Carries({}) /\ CopiesOK'
<1>0. TypeOK /\ RetentionInv /\ r \in Roots /\ r \in Node
  BY RootsAreNodes DEF TextInv, RetentionInv, Roots
<1>1. Grows BY <1>0, RetireGrows
<1>2. \A e \in Activities : e \in Node /\ e # r BY ActivitiesAreNodes
<1>3. UNCHANGED <<copy, from, holds>> BY DEF Retire
<1>4. \A e \in Activities : body'[e] = body[e] BY <1>0, <1>2 DEF Retire, TypeOK
<1>5. Carries({}) BY <1>1, <1>3, <1>4 DEF Carries, TextInv, TextsOK, TextOK
<1>6. ASSUME NEW q \in Roots, NEW n \in Node, job'[q].delete, Paid(q, n)'
      PROVE  job[q].delete /\ Paid(q, n)
  <2>1. CASE q # r
    <3>1. job'[q] = job[q] /\ item'[q] = item[q] BY <1>0, <2>1 DEF Retire, TypeOK
    <3> QED BY <1>6, <3>1 DEF Paid
  <2>2. CASE q = r /\ delete /\ job[r].status # "none" /\ ~job[r].delete
    <3>1. item'[r] = [m \in Node |-> IF item[r][m] = "none" THEN "none" ELSE "todo"]
      BY <1>0, <2>2 DEF Retire, TypeOK
    <3> QED BY <1>6, <2>2, <3>1 DEF Paid
  <2>3. CASE q = r /\ ~(delete /\ job[r].status # "none" /\ ~job[r].delete)
    <3>1. item'[r] = item[r] BY <1>0, <2>3 DEF Retire, TypeOK
    <3>2. job'[r].delete = (job[r].delete \/ delete) BY <1>0 DEF Retire, TypeOK
    <3>3. item[r][n] \in {"paid", "done"} BY <1>6, <2>3, <3>1 DEF Paid
    <3>4. job[r].status # "none" BY <1>0, <3>3 DEF RetentionInv, TablesInv, JobsOK
    <3> QED BY <1>6, <2>3, <3>2, <3>3, <3>4 DEF Paid
  <2> QED BY <2>1, <2>2, <2>3
<1> QED BY <1>0, <1>5, <1>6, CopiesCarried DEF TextInv

\* The cleanup redacts the copies when it pays an item, and pays only one.
LEMMA CleanupCarries ==
    ASSUME TextInv, TypeOK', NEW r \in Roots, AdvanceCleanup(r)
    PROVE  Carries({}) /\ CopiesOK'
<1>0. TypeOK /\ RetentionInv /\ r \in Node /\ job[r].delete \in BOOLEAN
  BY RootsAreNodes DEF TextInv, RetentionInv, TypeOK, JobRow
<1>1. PICK n \in Node : Items(r)[n] \in {"todo", "paid"} /\ CleanItem(r, n)
  BY <1>0, AdvancePicks
<1>2. /\ body[n] # "none"
      /\ \A m \in Node : m # n => body'[m] = body[m]
      /\ \A e \in Activities : copy'[e] \in {copy[e], "gone"}
  BY <1>0, <1>1, ItemFacts DEF AdvanceCleanup
<1>3. Grows BY <1>0, <1>1, CleanItemGrows
<1>4. from' = from /\ holds' = holds BY <1>1 DEF CleanItem
<1>5. Carries({})
  <2>1. \A e \in Activities : body[e] = "none" => body'[e] = "none" /\ copy'[e] # "live"
    BY <1>2, ActivitiesAreNodes DEF TextInv, TextsOK, TextOK
  <2> QED BY <1>2, <1>3, <1>4, <2>1 DEF Carries
<1>6. PICK listed \in SUBSET Node :
        /\ \A c \in Node : c # n => item'[r][c] = IF c \in listed THEN "todo" ELSE Items(r)[c]
        /\ \A q \in Roots : q # r => item'[q] = item[q] /\ job'[q] = job[q]
        /\ job'[r].delete = job[r].delete
  BY <1>0, <1>1, ItemRows
<1>7. /\ \A q \in Roots : job'[q].delete = job[q].delete
      /\ \A q \in Roots \ {r} : item'[q] = item[q]
      /\ \A m \in Node \ {n} : item'[r][m] \in {"paid", "done"} => item[r][m] = item'[r][m]
      /\ Items(r)[n] = "paid" => item[r][n] = "paid"
  <2>1. \A m \in Node : Items(r)[m] = item[r][m] \/ Items(r)[m] = "todo"
    BY <1>0 DEF Items, TypeOK
  <2> QED BY <1>6, <2>1
<1>8. CopiesOK'
  <2> SUFFICES ASSUME NEW q \in Roots, NEW e \in Activities, NEW m \in from'[e],
                      job'[q].delete, Paid(q, m)'
               PROVE  copy'[e] # "live"
    BY DEF CopiesOK
  <2>1. m \in Node /\ m \in from[e] /\ job[q].delete BY <1>4, <1>7 DEF TypeOK
  <2>2. CASE Paid(q, m) BY <1>2, <2>1, <2>2 DEF TextInv, CopiesOK
  <2>3. CASE ~Paid(q, m)
    <3>1. q = r /\ m = n /\ Items(r)[n] = "todo" BY <1>1, <1>7, <2>1, <2>3 DEF Paid
    <3>2. CleanPayload(n, job[r].delete) BY <1>1, <3>1 DEF CleanItem
    <3> QED BY <2>1, <3>1, <3>2 DEF CleanPayload, TypeOK
  <2> QED BY <2>2, <2>3
<1> QED BY <1>5, <1>8

\* The texts and the tables together.
LEMMA TextStep ==
    ASSUME TextInv, RetentionInv', Carries({}), CopiesOK'
    PROVE  TextInv'
<1>1. \A e \in Activities : TextOK(e)' BY TextsCarried DEF TextInv, RetentionInv
<1> QED BY <1>1 DEF TextInv, TextsOK

\* Steps that leave the tables and what they hold alone.
LEMMA QuietTexts ==
    ASSUME TextInv, RetentionInv', UNCHANGED <<tables, exporter, holds>>
    PROVE  TextInv' /\ Carries({})
BY QuietCarries, TextStep DEF RetentionInv

LEMMA UnchangedTexts ==
    ASSUME TextInv, UNCHANGED vars
    PROVE  TextInv' /\ Carries({})
<1>1. RetentionInv' BY InvStep DEF TextInv
<1> QED BY <1>1, QuietTexts DEF vars

\* The owner, the saves and the cleanup.
LEMMA OthersTexts ==
    ASSUME TextInv, Others
    PROVE  TextInv' /\ Carries({})
<1>0. RetentionInv' /\ TypeOK'
  <2>1. Next BY DEF Others, Next
  <2> QED BY <2>1, InvStep DEF TextInv, RetentionInv
<1>1. ASSUME NEW r \in Records, OwnerSubmits(r) PROVE Carries({}) /\ CopiesOK'
  BY <1>0, <1>1, QuietCarries DEF OwnerSubmits, CheckSubmission
<1>2. ASSUME NEW r \in Records, Retire(r, TRUE) \/ Retire(r, FALSE)
      PROVE  Carries({}) /\ CopiesOK'
  <2>1. TRUE \in BOOLEAN /\ FALSE \in BOOLEAN OBVIOUS
  <2> QED BY <1>0, <1>2, <2>1, RetireCarries
<1>3. ASSUME SaveRecord PROVE Carries({}) /\ CopiesOK' BY <1>0, <1>3, SaveRecordCarries
<1>4. ASSUME SaveConflict PROVE Carries({}) /\ CopiesOK' BY <1>0, <1>4, QuietCarries DEF SaveConflict
<1>5. ASSUME NEW r \in Roots, AdvanceCleanup(r) PROVE Carries({}) /\ CopiesOK'
  BY <1>0, <1>5, CleanupCarries
<1> QED BY <1>0, <1>1, <1>2, <1>3, <1>4, <1>5, TextStep DEF Others

\* A tool's result is kept with the context of the run.
LEMMA RetainTexts ==
    ASSUME TextInv, NEW context \in SUBSET InUse, RetainResult(context)
    PROVE  TextInv' /\ Carries({})
<1> DEFINE o == Fresh(Results)
<1>0. RetentionInv /\ TypeOK /\ context \in SUBSET Node BY DEF TextInv, RetentionInv, InUse
<1>1. TypeOK' BY <1>0, RetainResultType
<1>2. TablesInv' /\ Grows BY <1>0, <1>1, RetainResultKeeps, RetainResultGrows
<1>3. RetentionInv'
  <2>1. draft' = draft /\ call'.phase = "retained" BY DEF RetainResult
  <2>2. CallOK' BY <2>1 DEF CallOK
  <2> QED BY <1>0, <1>1, <1>2, <2>1, <2>2, CallersKeep DEF RetentionInv
<1>4. o \in Results /\ o \in Node /\ o \notin Activities
  BY FreshIsUnused, RootsAreNodes, RetentionAssumption DEF RetainResult, RetentionAssumption
<1>5. context \cup {call.node} \in SUBSET InUse
  <2>1. call.node \in Node BY <1>0 DEF TypeOK, RetainResult, NoCall
  <2> QED BY <1>0, <2>1 DEF RetainResult, RetentionInv, CallOK, InUse
<1> HIDE DEF o
<1>6. /\ body' = [body EXCEPT ![o] = "live"] /\ holds' = [holds EXCEPT ![o] = call.holds]
      /\ Cite(o, context \cup {call.node}) /\ UNCHANGED <<copy, from>>
  BY DEF RetainResult, o
<1>7. \A e \in Activities : body'[e] = body[e] /\ holds'[e] = holds[e]
  BY <1>0, <1>4, <1>6, ActivitiesAreNodes DEF TypeOK
<1>8. Carries({}) BY <1>2, <1>6, <1>7 DEF Carries, TextInv, TextsOK, TextOK
<1>9. \A r \in Roots, m \in Node : job'[r].delete /\ Paid(r, m)' => job[r].delete /\ Paid(r, m)
  BY <1>0, <1>1, <1>4, <1>5, <1>6, CitePaid
<1>10. CopiesOK' BY <1>0, <1>1, <1>8, <1>9, CopiesCarried DEF TextInv
<1> QED BY <1>3, <1>8, <1>10, TextStep

\* A new event or text.
LEMMA FreshTexts ==
    ASSUME TextInv, NEW n, NEW refs, NEW known, FreshNode(n, refs, known),
           \A e \in Activities \ {n} : copy'[e] = copy[e] /\ from'[e] = from[e],
           n \in Activities => from'[n] \subseteq refs /\ known \subseteq Reach(from'[n], Fixed)
    PROVE  TextInv' /\ Carries({n})
<1>0. RetentionInv /\ TypeOK /\ RetentionInv' BY FreshNodeKeeps DEF TextInv, RetentionInv
<1>1. /\ n \in Node /\ TypeOK' /\ Grows /\ refs \in SUBSET InUse /\ Cite(n, refs)
      /\ \A m \in Node : m # n => body'[m] = body[m] /\ holds'[m] = holds[m]
      /\ body'[n] = "live" /\ holds'[n] = known /\ body[n] = "none"
  BY <1>0, FreshNodeFacts, ZenonT(60) DEF FreshNode
<1>2. Carries({n})
  BY <1>1, ActivitiesAreNodes DEF Carries, TextInv, TextsOK, TextOK
<1>3. /\ \A r \in Roots, m \in Node : job'[r].delete /\ Paid(r, m)' => job[r].delete /\ Paid(r, m)
      /\ \A r \in Roots : \A m \in refs : ~Paid(r, m)'
  BY <1>0, <1>1, CitePaid
<1>4. CopiesOK'
  <2>1. \A r \in Roots : \A e \in {n} \cap Activities : \A m \in from'[e] : ~Paid(r, m)' BY <1>3
  <2> QED BY <1>0, <1>1, <1>2, <1>3, <2>1, CopiesCarried DEF TextInv
<1>5. \A e \in Activities \ {n} : TextOK(e)' BY <1>0, <1>1, <1>2, TextsCarried DEF TextInv
<1>6. ASSUME n \in Activities PROVE TextOK(n)'
  <2>1. from'[n] \in SUBSET Node /\ from'[n] \subseteq InUse' BY <1>0, <1>1, <1>6, InUseStays DEF TypeOK
  <2>2. Reach(from'[n], Fixed) \subseteq Reach(from'[n], Fixed')
    BY <1>0, <1>1, <2>1, KnownGrows, InUseStays
  <2> QED BY <1>1, <1>6, <2>1, <2>2 DEF TextOK
<1> QED BY <1>0, <1>2, <1>4, <1>5, <1>6 DEF TextInv, TextsOK

-----------------------------------------------------------------------------
\* The invariant of a session, part by part.

\* What the sources of the newest segment lead to.
Known == Reach(ctx, Fixed)

\* All that the segment, the worker and the provider have is among it.
MindOK ==
    /\ ctx \subseteq InUse
    /\ mind \in SUBSET Records /\ mind \subseteq Known
    /\ memory \in [holds : SUBSET Records, items : SUBSET Nat] /\ memory.holds \subseteq Known
    /\ sent \in [holds : SUBSET Records, before : SUBSET Records, whole : BOOLEAN]
    /\ sent.holds \subseteq Known

\* The text of a task is what its source stands for, and every segment cites it.
WorkOK ==
    /\ \A w \in {asked, work} :
          /\ w \in [source : InUse \cup {None}, holds : SUBSET Records]
          /\ w.holds \subseteq Reach({w.source} \ {None}, Fixed)
    /\ Task \subseteq ctx

\* Later messages of a segment have more sources.
SegOK ==
    /\ seg \in Seq([id : Activities, answer : BOOLEAN])
    /\ \A k \in DOMAIN seg : /\ body[seg[k].id] # "none"
                             /\ Task \subseteq from[seg[k].id] /\ from[seg[k].id] \subseteq ctx
                             /\ \A j \in 1..k : from[seg[j].id] \subseteq from[seg[k].id]

\* A summary has the sources of the last message that it stands for.
HeadsOK ==
    /\ heads \in Seq([id : Activities, through : Nat, items : SUBSET Nat])
    /\ \A i \in DOMAIN heads : /\ body[heads[i].id] # "none"
                               /\ heads[i].through \in DOMAIN seg
                               /\ from[heads[i].id] = from[seg[heads[i].through].id]

Plans == [phase : {"prepared", "read"}, after : Nat, through : Nat,
          prev : Activities \cup {None}, holds : SUBSET Records, items : SUBSET Nat]

\* A compaction begins at a summary that was committed, and has read nothing but what
\* the sources of its last message lead to.
PlanOK ==
    plan # NoPlan =>
        /\ plan \in Plans
        /\ plan.through \in DOMAIN seg /\ plan.after < plan.through
        /\ IF plan.prev = None THEN plan.after = 0
           ELSE \E i \in DOMAIN heads : heads[i].id = plan.prev /\ heads[i].through = plan.after
        /\ plan.phase = "read" => plan.holds \subseteq Reach(from[seg[plan.through].id], Fixed)

IdleOK == worker = "closed" => memory = Nothing /\ plan = NoPlan /\ sent = NothingSent

\* A tool's answer is what was retained of it.
RetainedOK ==
    call.phase = "retained" =>
        call.node \in InUse /\ call.result \in InUse /\ call.holds \subseteq holds[call.result]

SessionInv == /\ TextInv /\ MindOK /\ WorkOK /\ SegOK /\ HeadsOK /\ PlanOK /\ IdleOK /\ RetainedOK
              /\ ProviderContentWasAvailable

LEMMA KnownType ==
    ASSUME SessionInv
    PROVE  /\ ctx \in SUBSET Node /\ Fixed \in SUBSET (Node \X Node) /\ TypeOK
           /\ ctx \subseteq Known /\ Known \in SUBSET Node
           /\ Task \in SUBSET Node
<1>1. ctx \in SUBSET Node /\ TypeOK BY DEF SessionInv, TextInv, RetentionInv, MindOK, InUse
<1>2. Fixed \in SUBSET (Node \X Node) BY <1>1, FixedType
<1>3. Task \in SUBSET Node BY <1>1 DEF SessionInv, WorkOK
<1> QED BY <1>1, <1>2, <1>3, ReachClosed DEF Known

LEMMA RowTypes ==
    ASSUME SessionInv
    PROVE  /\ DOMAIN seg = 1..Len(seg) /\ Len(seg) \in Nat
           /\ \A k \in DOMAIN seg : seg[k] \in [id : Activities, answer : BOOLEAN]
           /\ DOMAIN heads = 1..Len(heads) /\ Len(heads) \in Nat
           /\ \A i \in DOMAIN heads : heads[i] \in [id : Activities, through : Nat, items : SUBSET Nat]
<1>1. \A S : \A s \in Seq(S) : /\ DOMAIN s = 1..Len(s) /\ Len(s) \in Nat
                              /\ \A k \in DOMAIN s : s[k] \in S
  OBVIOUS
<1>2. seg \in Seq([id : Activities, answer : BOOLEAN])
      /\ heads \in Seq([id : Activities, through : Nat, items : SUBSET Nat])
  BY DEF SessionInv, SegOK, HeadsOK
<1> QED BY <1>1, <1>2

\* Messages and summaries are known.
LEMMA MessageKnown ==
    ASSUME SessionInv, NEW k \in DOMAIN seg
    PROVE  /\ holds[seg[k].id] \subseteq Reach(from[seg[k].id], Fixed)
           /\ Reach(from[seg[k].id], Fixed) \subseteq Known
           /\ seg[k].id \in Activities /\ from[seg[k].id] \in SUBSET InUse
<1>1. seg[k].id \in Activities BY RowTypes
<1>2. from[seg[k].id] \subseteq ctx /\ body[seg[k].id] # "none" BY DEF SessionInv, SegOK
<1>3. from[seg[k].id] \in SUBSET Node BY <1>2, KnownType
<1>4. holds[seg[k].id] \subseteq Reach(from[seg[k].id], Fixed) /\ from[seg[k].id] \subseteq InUse
  BY <1>1, <1>2 DEF SessionInv, TextInv, TextsOK, TextOK
<1>5. Reach(from[seg[k].id], Fixed) \subseteq Reach(ctx, Fixed)
  BY <1>2, <1>3, KnownType, ReachGrows
<1> QED BY <1>1, <1>4, <1>5 DEF Known

LEMMA HeadKnown ==
    ASSUME SessionInv, NEW i \in DOMAIN heads, NEW k \in DOMAIN seg, heads[i].through <= k
    PROVE  /\ holds[heads[i].id] \subseteq Reach(from[seg[k].id], Fixed)
           /\ heads[i].id \in Activities /\ heads[i].id \in InUse
<1>1. heads[i].id \in Activities /\ heads[i].through \in Nat BY RowTypes
<1>2. heads[i].id \in Node BY <1>1, ActivitiesAreNodes
<1>3. /\ body[heads[i].id] # "none" /\ heads[i].through \in DOMAIN seg
      /\ from[heads[i].id] = from[seg[heads[i].through].id]
  BY DEF SessionInv, HeadsOK
<1>4. DOMAIN seg = 1..Len(seg) /\ Len(seg) \in Nat BY RowTypes
<1>5. heads[i].through \in 1..k BY <1>3, <1>4
<1>6. from[heads[i].id] \subseteq from[seg[k].id] BY <1>3, <1>5 DEF SessionInv, SegOK
<1>7. from[heads[i].id] \in SUBSET Node /\ from[seg[k].id] \in SUBSET Node
  BY <1>6, MessageKnown DEF InUse
<1>8. Reach(from[heads[i].id], Fixed) \subseteq Reach(from[seg[k].id], Fixed)
  BY <1>6, <1>7, KnownType, ReachGrows
<1>9. holds[heads[i].id] \subseteq Reach(from[heads[i].id], Fixed)
  BY <1>1, <1>3 DEF SessionInv, TextInv, TextsOK, TextOK
<1> QED BY <1>1, <1>2, <1>3, <1>8, <1>9 DEF InUse

\* The largest of some positions.
LEMMA MaxFacts ==
    ASSUME NEW n \in Nat, NEW S \in SUBSET (1..n), S # {}
    PROVE  Max(S) \in S /\ \A y \in S : y <= Max(S)
<1> DEFINE T == {n - x : x \in S}
<1>1. T \in SUBSET Nat /\ T # {}
  <2>1. \A x \in S : x \in Nat /\ x <= n /\ n - x \in Nat OBVIOUS
  <2> QED BY <2>1
<1>2. PICK t \in T : \A y \in T : t <= y BY <1>1, LeastNumber
<1>3. PICK x \in S : t = n - x BY <1>2
<1>4. \A y \in S : n - x <= n - y BY <1>2, <1>3
<1>5. \A y \in S : x >= y BY <1>3, <1>4
<1>6. \E m \in S : \A y \in S : m >= y BY <1>3, <1>5
<1>7. Max(S) \in S /\ \A y \in S : Max(S) >= y BY <1>6 DEF Max
<1> QED BY <1>7

LEMMA MinFacts ==
    ASSUME NEW S \in SUBSET Nat, S # {}
    PROVE  Min(S) \in S /\ \A y \in S : Min(S) <= y
BY LeastNumber DEF Min

\* The newest summary is one of those that were committed.
LEMMA SummaryFacts ==
    ASSUME SessionInv
    PROVE  \/ SummaryHead = NoHead /\ Summary = {}
           \/ \E i \in DOMAIN heads : /\ i \in Committed /\ SummaryHead = heads[i]
                                      /\ Summary = {heads[i].id}
<1>1. DOMAIN heads = 1..Len(heads) /\ Len(heads) \in Nat BY RowTypes
<1>2. CASE Committed = {}
  BY <1>2 DEF SummaryHead, Summary, NoHead
<1>3. CASE Committed # {}
  <2>1. Max(Committed) \in Committed BY <1>1, <1>3, MaxFacts DEF Committed
  <2>2. Max(Committed) \in DOMAIN heads BY <2>1 DEF Committed
  <2>3. heads[Max(Committed)].id \in Activities BY <2>2, RowTypes
  <2>4. heads[Max(Committed)].id # None
    BY <2>3, ActivitiesAreNodes, RetentionAssumption DEF RetentionAssumption
  <2>5. SummaryHead = heads[Max(Committed)] BY <1>3 DEF SummaryHead
  <2> QED BY <2>1, <2>2, <2>4, <2>5 DEF Summary
<1> QED BY <1>2, <1>3

LEMMA SummaryKnown ==
    ASSUME SessionInv
    PROVE  Summary \in SUBSET InUse /\ RunSources \in SUBSET InUse /\ Contents(Summary) \subseteq Known
<1>1. CASE Summary = {} BY <1>1 DEF RunSources, Contents, SessionInv, MindOK
<1>2. CASE Summary # {}
  <2>1. PICK i \in DOMAIN heads : Summary = {heads[i].id} BY <1>2, SummaryFacts
  <2>2. heads[i].through \in DOMAIN seg /\ heads[i].through \in Nat
    BY RowTypes DEF SessionInv, HeadsOK
  <2>3. heads[i].id \in InUse /\ holds[heads[i].id] \subseteq Known
    BY <2>2, HeadKnown, MessageKnown
  <2> QED BY <2>1, <2>3 DEF RunSources, Contents, SessionInv, MindOK
<1> QED BY <1>1, <1>2

\* When the segment may be used, nothing that is known was withdrawn.
LEMMA EligibleKnown ==
    ASSUME SessionInv, Eligible
    PROVE  Known \cap Withdrawn = {}
<1>1. Known \subseteq Lineage(ctx)
  <2>1. Fixed \subseteq edges /\ edges \in SUBSET (Node \X Node) BY KnownType, FixedType DEF TypeOK
  <2> QED BY <2>1, KnownType, ReachGrows DEF Known, Lineage
<1> QED BY <1>1 DEF Eligible, Available, Withdrawn

-----------------------------------------------------------------------------
\* What steps of the tables leave sound.

LEMMA MindKeeps ==
    ASSUME SessionInv, TypeOK', Grows, ctx' = ctx,
           mind' \in SUBSET Records, mind' \subseteq Known,
           memory' \in [holds : SUBSET Records, items : SUBSET Nat], memory'.holds \subseteq Known,
           sent' \in [holds : SUBSET Records, before : SUBSET Records, whole : BOOLEAN],
           sent'.holds \subseteq Known
    PROVE  MindOK'
<1>1. Known \subseteq Known' BY KnownType, KnownGrows DEF Grows, Known
<1>2. ctx' \subseteq InUse' BY KnownType, InUseStays DEF SessionInv, MindOK
<1> QED BY <1>1, <1>2 DEF MindOK

LEMMA SameMindKeeps ==
    ASSUME SessionInv, TypeOK', Grows, UNCHANGED <<ctx, mind, memory, sent>>
    PROVE  MindOK'
BY MindKeeps DEF SessionInv, MindOK

LEMMA TaskTextKeeps ==
    ASSUME TypeOK, TypeOK', Grows, NEW w, w \in [source : InUse \cup {None}, holds : SUBSET Records],
           w.holds \subseteq Reach({w.source} \ {None}, Fixed)
    PROVE  /\ w \in [source : InUse' \cup {None}, holds : SUBSET Records]
           /\ w.holds \subseteq Reach({w.source} \ {None}, Fixed')
<1>1. {w.source} \ {None} \in SUBSET Node BY DEF InUse
<1>2. Reach({w.source} \ {None}, Fixed) \subseteq Reach({w.source} \ {None}, Fixed')
  BY <1>1, KnownGrows DEF Grows
<1> QED BY <1>2, InUseStays

LEMMA WorkKeeps ==
    ASSUME SessionInv, TypeOK', Grows, UNCHANGED work, ctx \subseteq ctx',
           asked' = asked \/ /\ asked' \in [source : InUse' \cup {None}, holds : SUBSET Records]
                             /\ asked'.holds \subseteq Reach({asked'.source} \ {None}, Fixed')
    PROVE  WorkOK'
<1>1. /\ work \in [source : InUse' \cup {None}, holds : SUBSET Records]
      /\ work.holds \subseteq Reach({work.source} \ {None}, Fixed')
  BY KnownType, TaskTextKeeps DEF SessionInv, WorkOK
<1>2. asked' = asked =>
        /\ asked' \in [source : InUse' \cup {None}, holds : SUBSET Records]
        /\ asked'.holds \subseteq Reach({asked'.source} \ {None}, Fixed')
  BY KnownType, TaskTextKeeps DEF SessionInv, WorkOK
<1>3. Task' \subseteq ctx' BY DEF SessionInv, WorkOK, Task
<1> QED BY <1>1, <1>2, <1>3 DEF WorkOK

LEMMA SegKeeps ==
    ASSUME SessionInv, NEW new, Carries(new), UNCHANGED <<seg, work>>, ctx \subseteq ctx'
    PROVE  SegOK'
<1>1. ASSUME NEW k \in DOMAIN seg PROVE body'[seg[k].id] # "none" /\ from'[seg[k].id] = from[seg[k].id]
  <2>1. seg[k].id \in Activities /\ seg[k].id \in Node BY RowTypes, ActivitiesAreNodes
  <2>2. body[seg[k].id] # "none" BY DEF SessionInv, SegOK
  <2> QED BY <2>1, <2>2 DEF Carries, Grows
<1>2. \A k \in DOMAIN seg : 1..k \subseteq DOMAIN seg BY RowTypes
<1>3. Task' = Task BY DEF Task
<1> QED BY <1>1, <1>2, <1>3 DEF SessionInv, SegOK

\* A message joins the segment at its end.
LEMMA SegGrows ==
    ASSUME SessionInv, seg' = seg \/ \E m : seg' = Append(seg, m)
    PROVE  DOMAIN seg \subseteq DOMAIN seg' /\ \A k \in DOMAIN seg : seg'[k] = seg[k]
<1>1. CASE seg' = seg BY <1>1
<1>2. ASSUME NEW m, seg' = Append(seg, m)
      PROVE  DOMAIN seg \subseteq DOMAIN seg' /\ \A k \in DOMAIN seg : seg'[k] = seg[k]
  BY <1>2 DEF SessionInv, SegOK
<1> QED BY <1>1, <1>2

LEMMA OldHeadsKeep ==
    ASSUME SessionInv, NEW new, Carries(new), seg' = seg \/ \E m : seg' = Append(seg, m),
           NEW i \in DOMAIN heads
    PROVE  /\ body'[heads[i].id] # "none" /\ heads[i].through \in DOMAIN seg'
           /\ from'[heads[i].id] = from'[seg'[heads[i].through].id]
<1>1. ASSUME NEW e \in Activities, body[e] # "none" PROVE body'[e] # "none" /\ from'[e] = from[e]
  BY <1>1, ActivitiesAreNodes DEF Carries, Grows
<1>2. heads[i].id \in Activities /\ body[heads[i].id] # "none" /\ heads[i].through \in DOMAIN seg
  BY RowTypes DEF SessionInv, HeadsOK
<1>3. seg[heads[i].through].id \in Activities /\ body[seg[heads[i].through].id] # "none"
  BY <1>2, RowTypes DEF SessionInv, SegOK
<1>4. seg'[heads[i].through] = seg[heads[i].through] /\ heads[i].through \in DOMAIN seg'
  BY <1>2, SegGrows
<1> QED BY <1>1, <1>2, <1>3, <1>4 DEF SessionInv, HeadsOK

LEMMA HeadsKeep ==
    ASSUME SessionInv, NEW new, Carries(new), heads' = heads, seg' = seg \/ \E m : seg' = Append(seg, m)
    PROVE  HeadsOK'
BY OldHeadsKeep DEF SessionInv, HeadsOK

\* The messages and summaries that a compaction names stay what they are.
LEMMA PlanKeeps ==
    ASSUME SessionInv, TypeOK', NEW new, Carries(new), UNCHANGED <<plan, heads>>,
           seg' = seg \/ \E m : seg' = Append(seg, m)
    PROVE  PlanOK'
<1> SUFFICES ASSUME plan # NoPlan PROVE PlanOK' BY DEF PlanOK
<1>1. plan \in Plans /\ plan.through \in DOMAIN seg BY DEF SessionInv, PlanOK
<1>2. DOMAIN seg \subseteq DOMAIN seg' /\ seg'[plan.through] = seg[plan.through]
  BY <1>1, SegGrows
<1>3. seg[plan.through].id \in Activities /\ body[seg[plan.through].id] # "none"
      /\ seg[plan.through].id \in Node
  BY <1>1, RowTypes, ActivitiesAreNodes DEF SessionInv, SegOK
<1>4. from'[seg[plan.through].id] = from[seg[plan.through].id] BY <1>3 DEF Carries
<1>5. Reach(from[seg[plan.through].id], Fixed) \subseteq Reach(from[seg[plan.through].id], Fixed')
  <2>1. from[seg[plan.through].id] \in SUBSET Node BY <1>1, MessageKnown DEF InUse
  <2> QED BY <2>1, KnownType, KnownGrows DEF Carries, Grows
<1>6. plan.through \in DOMAIN seg' BY <1>1, <1>2
<1>7. plan.phase = "read" => plan.holds \subseteq Reach(from'[seg'[plan.through].id], Fixed')
  BY <1>2, <1>4, <1>5 DEF SessionInv, PlanOK
<1>8. /\ plan.after < plan.through
      /\ IF plan.prev = None THEN plan.after = 0
         ELSE \E i \in DOMAIN heads' : heads'[i].id = plan.prev /\ heads'[i].through = plan.after
  BY DEF SessionInv, PlanOK
<1> QED BY <1>1, <1>6, <1>7, <1>8 DEF PlanOK

LEMMA RetainedKeeps ==
    ASSUME SessionInv, TextInv', Grows, call' = call, \A n \in Results : body[n] # "none" => holds'[n] = holds[n]
    PROVE  RetainedOK'
<1> SUFFICES ASSUME call.phase = "retained" PROVE RetainedOK' BY DEF RetainedOK
<1>1. call.node \in InUse /\ call.result \in InUse /\ call.holds \subseteq holds[call.result]
  BY DEF SessionInv, RetainedOK
<1>2. call.result \in Results BY KnownType DEF TypeOK, NoCall
<1>3. holds'[call.result] = holds[call.result] BY <1>1, <1>2 DEF InUse
<1>4. InUse \subseteq InUse' BY KnownType, InUseStays DEF TextInv, RetentionInv
<1> QED BY <1>1, <1>3, <1>4 DEF RetainedOK

\* Steps of the tables under an unchanged session.
LEMMA SessionKept ==
    ASSUME SessionInv, TextInv', NEW new, Carries(new), UNCHANGED session, RetainedOK'
    PROVE  SessionInv'
<1>1. /\ UNCHANGED <<ctx, mind, asked, work, seg, heads, plan, worker, memory, sent>>
      /\ Grows /\ TypeOK'
  BY DEF session, Carries, TextInv, RetentionInv
<1>2. MindOK' BY <1>1, SameMindKeeps
<1>3. WorkOK' BY <1>1, WorkKeeps
<1>4. SegOK' BY <1>1, SegKeeps
<1>5. HeadsOK' BY <1>1, HeadsKeep
<1>6. PlanOK' BY <1>1, PlanKeeps
<1>7. IdleOK' BY <1>1 DEF SessionInv, IdleOK
<1>8. ProviderContentWasAvailable' BY <1>1 DEF SessionInv, ProviderContentWasAvailable
<1> QED BY <1>2, <1>3, <1>4, <1>5, <1>6, <1>7, <1>8 DEF SessionInv

-----------------------------------------------------------------------------
\* The steps of the worker.

LEMMA QuietParts ==
    ASSUME SessionInv, UNCHANGED vars
    PROVE  TextInv' /\ Carries({}) /\ Grows /\ TypeOK' /\ RetainedOK'
<1>1. TextInv' /\ Carries({}) BY UnchangedTexts DEF SessionInv
<1>2. Grows /\ TypeOK' BY <1>1 DEF Carries, TextInv, RetentionInv
<1>3. call' = call /\ holds' = holds BY DEF vars
<1> QED BY <1>1, <1>2, <1>3, RetainedKeeps

\* What is read from a range of messages is known.
LEMMA RangeKnown ==
    ASSUME SessionInv, NEW i, NEW j
    PROVE  /\ Contents(Messages(i, j)) \in SUBSET Records /\ Contents(Messages(i, j)) \subseteq Known
           /\ Positions(i, j) \in SUBSET Nat
<1>1. \A k \in DOMAIN seg : holds[seg[k].id] \subseteq Known /\ holds[seg[k].id] \in SUBSET Records
  BY MessageKnown, ActivitiesAreNodes, KnownType DEF TypeOK
<1>2. \A k \in DOMAIN seg : k \in Nat BY RowTypes
<1> QED BY <1>1, <1>2 DEF Contents, Messages, Positions

LEMMA TaskKnown ==
    ASSUME SessionInv
    PROVE  work.holds \in SUBSET Records /\ work.holds \subseteq Known
<1>1. work.holds \subseteq Reach(Task, Fixed) /\ Task \subseteq ctx /\ work.holds \in SUBSET Records
  BY DEF SessionInv, WorkOK, Task
<1>2. Reach(Task, Fixed) \subseteq Known BY <1>1, KnownType, ReachGrows DEF Known
<1> QED BY <1>1, <1>2

LEMMA OpenSessionKeeps ==
    ASSUME SessionInv, OpenSession
    PROVE  SessionInv'
<1>0. /\ UNCHANGED <<ctx, mind, asked, work, seg, heads, plan, sent>> /\ UNCHANGED vars
      /\ worker' = "authorized"
      /\ memory' = [holds |-> Contents(Messages(TailAfter, Len(seg))), items |-> Positions(TailAfter, Len(seg))]
  BY DEF OpenSession
<1>1. TextInv' /\ Carries({}) /\ Grows /\ TypeOK' /\ RetainedOK' BY <1>0, QuietParts
<1>2. MindOK'
  <2>1. memory' \in [holds : SUBSET Records, items : SUBSET Nat] /\ memory'.holds \subseteq Known
    BY <1>0, RangeKnown
  <2> QED BY <1>0, <1>1, <2>1, MindKeeps DEF SessionInv, MindOK
<1>3. WorkOK' BY <1>0, <1>1, WorkKeeps
<1>4. SegOK' /\ HeadsOK' /\ PlanOK' BY <1>0, <1>1, SegKeeps, HeadsKeep, PlanKeeps
<1>5. IdleOK' BY <1>0 DEF IdleOK
<1>6. ProviderContentWasAvailable' BY <1>0 DEF SessionInv, ProviderContentWasAvailable
<1> QED BY <1>1, <1>2, <1>3, <1>4, <1>5, <1>6 DEF SessionInv

LEMMA KeepSegmentKeeps ==
    ASSUME SessionInv, KeepSegment
    PROVE  SessionInv'
<1>0. /\ UNCHANGED <<ctx, mind, asked, work, seg, heads, plan, memory, sent>> /\ UNCHANGED vars
      /\ worker' = "authorized"
  BY DEF KeepSegment
<1>1. TextInv' /\ Carries({}) /\ Grows /\ TypeOK' /\ RetainedOK' BY <1>0, QuietParts
<1>2. MindOK' /\ WorkOK' BY <1>0, <1>1, SameMindKeeps, WorkKeeps
<1>3. SegOK' /\ HeadsOK' /\ PlanOK' BY <1>0, <1>1, SegKeeps, HeadsKeep, PlanKeeps
<1>4. IdleOK' BY <1>0 DEF IdleOK
<1>5. ProviderContentWasAvailable' BY <1>0 DEF SessionInv, ProviderContentWasAvailable
<1> QED BY <1>1, <1>2, <1>3, <1>4, <1>5 DEF SessionInv

\* A new segment knows its task and nothing else.
LEMMA StartSegmentParts ==
    ASSUME SessionInv, UNCHANGED vars, NEW w \in {asked, work}, StartSegment(w),
           work' = w, asked' \in {asked, NoWork}, plan' = NoPlan,
           memory' = Nothing, sent' = NothingSent
    PROVE  SessionInv'
<1>0. TextInv' /\ Carries({}) /\ Grows /\ TypeOK' /\ RetainedOK' BY QuietParts
<1>1. /\ w \in [source : InUse' \cup {None}, holds : SUBSET Records]
      /\ w.holds \subseteq Reach({w.source} \ {None}, Fixed')
  BY <1>0, KnownType, TaskTextKeeps DEF SessionInv, WorkOK
<1>2. /\ ctx' = {w.source} \ {None} /\ mind' = w.holds /\ seg' = <<>> /\ heads' = <<>>
  BY DEF StartSegment
<1>3. MindOK'
  <2>1. Known' = Reach({w.source} \ {None}, Fixed') BY <1>2 DEF Known
  <2> QED BY <1>1, <1>2, <2>1 DEF MindOK, Nothing, NothingSent
<1>4. WorkOK'
  <2>1. Task' = ctx' BY <1>2 DEF Task
  <2>2. /\ asked' \in [source : InUse' \cup {None}, holds : SUBSET Records]
        /\ asked'.holds \subseteq Reach({asked'.source} \ {None}, Fixed')
    <3>1. CASE asked' = asked
      BY <1>0, <3>1, KnownType, TaskTextKeeps DEF SessionInv, WorkOK
    <3>2. CASE asked' = NoWork BY <3>2 DEF NoWork
    <3> QED BY <3>1, <3>2
  <2> QED BY <1>1, <2>1, <2>2 DEF WorkOK
<1>5. SegOK' /\ HeadsOK' BY <1>2 DEF SegOK, HeadsOK
<1>6. PlanOK' /\ IdleOK' BY DEF PlanOK, IdleOK
<1>7. ProviderContentWasAvailable' BY DEF NothingSent, ProviderContentWasAvailable
<1> QED BY <1>0, <1>3, <1>4, <1>5, <1>6, <1>7 DEF SessionInv

LEMMA NewSegmentKeeps ==
    ASSUME SessionInv, NewSegment \/ NextRun
    PROVE  SessionInv'
<1>1. CASE NewSegment
  BY <1>1, StartSegmentParts DEF NewSegment
<1>2. CASE NextRun
  <2>1. plan = NoPlan /\ memory = Nothing /\ sent = NothingSent
    BY <1>2 DEF NextRun, SessionInv, IdleOK
  <2> QED BY <1>2, <2>1, StartSegmentParts DEF NextRun
<1> QED BY <1>1, <1>2

LEMMA CloseSessionKeeps ==
    ASSUME SessionInv, CloseSession
    PROVE  SessionInv'
<1>0. /\ UNCHANGED <<ctx, mind, asked, work, seg, heads>> /\ worker' = "closed"
      /\ memory' = Nothing /\ plan' = NoPlan /\ sent' = NothingSent
      /\ UNCHANGED <<tables, draft, exporter, holds, faults>> /\ call' = NoCall
  BY DEF CloseSession
<1>1. RetentionInv'
  <2>0. RetentionInv BY DEF SessionInv, TextInv
  <2>1. TypeOK' BY <1>0, KnownType DEF TypeOK, tables
  <2>2. TablesInv' /\ Grows BY <1>0, <2>0, <2>1, QuietKeeps
  <2>3. DraftOK' BY <1>0, <2>0, <2>1, <2>2, CallersKeep
  <2>4. CallOK' BY <1>0 DEF CallOK, NoCall
  <2> QED BY <2>1, <2>2, <2>3, <2>4 DEF RetentionInv
<1>2. TextInv' /\ Carries({}) /\ Grows /\ TypeOK'
  BY <1>0, <1>1, QuietTexts DEF SessionInv, Carries, RetentionInv
<1>3. MindOK'
  <2>1. Nothing \in [holds : SUBSET Records, items : SUBSET Nat] /\ Nothing.holds = {} BY DEF Nothing
  <2>2. NothingSent \in [holds : SUBSET Records, before : SUBSET Records, whole : BOOLEAN]
        /\ NothingSent.holds = {}
    BY DEF NothingSent
  <2> QED BY <1>0, <1>2, <2>1, <2>2, MindKeeps DEF SessionInv, MindOK
<1>4. WorkOK' /\ SegOK' /\ HeadsOK' BY <1>0, <1>2, WorkKeeps, SegKeeps, HeadsKeep
<1>5. PlanOK' /\ IdleOK' BY <1>0 DEF PlanOK, IdleOK
<1>6. RetainedOK' BY <1>0 DEF RetainedOK, NoCall
<1>7. ProviderContentWasAvailable' BY <1>0 DEF NothingSent, ProviderContentWasAvailable
<1> QED BY <1>2, <1>3, <1>4, <1>5, <1>6, <1>7 DEF SessionInv

-----------------------------------------------------------------------------
\* Compaction.

LEMMA PrepareKeeps ==
    ASSUME SessionInv, NEW t \in 1..Len(seg), PrepareCompaction(t)
    PROVE  SessionInv'
<1>0. /\ UNCHANGED <<ctx, mind, asked, work, seg, heads, worker, memory, sent>> /\ UNCHANGED vars
      /\ plan' = [phase |-> "prepared", after |-> SummaryHead.through, through |-> t,
                  prev |-> SummaryHead.id, holds |-> {}, items |-> {}]
      /\ SummaryHead.through < t /\ worker = "authorized"
  BY DEF PrepareCompaction
<1>1. TextInv' /\ Carries({}) /\ Grows /\ TypeOK' /\ RetainedOK' BY <1>0, QuietParts
<1>2. MindOK' /\ WorkOK' BY <1>0, <1>1, SameMindKeeps, WorkKeeps
<1>3. SegOK' /\ HeadsOK' BY <1>0, <1>1, SegKeeps, HeadsKeep
<1>4. /\ SummaryHead.id \in Activities \cup {None} /\ SummaryHead.through \in Nat
      /\ IF SummaryHead.id = None THEN SummaryHead.through = 0
         ELSE \E i \in DOMAIN heads : heads[i].id = SummaryHead.id /\ heads[i].through = SummaryHead.through
  <2>1. CASE SummaryHead = NoHead BY <2>1 DEF NoHead
  <2>2. ASSUME NEW i \in DOMAIN heads, SummaryHead = heads[i]
        PROVE  /\ SummaryHead.id \in Activities /\ SummaryHead.id # None
               /\ SummaryHead.through \in Nat
    BY <2>2, RowTypes, ActivitiesAreNodes, RetentionAssumption DEF RetentionAssumption
  <2> QED BY <2>1, <2>2, SummaryFacts
<1>5. PlanOK'
  <2>1. t \in DOMAIN seg /\ t \in Nat BY RowTypes
  <2>2. plan' \in Plans BY <1>0, <1>4, <2>1 DEF Plans
  <2> QED BY <1>0, <1>4, <2>1, <2>2 DEF PlanOK
<1>6. IdleOK' BY <1>0 DEF IdleOK
<1>7. ProviderContentWasAvailable' BY <1>0 DEF SessionInv, ProviderContentWasAvailable
<1> QED BY <1>1, <1>2, <1>3, <1>5, <1>6, <1>7 DEF SessionInv

\* The messages and the summary that a compaction reads are among what the sources
\* of its last message lead to.
LEMMA CompactedKnown ==
    ASSUME SessionInv, plan # NoPlan, NEW I \in SUBSET DOMAIN heads, \A i \in I : heads[i].id = plan.prev
    PROVE  LET ids == Messages(plan.after, plan.through) \cup {h.id : h \in {heads[i] : i \in I}}
           IN  /\ Contents(ids) \cup work.holds \in SUBSET Records
               /\ Contents(ids) \cup work.holds \subseteq Reach(from[seg[plan.through].id], Fixed)
<1> DEFINE R == Reach(from[seg[plan.through].id], Fixed)
           ids == Messages(plan.after, plan.through) \cup {h.id : h \in {heads[i] : i \in I}}
<1>0. plan.through \in DOMAIN seg /\ plan \in Plans /\ plan.after < plan.through
  BY DEF SessionInv, PlanOK
<1>1. from[seg[plan.through].id] \in SUBSET Node /\ seg[plan.through].id \in Activities
  BY <1>0, MessageKnown DEF InUse
<1>2. work.holds \subseteq R /\ work.holds \in SUBSET Records
  <2>1. Task \subseteq from[seg[plan.through].id] BY <1>0 DEF SessionInv, SegOK
  <2>2. Reach(Task, Fixed) \subseteq R BY <1>1, <2>1, KnownType, ReachGrows
  <2> QED BY <2>2, TaskKnown DEF SessionInv, WorkOK, Task
<1>3. ASSUME NEW k \in Positions(plan.after, plan.through) PROVE holds[seg[k].id] \subseteq R
  <2>1. k \in DOMAIN seg /\ k \in 1..plan.through BY <1>0, RowTypes DEF Positions
  <2>2. from[seg[k].id] \subseteq from[seg[plan.through].id] BY <1>0, <2>1 DEF SessionInv, SegOK
  <2>3. from[seg[k].id] \in SUBSET Node BY <1>1, <2>2
  <2>4. Reach(from[seg[k].id], Fixed) \subseteq R BY <1>1, <2>2, <2>3, KnownType, ReachGrows
  <2> QED BY <2>1, <2>4, MessageKnown
<1>4. ASSUME NEW i \in I PROVE holds[heads[i].id] \subseteq R
  <2>1. heads[i].id \in Activities BY RowTypes
  <2>2. plan.prev # None BY <2>1, ActivitiesAreNodes, RetentionAssumption DEF RetentionAssumption
  <2>3. PICK j \in DOMAIN heads : heads[j].id = plan.prev /\ heads[j].through = plan.after
    BY <2>2 DEF SessionInv, PlanOK
  <2>4. heads[j].through <= plan.through BY <1>0, <2>3 DEF Plans
  <2> QED BY <1>0, <2>3, <2>4, HeadKnown
<1>5. \A e \in ids : holds[e] \subseteq R
  BY <1>3, <1>4 DEF Messages
<1>6. Contents(ids) \subseteq R BY <1>5 DEF Contents
<1>7. Contents(ids) \in SUBSET Records
  <2>1. \A k \in DOMAIN seg : seg[k].id \in Node BY RowTypes, ActivitiesAreNodes
  <2>2. \A i \in I : heads[i].id \in Node BY RowTypes, ActivitiesAreNodes
  <2>3. ids \subseteq Node BY <2>1, <2>2 DEF Messages, Positions
  <2> QED BY <2>3, KnownType DEF Contents, TypeOK
<1> QED BY <1>2, <1>6, <1>7

LEMMA ReadCompactionKeeps ==
    ASSUME SessionInv, ReadCompaction
    PROVE  SessionInv'
<1> DEFINE I == {j \in Committed : heads[j].id = plan.prev}
           ids == Messages(plan.after, plan.through) \cup {h.id : h \in {heads[i] : i \in I}}
           read == Contents(ids) \cup work.holds
           items == Positions(plan.after, plan.through) \cup UNION {h.items : h \in {heads[i] : i \in I}}
<1>0. /\ UNCHANGED <<ctx, mind, asked, work, seg, heads, worker, memory>> /\ UNCHANGED vars
      /\ plan' = [plan EXCEPT !.phase = "read", !.holds = read, !.items = items]
      /\ sent' = [holds |-> read, before |-> Withdrawn, whole |-> TRUE]
      /\ Eligible /\ worker = "authorized" /\ plan.phase = "prepared"
  BY DEF ReadCompaction, Readable
<1>1. TextInv' /\ Carries({}) /\ Grows /\ TypeOK' /\ RetainedOK' BY <1>0, QuietParts
<1>2. plan # NoPlan /\ plan \in Plans BY <1>0 DEF NoPlan, SessionInv, PlanOK
<1>3. read \in SUBSET Records /\ read \subseteq Reach(from[seg[plan.through].id], Fixed)
  <2>1. I \in SUBSET DOMAIN heads /\ \A i \in I : heads[i].id = plan.prev BY DEF Committed
  <2> QED BY <1>2, <2>1, CompactedKnown
<1>4. read \subseteq Known
  <2>1. plan.through \in DOMAIN seg BY <1>2 DEF SessionInv, PlanOK
  <2> QED BY <1>3, <2>1, MessageKnown
<1>5. MindOK'
  <2>1. Withdrawn \in SUBSET Records BY DEF Withdrawn
  <2>2. sent' \in [holds : SUBSET Records, before : SUBSET Records, whole : BOOLEAN] /\ sent'.holds = read
    BY <1>0, <1>3, <2>1
  <2> QED BY <1>0, <1>1, <1>4, <2>2, MindKeeps DEF SessionInv, MindOK
<1>6. WorkOK' BY <1>0, <1>1, WorkKeeps
<1>7. SegOK' /\ HeadsOK' BY <1>0, <1>1, SegKeeps, HeadsKeep
<1>8. ProviderContentWasAvailable'
  <2>1. Known \cap Withdrawn = {} BY <1>0, EligibleKnown
  <2> QED BY <1>0, <1>4, <2>1 DEF ProviderContentWasAvailable
<1>9. IdleOK' BY <1>0 DEF IdleOK
<1>10. PlanOK'
  <2>1. items \in SUBSET Nat
    <3>1. \A i \in I : heads[i].items \in SUBSET Nat BY RowTypes DEF Committed
    <3>2. Positions(plan.after, plan.through) \in SUBSET Nat BY RangeKnown
    <3> QED BY <3>1, <3>2
  <2> HIDE DEF items, read, I, ids
  <2>2. /\ plan' \in Plans /\ plan'.phase = "read" /\ plan'.holds = read
        /\ plan'.after = plan.after /\ plan'.through = plan.through /\ plan'.prev = plan.prev
    BY <1>0, <1>2, <1>3, <2>1 DEF Plans
  <2>3. /\ plan.through \in DOMAIN seg /\ plan.after < plan.through
        /\ IF plan.prev = None THEN plan.after = 0
           ELSE \E i \in DOMAIN heads : heads[i].id = plan.prev /\ heads[i].through = plan.after
    BY <1>2 DEF SessionInv, PlanOK
  <2>4. from'[seg[plan.through].id] = from[seg[plan.through].id] /\ Fixed' = Fixed
    BY <1>0 DEF vars, tables, Fixed
  <2> QED BY <1>0, <1>3, <2>2, <2>3, <2>4 DEF PlanOK
<1> QED BY <1>1, <1>5, <1>6, <1>7, <1>8, <1>9, <1>10 DEF SessionInv

LEMMA CommitCompactionKeeps ==
    ASSUME SessionInv, CommitCompaction
    PROVE  SessionInv'
<1> DEFINE s == Fresh(Activities)
           sources == from[seg[plan.through].id]
           refs == sources \cup ({plan.prev} \ {None})
           head == [id |-> s, through |-> plan.through, items |-> plan.items]
<1>0. /\ UNCHANGED <<rev, tomb, queue, ready, call, draft, exporter, faults>>
      /\ UNCHANGED <<ctx, mind, asked, work, seg, worker, memory>>
      /\ heads' = Append(heads, head) /\ plan' = NoPlan /\ sent' = NothingSent
      /\ body' = [body EXCEPT ![s] = "live"] /\ copy' = [copy EXCEPT ![s] = "live"]
      /\ from' = [from EXCEPT ![s] = sources] /\ holds' = [holds EXCEPT ![s] = plan.holds]
      /\ Cite(s, refs) /\ plan.phase = "read" /\ worker = "authorized"
  BY DEF CommitCompaction
<1>1. s \in Activities /\ body[s] = "none" BY FreshIsUnused DEF CommitCompaction
<1>2. plan # NoPlan /\ plan \in Plans /\ plan.through \in DOMAIN seg
  BY <1>0 DEF NoPlan, SessionInv, PlanOK
<1>3. sources \in SUBSET InUse /\ sources \in SUBSET Node BY <1>2, MessageKnown DEF InUse
<1>4. {plan.prev} \ {None} \in SUBSET InUse
  <2>1. ASSUME plan.prev # None PROVE plan.prev \in InUse
    <3>1. PICK i \in DOMAIN heads : heads[i].id = plan.prev /\ heads[i].through = plan.after
      BY <1>2, <2>1 DEF SessionInv, PlanOK
    <3>2. heads[i].through <= plan.through BY <1>2, <3>1 DEF SessionInv, PlanOK, Plans
    <3> QED BY <1>2, <3>1, <3>2, HeadKnown
  <2> QED BY <2>1
<1>5. plan.holds \in SUBSET Records /\ plan.holds \subseteq Reach(sources, Fixed)
  BY <1>0, <1>2 DEF Plans, SessionInv, PlanOK
<1> HIDE DEF s, sources
<1>6. refs \in SUBSET InUse /\ refs \in SUBSET Node BY <1>3, <1>4 DEF InUse
<1>7. plan.holds \subseteq Reach(refs, Fixed)
  <2>1. Reach(sources, Fixed) \subseteq Reach(refs, Fixed) BY <1>3, <1>6, KnownType, ReachGrows
  <2> QED BY <1>5, <2>1
<1> HIDE DEF refs
<1>8. FreshNode(s, refs, plan.holds)
  BY <1>0, <1>1, <1>3, <1>5, <1>6, <1>7, KnownType DEF FreshNode, TypeOK
<1>9. TextInv' /\ Carries({s})
  <2>1. \A e \in Activities \ {s} : copy'[e] = copy[e] /\ from'[e] = from[e]
    BY <1>0, KnownType DEF TypeOK
  <2>2. from'[s] = sources BY <1>0, <1>1, KnownType DEF TypeOK
  <2>3. from'[s] \subseteq refs BY <2>2 DEF refs
  <2> QED BY <1>5, <1>8, <2>1, <2>2, <2>3, FreshTexts DEF SessionInv
<1>10. TypeOK' /\ Grows BY <1>9 DEF TextInv, RetentionInv, Carries
<1>11. MindOK'
  <2>1. NothingSent \in [holds : SUBSET Records, before : SUBSET Records, whole : BOOLEAN]
        /\ NothingSent.holds = {}
    BY DEF NothingSent
  <2> QED BY <1>0, <1>10, <2>1, MindKeeps DEF SessionInv, MindOK
<1>12. WorkOK' /\ SegOK' BY <1>0, <1>9, <1>10, WorkKeeps, SegKeeps
<1>13. HeadsOK'
  <2>1. head \in [id : Activities, through : Nat, items : SUBSET Nat]
    BY <1>1, <1>2 DEF Plans
  <2>2. heads \in Seq([id : Activities, through : Nat, items : SUBSET Nat])
    BY DEF SessionInv, HeadsOK
  <2>3. /\ body'[s] # "none" /\ plan.through \in DOMAIN seg'
        /\ from'[s] = from'[seg'[plan.through].id]
    <3>1. seg[plan.through].id \in Activities /\ body[seg[plan.through].id] # "none"
      BY <1>2, MessageKnown DEF SessionInv, SegOK
    <3>2. seg[plan.through].id # s BY <1>1, <3>1
    <3>3. from'[seg[plan.through].id] = sources /\ from'[s] = sources
      BY <1>0, <1>1, <3>1, <3>2, KnownType DEF TypeOK, sources
    <3>4. s \in Node BY <1>1, ActivitiesAreNodes
    <3>5. body'[s] = "live" BY <1>0, <3>4, KnownType DEF TypeOK
    <3> QED BY <1>0, <1>2, <3>3, <3>5
  <2>4. \A i \in DOMAIN heads :
           /\ body'[heads[i].id] # "none" /\ heads[i].through \in DOMAIN seg'
           /\ from'[heads[i].id] = from'[seg'[heads[i].through].id]
    BY <1>0, <1>9, OldHeadsKeep
  <2>5. head.id = s /\ head.through = plan.through OBVIOUS
  <2> HIDE DEF head
  <2>6. /\ heads' \in Seq([id : Activities, through : Nat, items : SUBSET Nat])
        /\ \A i \in DOMAIN heads' : (i \in DOMAIN heads /\ heads'[i] = heads[i]) \/ heads'[i] = head
    BY <1>0, <2>1, <2>2
  <2> QED BY <2>3, <2>4, <2>5, <2>6 DEF HeadsOK
<1>14. PlanOK' /\ IdleOK' BY <1>0 DEF PlanOK, IdleOK
<1>15. RetainedOK'
  <2>1. \A n \in Results : n \in Node /\ n # s
    BY <1>1, RootsAreNodes, RetentionAssumption DEF RetentionAssumption
  <2>2. \A n \in Results : holds'[n] = holds[n] BY <1>0, <2>1, KnownType DEF TypeOK
  <2> QED BY <1>0, <1>9, <1>10, <2>2, RetainedKeeps
<1>16. ProviderContentWasAvailable' BY <1>0 DEF NothingSent, ProviderContentWasAvailable
<1> QED BY <1>9, <1>11, <1>12, <1>13, <1>14, <1>15, <1>16 DEF SessionInv

-----------------------------------------------------------------------------
\* The provider and the messages.

LEMMA CallProviderKeeps ==
    ASSUME SessionInv, CallProvider
    PROVE  SessionInv'
<1>0. /\ UNCHANGED <<ctx, mind, asked, work, seg, heads, plan, memory>> /\ UNCHANGED vars
      /\ worker' = "answered" /\ Eligible
  BY DEF CallProvider
<1>1. TextInv' /\ Carries({}) /\ Grows /\ TypeOK' /\ RetainedOK' BY <1>0, QuietParts
<1>2. /\ sent' \in [holds : SUBSET Records, before : SUBSET Records, whole : BOOLEAN]
      /\ sent'.holds \subseteq Known /\ sent'.before = Withdrawn
  <2>1. Withdrawn \in SUBSET Records BY DEF Withdrawn
  <2>2. CASE Summary = {}
    <3>1. sent' = [holds |-> memory.holds \cup work.holds, before |-> Withdrawn,
                   whole |-> memory.items = DOMAIN seg]
      BY <2>2 DEF CallProvider
    <3>2. memory.holds \subseteq Known /\ memory.holds \in SUBSET Records BY DEF SessionInv, MindOK
    <3> QED BY <2>1, <3>1, <3>2, TaskKnown
  <2>3. CASE Summary # {}
    <3> DEFINE tail == Messages(SummaryHead.through, Len(seg))
    <3>1. sent' = [holds |-> Contents(tail \cup Summary) \cup work.holds, before |-> Withdrawn,
                   whole |-> SummaryHead.items \cup
                               Positions(SummaryHead.through, Len(seg)) = DOMAIN seg]
      BY <2>3 DEF CallProvider
    <3>2. Contents(tail \cup Summary) = Contents(tail) \cup Contents(Summary) BY DEF Contents
    <3>3. Contents(tail) \in SUBSET Records /\ Contents(tail) \subseteq Known BY RangeKnown
    <3>4. Contents(Summary) \in SUBSET Records
      <4>1. Summary \subseteq Node BY SummaryKnown DEF InUse
      <4> QED BY <4>1, KnownType DEF Contents, TypeOK
    <3> HIDE DEF tail
    <3> QED BY <2>1, <3>1, <3>2, <3>3, <3>4, SummaryKnown, TaskKnown
  <2> QED BY <2>2, <2>3
<1>3. MindOK' BY <1>0, <1>1, <1>2, MindKeeps DEF SessionInv, MindOK
<1>4. WorkOK' /\ SegOK' /\ HeadsOK' /\ PlanOK'
  BY <1>0, <1>1, WorkKeeps, SegKeeps, HeadsKeep, PlanKeeps
<1>5. IdleOK' BY <1>0 DEF IdleOK
<1>6. ProviderContentWasAvailable'
  BY <1>0, <1>2, EligibleKnown DEF ProviderContentWasAvailable
<1> QED BY <1>1, <1>3, <1>4, <1>5, <1>6 DEF SessionInv

LEMMA SaveMessageKeeps ==
    ASSUME SessionInv, NEW refs \in SUBSET InUse, NEW known \in SUBSET Records,
           known \subseteq Reach(ctx \cup refs, Fixed), SaveMessage(refs, known),
           sent' \in {sent, NothingSent}, call' \in {call, NoCall}
    PROVE  SessionInv'
<1> DEFINE e == Fresh(Activities)
           message == [id |-> e, answer |-> call = NoCall]
<1>0. /\ UNCHANGED <<rev, tomb, queue, ready, draft, exporter, faults>>
      /\ UNCHANGED <<asked, work, heads, plan>>
      /\ ctx' = ctx \cup refs /\ mind' = mind \cup known
      /\ memory' = [holds |-> memory.holds \cup known, items |-> memory.items \cup {Len(seg) + 1}]
      /\ seg' = Append(seg, message) /\ worker' = "acting"
      /\ body' = [body EXCEPT ![e] = "live"] /\ copy' = [copy EXCEPT ![e] = "live"]
      /\ from' = [from EXCEPT ![e] = ctx \cup refs] /\ holds' = [holds EXCEPT ![e] = known]
      /\ Cite(e, ctx \cup refs \cup Summary)
  BY DEF SaveMessage
<1>1. e \in Activities /\ e \in Node /\ body[e] = "none"
  BY FreshIsUnused, ActivitiesAreNodes DEF SaveMessage
<1>2. /\ ctx \cup refs \in SUBSET InUse /\ ctx \cup refs \cup Summary \in SUBSET InUse
      /\ ctx \cup refs \in SUBSET Node /\ ctx \cup refs \cup Summary \in SUBSET Node
  BY SummaryKnown DEF SessionInv, MindOK, InUse
<1>3. known \subseteq Reach(ctx \cup refs \cup Summary, Fixed)
  <2>1. Reach(ctx \cup refs, Fixed) \subseteq Reach(ctx \cup refs \cup Summary, Fixed)
    BY <1>2, KnownType, ReachGrows
  <2> QED BY <2>1
<1> HIDE DEF e
<1>4. FreshNode(e, ctx \cup refs \cup Summary, known)
  BY <1>0, <1>1, <1>2, <1>3, KnownType DEF FreshNode, TypeOK
<1>5. from'[e] = ctx \cup refs /\ \A d \in Activities \ {e} : copy'[d] = copy[d] /\ from'[d] = from[d]
  BY <1>0, <1>1, KnownType DEF TypeOK
<1>6. TextInv' /\ Carries({e}) BY <1>4, <1>5, FreshTexts DEF SessionInv
<1>7. TypeOK' /\ Grows BY <1>6 DEF TextInv, RetentionInv, Carries
<1>8. MindOK'
  <2>1. ctx' \subseteq InUse' BY <1>0, <1>2, <1>7, KnownType, InUseStays
  <2>2. Known \subseteq Known' /\ known \subseteq Known'
    <3>1. Reach(ctx, Fixed) \subseteq Reach(ctx \cup refs, Fixed') 
          /\ Reach(ctx \cup refs, Fixed) \subseteq Reach(ctx \cup refs, Fixed')
      BY <1>2, <1>7, KnownType, KnownGrows DEF Grows
    <3> QED BY <1>0, <3>1 DEF Known
  <2>3. /\ memory' \in [holds : SUBSET Records, items : SUBSET Nat]
        /\ memory'.holds = memory.holds \cup known
    BY <1>0, RowTypes DEF SessionInv, MindOK
  <2>4. sent' \in [holds : SUBSET Records, before : SUBSET Records, whole : BOOLEAN]
        /\ sent'.holds \subseteq Known
    <3>1. CASE sent' = sent BY <3>1 DEF SessionInv, MindOK
    <3>2. CASE sent' = NothingSent BY <3>2 DEF NothingSent
    <3> QED BY <3>1, <3>2
  <2>5. mind' \in SUBSET Records /\ memory.holds \subseteq Known /\ mind \subseteq Known
    BY <1>0 DEF SessionInv, MindOK
  <2> QED BY <1>0, <2>1, <2>2, <2>3, <2>4, <2>5 DEF MindOK
<1>9. ctx \subseteq ctx' BY <1>0
<1>10. WorkOK' BY <1>0, <1>7, <1>9, WorkKeeps
<1>11. SegOK'
  <2>1. message \in [id : Activities, answer : BOOLEAN] /\ message.id = e BY <1>1
  <2>2. seg \in Seq([id : Activities, answer : BOOLEAN]) BY DEF SessionInv, SegOK
  <2> HIDE DEF message
  <2>3. /\ seg' \in Seq([id : Activities, answer : BOOLEAN])
        /\ DOMAIN seg' = 1..(Len(seg) + 1) /\ Len(seg) \in Nat /\ DOMAIN seg = 1..Len(seg)
        /\ seg'[Len(seg) + 1] = message /\ \A k \in DOMAIN seg : seg'[k] = seg[k]
    BY <1>0, <2>1, <2>2
  <2>4. ASSUME NEW k \in DOMAIN seg
        PROVE  /\ body'[seg[k].id] # "none" /\ from'[seg[k].id] = from[seg[k].id]
               /\ Task \subseteq from[seg[k].id] /\ from[seg[k].id] \subseteq ctx
    <3>1. seg[k].id \in Activities /\ seg[k].id \in Node BY RowTypes, ActivitiesAreNodes
    <3>2. body[seg[k].id] # "none" BY DEF SessionInv, SegOK
    <3> QED BY <1>6, <1>7, <3>1, <3>2 DEF Carries, Grows, SessionInv, SegOK
  <2>5. /\ body'[e] # "none" /\ from'[e] = ctx' /\ Task \subseteq ctx'
    BY <1>0, <1>1, <1>5, KnownType DEF TypeOK, SessionInv, WorkOK
  <2>6. Task' = Task BY <1>0 DEF Task
  <2>7. \A k \in DOMAIN seg' : from'[seg'[k].id] \subseteq ctx'
    BY <1>9, <2>1, <2>3, <2>4, <2>5
  <2>8. ASSUME NEW k \in DOMAIN seg', NEW j \in 1..k
        PROVE  from'[seg'[j].id] \subseteq from'[seg'[k].id]
    <3>1. j \in DOMAIN seg' BY <2>3
    <3>2. CASE k = Len(seg) + 1 BY <2>1, <2>3, <2>5, <2>7, <3>1, <3>2
    <3>3. CASE k # Len(seg) + 1
      <4>1. k \in DOMAIN seg /\ j \in DOMAIN seg BY <2>3, <3>3
      <4>2. from[seg[j].id] \subseteq from[seg[k].id] BY <4>1 DEF SessionInv, SegOK
      <4> QED BY <2>3, <2>4, <4>1, <4>2
    <3> QED BY <3>2, <3>3
  <2>9. \A k \in DOMAIN seg' : body'[seg'[k].id] # "none" /\ Task' \subseteq from'[seg'[k].id]
    BY <2>1, <2>3, <2>4, <2>5, <2>6
  <2> QED BY <2>3, <2>7, <2>8, <2>9 DEF SegOK
<1>12. HeadsOK' /\ PlanOK' BY <1>0, <1>6, <1>7, HeadsKeep, PlanKeeps
<1>13. IdleOK' BY <1>0 DEF IdleOK
<1>14. RetainedOK'
  <2>1. \A n \in Results : n \in Node /\ n # e
    BY <1>1, RootsAreNodes, RetentionAssumption DEF RetentionAssumption
  <2>2. \A n \in Results : holds'[n] = holds[n] BY <1>0, <2>1, KnownType DEF TypeOK
  <2>3. CASE call' = call BY <1>6, <1>7, <2>2, <2>3, RetainedKeeps
  <2>4. CASE call' = NoCall BY <2>4 DEF RetainedOK, NoCall
  <2> QED BY <2>3, <2>4
<1>15. ProviderContentWasAvailable'
  BY DEF NothingSent, SessionInv, ProviderContentWasAvailable
<1> QED BY <1>6, <1>8, <1>10, <1>11, <1>12, <1>13, <1>14, <1>15 DEF SessionInv

LEMMA AnswerKeeps ==
    ASSUME SessionInv, SaveAnswer \/ SaveToolResult
    PROVE  SessionInv'
<1>1. CASE SaveAnswer
  <2>1. ctx \cup {} = ctx /\ {} \in SUBSET InUse OBVIOUS
  <2>2. sent.holds \in SUBSET Records /\ sent.holds \subseteq Reach(ctx \cup {}, Fixed)
    BY <2>1 DEF SessionInv, MindOK, Known
  <2> QED BY <1>1, <2>1, <2>2, SaveMessageKeeps DEF SaveAnswer
<1>2. CASE SaveToolResult
  <2> DEFINE refs == {call.node, call.result}
  <2>1. /\ call.phase = "retained" /\ SaveMessage(refs, call.holds) /\ call' = NoCall /\ sent' = sent
    BY <1>2 DEF SaveToolResult
  <2>2. /\ refs \in SUBSET InUse /\ call.holds \subseteq holds[call.result]
        /\ call.holds \in SUBSET Records /\ call.result \in Results /\ call.result \in Node
    BY <2>1, KnownType, RootsAreNodes DEF SessionInv, RetainedOK, TypeOK, NoCall
  <2>3. call.result \notin Records BY <2>2, RetentionAssumption DEF RetentionAssumption
  <2>4. refs \in SUBSET Node /\ ctx \cup refs \in SUBSET Node BY <2>2, KnownType DEF InUse
  <2>5. holds[call.result] \subseteq Reach(ctx \cup refs, Fixed)
    <3>1. /\ call.result \in Reach(ctx \cup refs, Fixed)
          /\ \A p \in Fixed : p[1] \in Reach(ctx \cup refs, Fixed) => p[2] \in Reach(ctx \cup refs, Fixed)
      BY <2>4, KnownType, ReachClosed
    <3>2. Origins(call.result) \subseteq Reach(ctx \cup refs, Fixed)
      BY <2>2, <2>3, <3>1, KnownType, OriginsOfFixed, ZenonT(60)
    <3>3. holds[call.result] \subseteq Origins(call.result)
      BY <2>2 DEF SessionInv, TextInv, RetentionInv, TablesInv, TracedOK
    <3> QED BY <3>2, <3>3
  <2> HIDE DEF refs
  <2> QED BY <2>1, <2>2, <2>5, SaveMessageKeeps
<1> QED BY <1>1, <1>2


-----------------------------------------------------------------------------
\* The calls of tools and everybody else.

\* A call that the worker begins, or that the others make, finds the session as it is.
LEMMA ReadKeeps ==
    ASSUME SessionInv, (\E n \in Node : Read(n)) \/ (ReadConflict /\ UNCHANGED session)
    PROVE  SessionInv'
<1>0. UNCHANGED session /\ UNCHANGED <<tables, draft, exporter, holds, faults>>
      /\ call'.phase # "retained"
  <2>1. CASE \E n \in Node : Read(n) BY <2>1 DEF Read, ReadNode
  <2>2. CASE ReadConflict /\ UNCHANGED session BY <2>2 DEF ReadConflict, NoCall
  <2> QED BY <2>1, <2>2
<1>1. RetentionInv'
  <2>1. Next BY DEF Next, Read
  <2> QED BY <2>1, InvStep DEF SessionInv, TextInv
<1>2. TextInv' /\ Carries({}) BY <1>0, <1>1, QuietTexts DEF SessionInv
<1>3. RetainedOK' BY <1>0 DEF RetainedOK
<1> QED BY <1>0, <1>2, <1>3, SessionKept

LEMMA RetainResultSession ==
    ASSUME SessionInv, RetainResult(RunSources), UNCHANGED session
    PROVE  SessionInv'
<1>0. RunSources \in SUBSET InUse BY SummaryKnown
<1>1. TextInv' /\ Carries({}) BY <1>0, RetainTexts DEF SessionInv
<1> DEFINE o == Fresh(Results)
<1>2. /\ o \in Results /\ o \in Node /\ body[o] = "none" /\ call.phase = "read"
  BY FreshIsUnused, RootsAreNodes DEF RetainResult
<1> HIDE DEF o
<1>3. /\ body' = [body EXCEPT ![o] = "live"] /\ holds' = [holds EXCEPT ![o] = call.holds]
      /\ call' = [phase |-> "retained", node |-> call.node, result |-> o, holds |-> call.holds]
  BY DEF RetainResult, o
<1>4. call.node \in InUse
  <2>1. call.node \in Node BY <1>2, KnownType DEF TypeOK, NoCall
  <2> QED BY <1>2, <2>1 DEF SessionInv, TextInv, RetentionInv, CallOK, InUse
<1>5. body'[o] = "live" /\ holds'[o] = call.holds BY <1>2, <1>3, KnownType DEF TypeOK
<1>6. call.node \in InUse' BY <1>1, <1>4, KnownType, InUseStays DEF TextInv, RetentionInv, Carries
<1>7. o \in InUse' BY <1>2, <1>5 DEF InUse
<1>8. RetainedOK' BY <1>3, <1>5, <1>6, <1>7 DEF RetainedOK
<1> QED BY <1>1, <1>8, SessionKept

LEMMA RunSubmitsKeeps ==
    ASSUME SessionInv, NEW r \in Records, RunSubmits(r)
    PROVE  SessionInv'
<1>0. CheckSubmission(r, RunSources, mind) /\ UNCHANGED session BY DEF RunSubmits
<1>1. RunSources \in SUBSET InUse /\ RunSources \in SUBSET Node BY SummaryKnown DEF InUse
<1>2. mind \in SUBSET Records /\ mind \subseteq Reach(RunSources, Fixed)
  <2>1. Known \subseteq Reach(RunSources, Fixed)
    BY <1>1, KnownType, ReachGrows DEF Known, RunSources
  <2> QED BY <2>1 DEF SessionInv, MindOK
<1>3. RetentionInv' BY <1>0, <1>1, <1>2, SubmissionKeeps DEF SessionInv, TextInv
<1>4. UNCHANGED <<tables, call, exporter, holds>> BY <1>0 DEF CheckSubmission
<1>5. TextInv' /\ Carries({}) BY <1>3, <1>4, QuietTexts DEF SessionInv
<1>6. Grows BY <1>5 DEF Carries
<1>7. RetainedOK' BY <1>4, <1>5, <1>6, RetainedKeeps
<1> QED BY <1>0, <1>5, <1>7, SessionKept

\* An event that cites the run's context.
LEMMA PublishTexts ==
    ASSUME SessionInv, NEW known \in SUBSET Records, known \subseteq Known, Publish(known)
    PROVE  /\ TextInv' /\ Carries({Fresh(Events)}) /\ RetainedOK'
           /\ Fresh(Events) \in InUse' /\ Fresh(Events) # None
           /\ mind \subseteq Reach({Fresh(Events)}, Fixed')
<1> DEFINE e == Fresh(Events)
<1>0. /\ UNCHANGED <<rev, copy, from, tomb, queue, ready, call, draft, exporter, faults>>
      /\ body' = [body EXCEPT ![e] = "live"] /\ holds' = [holds EXCEPT ![e] = known]
      /\ Cite(e, RunSources)
  BY DEF Publish
<1>1. e \in Events /\ e \in Node /\ body[e] = "none" /\ e \notin Activities /\ e \notin Results
      /\ e \notin Records /\ e # None
  BY FreshIsUnused, RetentionAssumption DEF Publish, Node, RetentionAssumption
<1> HIDE DEF e
<1>2. RunSources \in SUBSET InUse /\ RunSources \in SUBSET Node BY SummaryKnown DEF InUse
<1>3. Known \subseteq Reach(RunSources, Fixed) BY <1>2, KnownType, ReachGrows DEF Known, RunSources
<1>4. FreshNode(e, RunSources, known)
  BY <1>0, <1>1, <1>2, <1>3, KnownType DEF FreshNode, TypeOK
<1>5. TextInv' /\ Carries({e}) BY <1>0, <1>1, <1>4, FreshTexts DEF SessionInv
<1>6. TypeOK' /\ Grows /\ body'[e] = "live"
  BY <1>4, FreshNodeFacts DEF SessionInv, TextInv
<1>7. RetainedOK'
  <2>1. \A n \in Results : n \in Node /\ n # e BY <1>1, RootsAreNodes
  <2>2. \A n \in Results : holds'[n] = holds[n] BY <1>0, <2>1, KnownType DEF TypeOK
  <2> QED BY <1>0, <1>5, <1>6, <2>2, RetainedKeeps
<1>8. mind \subseteq Reach({e}, Fixed')
  <2>1. {e} \in SUBSET Node /\ Fixed' \in SUBSET (Node \X Node) BY <1>1, <1>6, FixedType DEF Fixed, TypeOK
  <2>2. /\ e \in Reach({e}, Fixed') /\ Reach({e}, Fixed') \in SUBSET Node
        /\ \A p \in Fixed' : p[1] \in Reach({e}, Fixed') => p[2] \in Reach({e}, Fixed')
    BY <2>1, ReachClosed
  <2>3. RunSources \subseteq Reach({e}, Fixed')
    <3>1. ASSUME NEW s \in RunSources PROVE s \in Reach({e}, Fixed')
      <4>1. s \in Captured(RunSources) BY <1>2, CapturedFacts DEF SessionInv, TextInv
      <4>2. <<e, s>> \in edges' BY <1>0, <4>1 DEF Cite
      <4>3. <<e, s>> \in Fixed' BY <1>1, <4>2 DEF Fixed
      <4> QED BY <2>2, <4>3
    <3> QED BY <3>1
  <2>4. Reach(RunSources, Fixed') \subseteq Reach({e}, Fixed') BY <1>2, <2>1, <2>2, <2>3, ReachLeast
  <2>5. Reach(RunSources, Fixed) \subseteq Reach(RunSources, Fixed')
    BY <1>2, <1>6, KnownType, KnownGrows DEF Grows
  <2> QED BY <1>3, <2>4, <2>5 DEF SessionInv, MindOK
<1>9. e \in InUse' BY <1>1, <1>6 DEF InUse
<1> QED BY <1>1, <1>5, <1>7, <1>8, <1>9 DEF e

LEMMA SendMessageKeeps ==
    ASSUME SessionInv, SendMessage
    PROVE  SessionInv'
<1>1. mind \in SUBSET Records /\ mind \subseteq Known BY DEF SessionInv, MindOK
<1>2. TextInv' /\ Carries({Fresh(Events)}) /\ RetainedOK' BY <1>1, PublishTexts DEF SendMessage
<1> QED BY <1>2, SessionKept DEF SendMessage

LEMMA RequestWorkKeeps ==
    ASSUME SessionInv, RequestWork
    PROVE  SessionInv'
<1> DEFINE e == Fresh(Events)
<1>0. /\ asked' = [source |-> e, holds |-> mind]
      /\ UNCHANGED <<ctx, mind, work, seg, heads, plan, worker, memory, sent>> /\ Publish({})
  BY DEF RequestWork
<1>1. {} \in SUBSET Records /\ {} \subseteq Known OBVIOUS
<1>2. /\ TextInv' /\ Carries({e}) /\ RetainedOK' /\ e \in InUse' /\ e # None
      /\ mind \subseteq Reach({e}, Fixed')
  BY <1>0, <1>1, PublishTexts
<1> HIDE DEF e
<1>3. Grows /\ TypeOK' BY <1>2 DEF Carries, TextInv, RetentionInv
<1>4. MindOK' BY <1>0, <1>3, SameMindKeeps
<1>5. WorkOK'
  <2>1. /\ asked' \in [source : InUse' \cup {None}, holds : SUBSET Records]
        /\ asked'.holds = mind /\ {asked'.source} \ {None} = {e}
    BY <1>0, <1>2 DEF SessionInv, MindOK
  <2> QED BY <1>0, <1>2, <1>3, <2>1, WorkKeeps
<1>6. SegOK' /\ HeadsOK' /\ PlanOK' BY <1>0, <1>2, <1>3, SegKeeps, HeadsKeep, PlanKeeps
<1>7. IdleOK' BY <1>0 DEF SessionInv, IdleOK
<1>8. ProviderContentWasAvailable' BY <1>0 DEF SessionInv, ProviderContentWasAvailable
<1> QED BY <1>2, <1>4, <1>5, <1>6, <1>7, <1>8 DEF SessionInv

\* The saves and the cleanup keep what is retained of a tool's answer.
LEMMA OthersKeep ==
    ASSUME SessionInv, Others
    PROVE  SessionInv'
<1>1. TextInv' /\ Carries({}) BY OthersTexts DEF SessionInv
<1>2. call' = call
  BY DEF Others, OwnerSubmits, CheckSubmission, Retire, SaveRecord, SaveConflict, AdvanceCleanup, CleanItem
<1>3. \A n \in Results : holds'[n] = holds[n]
  <2>1. CASE SaveRecord
    <3>1. draft.rec \in Records BY <2>1, SavedIsMutable DEF SessionInv, TextInv
    <3>2. \A n \in Results : n \in Node /\ n # draft.rec
      BY <3>1, RootsAreNodes, RetentionAssumption DEF RetentionAssumption
    <3> QED BY <2>1, <3>2, KnownType DEF SaveRecord, TypeOK
  <2>2. CASE holds' = holds BY <2>2
  <2>3. SaveRecord \/ holds' = holds
    BY DEF Others, OwnerSubmits, CheckSubmission, Retire, SaveConflict, AdvanceCleanup, CleanItem
  <2> QED BY <2>1, <2>2, <2>3
<1>4. Grows BY <1>1 DEF Carries
<1>5. RetainedOK' BY <1>1, <1>2, <1>3, <1>4, RetainedKeeps
<1> QED BY <1>1, <1>5, SessionKept DEF Others

LEMMA SessionStart == SessionInit => SessionInv
<1> SUFFICES ASSUME SessionInit PROVE SessionInv OBVIOUS
<1>0. /\ Init /\ ctx = {} /\ mind = {} /\ asked = NoWork /\ work = NoWork
      /\ seg = <<>> /\ heads = <<>> /\ plan = NoPlan /\ worker = "closed"
      /\ memory = Nothing /\ sent = NothingSent
  BY DEF SessionInit
<1>1. RetentionInv BY <1>0, InitInv
<1>2. \A e \in Activities : e \in Node /\ e \notin Records /\ copy[e] = "none" /\ from[e] = {}
  BY <1>0, ActivitiesAreNodes DEF Init
<1>3. \A e \in Activities : body[e] = "none" BY <1>0, <1>2 DEF Init
<1>4. TextInv BY <1>1, <1>2, <1>3 DEF TextInv, TextsOK, TextOK, CopiesOK
<1>5. MindOK BY <1>0 DEF MindOK, Nothing, NothingSent
<1>6. WorkOK BY <1>0 DEF WorkOK, NoWork, Task
<1>7. SegOK /\ HeadsOK BY <1>0 DEF SegOK, HeadsOK
<1>8. PlanOK /\ IdleOK BY <1>0 DEF PlanOK, IdleOK
<1>9. RetainedOK BY <1>0 DEF Init, RetainedOK, NoCall
<1>10. ProviderContentWasAvailable BY <1>0 DEF ProviderContentWasAvailable, NothingSent
<1> QED BY <1>4, <1>5, <1>6, <1>7, <1>8, <1>9, <1>10 DEF SessionInv

LEMMA SessionStep == SessionInv /\ [SessionNext]_cvars => SessionInv'
<1> SUFFICES ASSUME SessionInv, [SessionNext]_cvars PROVE SessionInv' OBVIOUS
<1>1. CASE UNCHANGED cvars
  <2>1. UNCHANGED vars /\ UNCHANGED session BY <1>1 DEF cvars
  <2>2. TextInv' /\ Carries({}) /\ RetainedOK' BY <2>1, QuietParts
  <2> QED BY <2>1, <2>2, SessionKept
<1>2. CASE OpenSession \/ KeepSegment \/ NewSegment \/ CloseSession \/ NextRun
  BY <1>2, OpenSessionKeeps, KeepSegmentKeeps, NewSegmentKeeps, CloseSessionKeeps
<1>3. CASE \/ \E t \in 1..Len(seg) : PrepareCompaction(t)
           \/ ReadCompaction \/ CommitCompaction
  BY <1>3, PrepareKeeps, ReadCompactionKeeps, CommitCompactionKeeps
<1>4. CASE CallProvider \/ SaveAnswer \/ SaveToolResult
  BY <1>4, CallProviderKeeps, AnswerKeeps
<1>5. CASE (\E n \in Node : Read(n)) \/ Observe
  BY <1>5, ReadKeeps, RetainResultSession DEF Observe
<1>6. CASE \/ \E r \in Records : RunSubmits(r)
           \/ SendMessage \/ RequestWork \/ Others
  BY <1>6, RunSubmitsKeeps, SendMessageKeeps, RequestWorkKeeps, OthersKeep
<1> QED BY <1>1, <1>2, <1>3, <1>4, <1>5, <1>6 DEF SessionNext

\* The invariant holds in every session, with any number of records, messages,
\* summaries, runs and revisions.
THEOREM SessionInvariance == SessionSpec => []SessionInv
BY SessionStart, SessionStep, PTL DEF SessionSpec

-----------------------------------------------------------------------------
\* What the invariant shows.

\* Nothing that was withdrawn before the provider was called reaches it: not in what
\* the worker holds in memory, not in a summary, not in the text of the task.
THEOREM ProviderContent == SessionSpec => []ProviderContentWasAvailable
<1>1. SessionInv => ProviderContentWasAvailable BY DEF SessionInv
<1> QED BY <1>1, SessionInvariance, PTL

\* What a session derives, publishes and submits leads to all that it was written
\* from: material that may be opened carries nothing withdrawn.
THEOREM SessionsStayClean == SessionSpec => []AvailableIsClean
<1>1. SessionInv => AvailableIsClean BY OpenIsClean DEF SessionInv, TextInv
<1> QED BY <1>1, SessionInvariance, PTL

\* A completed deletion is total for the messages and summaries of contexts too,
\* those of abandoned segments and those saved while the job ran included.
THEOREM SessionDeletionTotal == SessionSpec => []CompletedDeletionIsTotal
<1>1. SessionInv => CompletedDeletionIsTotal
  <2> SUFFICES ASSUME SessionInv, NEW r \in Records, NEW n \in Node,
                      job[r] = [status |-> "complete", delete |-> TRUE],
                      Stored(n), r \in holds[n]
               PROVE  FALSE
    BY DEF CompletedDeletionIsTotal, Remains
  <2>1. body[n] = "gone" BY DeletedIsGone DEF SessionInv, TextInv
  <2>2. n \in Activities /\ copy[n] = "live" BY <2>1 DEF Stored
  <2>3. r \in Reach(from[n], Fixed) BY <2>1, <2>2 DEF SessionInv, TextInv, TextsOK, TextOK
  <2>4. r \in Roots /\ from[n] \in SUBSET Node /\ job[r].status = "complete" /\ job[r].delete
    BY <2>2, KnownType DEF Roots, TypeOK
  <2>5. PICK m \in from[n] : item[r][m] = "done"
    BY <2>3, <2>4, ReachIsListed DEF SessionInv, TextInv
  <2> QED BY <2>2, <2>4, <2>5 DEF SessionInv, TextInv, CopiesOK, Paid
<1> QED BY <1>1, SessionInvariance, PTL
-----------------------------------------------------------------------------
\* No view of a conversation has a hole.

Answers == {k \in DOMAIN seg : seg[k].answer}
Full == {s \in DOMAIN seg : Len(seg) - s >= Window /\ \E k \in Answers : s < k}
After == {k \in Answers : Max(Full) < k}

TailShape ==
    /\ TailAfter = IF Full = {} THEN 0 ELSE Min(After) - 1
    /\ TailAfter \in 0..Len(seg) /\ Len(seg) \in Nat /\ DOMAIN seg = 1..Len(seg)
    /\ Full # {} => /\ Max(Full) \in Full /\ \A s \in Full : s <= Max(Full)
                    /\ Min(After) \in After /\ \A k \in After : Min(After) <= k

LEMMA TailFacts == SegOK => TailShape
<1> SUFFICES ASSUME SegOK PROVE TailShape OBVIOUS
<1>1. Len(seg) \in Nat /\ DOMAIN seg = 1..Len(seg) BY DEF SegOK
<1>2. TailAfter = IF Full = {} THEN 0 ELSE Min(After) - 1 BY DEF TailAfter, Full, Answers, After
<1>3. ASSUME Full # {}
      PROVE  /\ Max(Full) \in Full /\ \A s \in Full : s <= Max(Full)
             /\ Min(After) \in After /\ \A k \in After : Min(After) <= k
  <2>1. Full \in SUBSET (1..Len(seg)) BY <1>1 DEF Full
  <2>2. Max(Full) \in Full /\ \A s \in Full : s <= Max(Full) BY <1>1, <1>3, <2>1, MaxFacts
  <2>3. \E k \in Answers : Max(Full) < k BY <2>2 DEF Full
  <2>4. After \in SUBSET Nat /\ After # {} BY <1>1, <2>3 DEF After, Answers
  <2> QED BY <2>2, <2>4, MinFacts
<1>4. \A k \in After : k \in 1..Len(seg) BY <1>1 DEF After, Answers
<1> QED BY <1>1, <1>2, <1>3, <1>4 DEF TailShape

\* As messages are added, the tail that fits the window never begins earlier.
LEMMA TailMoves ==
    ASSUME SegOK, SegOK', seg' = seg \/ \E m : seg' = Append(seg, m)
    PROVE  TailAfter <= TailAfter'
<1>1. CASE seg' = seg
  <2>1. TailAfter' = TailAfter BY <1>1 DEF TailAfter
  <2> QED BY <2>1, TailFacts DEF TailShape
<1>2. ASSUME NEW m, seg' = Append(seg, m) PROVE TailAfter <= TailAfter'
  <2>1. /\ DOMAIN seg = 1..Len(seg) /\ Len(seg) \in Nat
        /\ DOMAIN seg' = 1..(Len(seg) + 1) /\ Len(seg)' = Len(seg) + 1
        /\ \A k \in DOMAIN seg : seg'[k] = seg[k]
    BY <1>2 DEF SegOK
  <2>0. TailShape' BY TailFacts, PTL
  <2>2. /\ TailAfter' = IF Full' = {} THEN 0 ELSE Min(After)' - 1
        /\ TailAfter' \in 0..Len(seg)'
        /\ Full' # {} => /\ Max(Full)' \in Full' /\ \A s \in Full' : s <= Max(Full)'
                         /\ Min(After)' \in After'
    BY <2>0, Zenon DEF TailShape
  <2>3. Answers \subseteq Answers' /\ \A k \in Answers' : k \in DOMAIN seg => k \in Answers
    BY <2>1 DEF Answers
  <2>4. Full \subseteq Full'
    <3>1. Window \in Nat BY ContextAssumption DEF ContextAssumption
    <3> QED BY <2>1, <2>3, <3>1 DEF Full
  <2>5. CASE Full = {} BY <2>1, <2>2, <2>5, TailFacts DEF TailShape
  <2>6. CASE Full # {}
    <3>1. Max(Full) \in Full' /\ Max(Full) \in DOMAIN seg BY <2>4, <2>6, TailFacts DEF Full, TailShape
    <3>2. Max(Full) <= Max(Full)' /\ Max(Full)' \in DOMAIN seg' BY <2>2, <3>1 DEF Full
    <3>3. Min(After)' \in Answers' /\ Max(Full)' < Min(After)' BY <2>2, <3>1 DEF After
    <3>4. Min(After)' \in DOMAIN seg' BY <3>3 DEF Answers
    <3>5. Min(After) \in DOMAIN seg BY <2>6, TailFacts DEF After, Answers, TailShape
    <3>6. Min(After) <= Min(After)'
      <4>1. CASE Min(After)' \in DOMAIN seg
        <5>1. Min(After)' \in After BY <2>1, <2>3, <3>1, <3>2, <3>3, <3>4, <4>1 DEF After
        <5> QED BY <2>6, <5>1, TailFacts DEF TailShape
      <4>2. CASE Min(After)' \notin DOMAIN seg BY <2>1, <3>4, <3>5, <4>2
      <4> QED BY <4>1, <4>2
    <3> QED BY <2>1, <2>2, <2>6, <3>1, <3>4, <3>5, <3>6, TailFacts DEF TailShape
  <2> QED BY <2>5, <2>6
<1> QED BY <1>1, <1>2

\* The worker holds the messages from some tail on, and a summary stands for all
\* before its last.
ViewOK ==
    /\ worker # "closed" => \E t \in 0..TailAfter : memory.items = (t + 1)..Len(seg)
    /\ \A i \in DOMAIN heads : /\ heads[i].items = 1..heads[i].through
                               /\ \A j \in DOMAIN heads : heads[i].id = heads[j].id => i = j
    /\ plan.phase = "read" => plan.items = 1..plan.through
    /\ ViewIsWhole

LEMMA ViewReads ==
    ASSUME SessionInv, ViewOK, ReadCompaction
    PROVE  plan'.phase = "read" /\ plan'.items = 1..plan'.through
<1> DEFINE I == {j \in Committed : heads[j].id = plan.prev}
           items == Positions(plan.after, plan.through) \cup UNION {h.items : h \in {heads[i] : i \in I}}
<1>0. \E read : plan' = [plan EXCEPT !.phase = "read", !.holds = read, !.items = items]
  BY Zenon DEF ReadCompaction
<1>1. plan # NoPlan /\ plan \in Plans /\ plan.through \in DOMAIN seg /\ plan.after < plan.through
  BY DEF ReadCompaction, NoPlan, SessionInv, PlanOK
<1>2. plan.prev # None => I # {} BY DEF ReadCompaction
<1>3. items = 1..plan.through
  <2>1. Positions(plan.after, plan.through) = (plan.after + 1)..plan.through
    BY <1>1, RowTypes DEF Positions, Plans
  <2>2. CASE plan.prev = None
    <3>1. \A i \in DOMAIN heads : heads[i].id # None
      BY RowTypes, ActivitiesAreNodes, RetentionAssumption DEF RetentionAssumption
    <3>2. I = {} BY <2>2, <3>1 DEF Committed
    <3>3. plan.after = 0 BY <1>1, <2>2 DEF SessionInv, PlanOK
    <3> QED BY <2>1, <3>2, <3>3
  <2>3. CASE plan.prev # None
    <3>1. PICK i \in DOMAIN heads : heads[i].id = plan.prev /\ heads[i].through = plan.after
      BY <1>1, <2>3 DEF SessionInv, PlanOK
    <3>2. I = {i}
      <4>1. \A j \in I : j = i BY <3>1 DEF ViewOK, Committed
      <4> QED BY <1>2, <2>3, <4>1
    <3>3. heads[i].items = 1..plan.after BY <3>1 DEF ViewOK
    <3>4. items = (plan.after + 1)..plan.through \cup 1..plan.after BY <2>1, <3>2, <3>3
    <3>5. plan.after \in Nat /\ plan.through \in Nat BY <1>1 DEF Plans
    <3> HIDE DEF items
    <3> QED BY <1>1, <3>4, <3>5
  <2> QED BY <2>2, <2>3
<1> HIDE DEF items
<1> QED BY <1>0, <1>1, <1>3 DEF Plans

LEMMA ViewCalls ==
    ASSUME SessionInv, ViewOK, CallProvider
    PROVE  sent'.whole
<1>1. TailAfter <= SummaryHead.through /\ worker = "authorized" BY DEF CallProvider, WindowHolds
<1>2. Len(seg) \in Nat /\ DOMAIN seg = 1..Len(seg) /\ TailAfter \in Nat BY TailFacts DEF SessionInv, TailShape
<1>3. CASE SummaryHead = NoHead /\ Summary = {}
  <2>1. SummaryHead.through = 0 BY <1>3 DEF NoHead
  <2>2. PICK t \in 0..TailAfter : memory.items = (t + 1)..Len(seg) BY <1>1 DEF ViewOK
  <2>3. t = 0 BY <1>1, <1>2, <2>1
  <2>4. memory.items = DOMAIN seg BY <1>2, <2>2, <2>3
  <2>5. \E h : sent' = [holds |-> h, before |-> Withdrawn, whole |-> memory.items = DOMAIN seg]
    BY <1>3 DEF CallProvider
  <2>6. sent'.whole = (memory.items = DOMAIN seg) BY <2>5
  <2> QED BY <2>4, <2>6
<1>4. ASSUME NEW i \in DOMAIN heads, SummaryHead = heads[i], Summary = {heads[i].id}
      PROVE  sent'.whole
  <2>1. SummaryHead.through \in DOMAIN seg /\ SummaryHead.through \in Nat
    BY <1>4, RowTypes DEF SessionInv, HeadsOK
  <2>2. SummaryHead.items = 1..SummaryHead.through BY <1>4 DEF ViewOK
  <2>3. Positions(SummaryHead.through, Len(seg)) = (SummaryHead.through + 1)..Len(seg)
    BY <1>2, <2>1 DEF Positions
  <2>4. SummaryHead.items \cup Positions(SummaryHead.through, Len(seg)) = DOMAIN seg
    BY <1>2, <2>1, <2>2, <2>3
  <2>5. Summary # {} BY <1>4
  <2>6. \E h : sent' = [holds |-> h, before |-> Withdrawn,
                       whole |-> SummaryHead.items \cup
                                   Positions(SummaryHead.through, Len(seg)) = DOMAIN seg]
    BY <2>5 DEF CallProvider
  <2>7. sent'.whole = (SummaryHead.items \cup
                          Positions(SummaryHead.through, Len(seg)) = DOMAIN seg)
    BY <2>6
  <2> QED BY <2>4, <2>7
<1> QED BY <1>3, <1>4, SummaryFacts

\* The steps that touch neither messages nor what the worker holds of them.
LEMMA SameView ==
    ASSUME SessionInv, ViewOK, UNCHANGED <<seg, heads, memory>>, worker = "closed" => worker' = "closed",
           plan' = plan \/ plan'.phase # "read" \/ plan'.items = 1..plan'.through,
           sent' = sent \/ sent'.whole
    PROVE  ViewOK'
<1>1. TailAfter' = TailAfter BY DEF TailAfter
<1>2. worker' # "closed" => \E t \in 0..TailAfter' : memory'.items = (t + 1)..Len(seg')
  BY <1>1 DEF ViewOK
<1>3. ViewIsWhole' BY DEF ViewOK, ViewIsWhole
<1> QED BY <1>2, <1>3 DEF ViewOK

LEMMA EmptyView ==
    ASSUME SessionInv, ViewOK, plan' = NoPlan, memory' = Nothing, sent' = NothingSent,
           \/ seg' = <<>> /\ heads' = <<>>
           \/ seg' = seg /\ heads' = heads /\ worker' = "closed"
    PROVE  ViewOK'
<1>1. ViewIsWhole' BY DEF ViewIsWhole, NothingSent
<1>2. plan'.phase # "read" BY DEF NoPlan
<1>3. CASE seg' = <<>> /\ heads' = <<>>
  <2>1. SegOK' BY <1>3 DEF SegOK
  <2>2. TailShape' BY <2>1, TailFacts, PTL
  <2>3. 0 \in 0..TailAfter' /\ memory'.items = (0 + 1)..Len(seg')
    BY <1>3, <2>2 DEF TailShape, Nothing
  <2> QED BY <1>1, <1>2, <1>3, <2>3 DEF ViewOK
<1>4. CASE seg' = seg /\ heads' = heads /\ worker' = "closed"
  BY <1>1, <1>2, <1>4 DEF ViewOK
<1> QED BY <1>3, <1>4

LEMMA OpenView ==
    ASSUME SessionInv, ViewOK, OpenSession
    PROVE  ViewOK'
<1>0. UNCHANGED <<seg, heads, plan, sent>> /\ memory'.items = Positions(TailAfter, Len(seg))
  BY DEF OpenSession
<1>1. TailAfter' = TailAfter BY <1>0 DEF TailAfter
<1>2. TailAfter \in 0..Len(seg) /\ Len(seg) \in Nat /\ DOMAIN seg = 1..Len(seg)
  BY TailFacts DEF TailShape, SessionInv
<1>3. memory'.items = (TailAfter + 1)..Len(seg) BY <1>0, <1>2 DEF Positions
<1>4. TailAfter \in 0..TailAfter BY <1>2
<1>5. ViewIsWhole' BY <1>0 DEF ViewOK, ViewIsWhole
<1> QED BY <1>0, <1>1, <1>3, <1>4, <1>5 DEF ViewOK

LEMMA CommitView ==
    ASSUME SessionInv, ViewOK, CommitCompaction
    PROVE  ViewOK'
<1> DEFINE s == Fresh(Activities)
           head == [id |-> s, through |-> plan.through, items |-> plan.items]
<1>0. /\ UNCHANGED <<seg, memory, worker>> /\ heads' = Append(heads, head)
      /\ plan' = NoPlan /\ sent' = NothingSent /\ plan.phase = "read"
  BY DEF CommitCompaction
<1>1. body[s] = "none" BY FreshIsUnused DEF CommitCompaction
<1>2. head.items = 1..head.through /\ head.id = s BY <1>0 DEF ViewOK
<1>3. heads \in Seq([id : Activities, through : Nat, items : SUBSET Nat]) BY DEF SessionInv, HeadsOK
<1>4. \A i \in DOMAIN heads : heads[i].id # s BY <1>1 DEF SessionInv, HeadsOK
<1> HIDE DEF head, s
<1>5. /\ DOMAIN heads' = 1..(Len(heads) + 1) /\ DOMAIN heads = 1..Len(heads) /\ Len(heads) \in Nat
      /\ heads'[Len(heads) + 1] = head /\ \A i \in DOMAIN heads : heads'[i] = heads[i]
  BY <1>0, <1>3
<1>6. \A i \in DOMAIN heads' : \/ i \in DOMAIN heads /\ heads'[i] = heads[i]
                               \/ i = Len(heads) + 1 /\ heads'[i] = head
  BY <1>5
<1>7. \A i \in DOMAIN heads' : heads'[i].items = 1..heads'[i].through
  BY <1>2, <1>6 DEF ViewOK
<1>8. \A i \in DOMAIN heads' : \A j \in DOMAIN heads' : heads'[i].id = heads'[j].id => i = j
  BY <1>2, <1>4, <1>6 DEF ViewOK
<1>9. TailAfter' = TailAfter BY <1>0 DEF TailAfter
<1>10. plan'.phase # "read" /\ ViewIsWhole' BY <1>0 DEF NoPlan, ViewIsWhole, NothingSent
<1> QED BY <1>0, <1>7, <1>8, <1>9, <1>10 DEF ViewOK

LEMMA MessageView ==
    ASSUME SessionInv, SessionInv', ViewOK, SaveAnswer \/ SaveToolResult
    PROVE  ViewOK'
<1>1. /\ heads' = heads /\ plan' = plan /\ sent' \in {sent, NothingSent}
      /\ \E m : seg' = Append(seg, m)
      /\ memory'.items = memory.items \cup {Len(seg) + 1} /\ worker # "closed"
  BY DEF SaveAnswer, SaveToolResult, SaveMessage
<1>2. TailAfter <= TailAfter' BY <1>1, TailMoves DEF SessionInv
<1>3. TailShape' BY TailFacts, PTL DEF SessionInv
<1>4. TailShape BY TailFacts DEF SessionInv
<1>5. Len(seg') = Len(seg) + 1 BY <1>1 DEF SessionInv, SegOK
<1>6. PICK t \in 0..TailAfter : memory.items = (t + 1)..Len(seg) BY <1>1 DEF ViewOK
<1>7. t \in 0..TailAfter' /\ memory'.items = (t + 1)..Len(seg')
  BY <1>1, <1>2, <1>3, <1>4, <1>5, <1>6 DEF TailShape
<1>8. ViewIsWhole' BY <1>1 DEF ViewOK, ViewIsWhole, NothingSent
<1> QED BY <1>1, <1>7, <1>8 DEF ViewOK

LEMMA ViewStep == SessionInv /\ SessionInv' /\ ViewOK /\ [SessionNext]_cvars => ViewOK'
<1> SUFFICES ASSUME SessionInv, SessionInv', ViewOK, [SessionNext]_cvars PROVE ViewOK' OBVIOUS
<1>1. CASE UNCHANGED <<seg, heads, memory, plan, sent, worker>> BY <1>1, SameView
<1>2. CASE OpenSession BY <1>2, OpenView
<1>3. CASE KeepSegment BY <1>3, SameView DEF KeepSegment
<1>4. CASE NewSegment \/ NextRun
  <2>1. /\ plan' = NoPlan /\ memory' = Nothing /\ sent' = NothingSent
        /\ seg' = <<>> /\ heads' = <<>>
    BY <1>4 DEF NewSegment, NextRun, StartSegment, SessionInv, IdleOK
  <2> QED BY <2>1, EmptyView
<1>5. CASE CloseSession BY <1>5, EmptyView DEF CloseSession
<1>6. ASSUME NEW t \in 1..Len(seg), PrepareCompaction(t) PROVE ViewOK'
  <2>1. plan'.phase # "read" /\ UNCHANGED <<seg, heads, memory, worker, sent>>
    BY <1>6 DEF PrepareCompaction
  <2> QED BY <2>1, SameView
<1>7. CASE ReadCompaction
  <2>1. plan'.items = 1..plan'.through BY <1>7, ViewReads
  <2>2. UNCHANGED <<seg, heads, memory, worker>> /\ sent'.whole BY <1>7 DEF ReadCompaction
  <2> QED BY <2>1, <2>2, SameView
<1>8. CASE CommitCompaction BY <1>8, CommitView
<1>9. CASE CallProvider
  <2>1. sent'.whole BY <1>9, ViewCalls
  <2>2. UNCHANGED <<seg, heads, memory, plan>> /\ worker' = "answered" /\ worker # "closed"
    BY <1>9 DEF CallProvider
  <2> QED BY <2>1, <2>2, SameView
<1>10. CASE SaveAnswer \/ SaveToolResult BY <1>10, MessageView
<1>11. CASE RequestWork BY <1>11, SameView DEF RequestWork
<1>12. CASE \/ UNCHANGED cvars \/ \E n \in Node : Read(n)
            \/ Observe \/ (\E r \in Records : RunSubmits(r)) \/ SendMessage \/ Others
  <2>1. UNCHANGED <<seg, heads, memory, plan, sent, worker>>
    BY <1>12 DEF cvars, session, Read, Observe, RunSubmits, SendMessage, Others
  <2> QED BY <2>1, SameView
<1> QED BY <1>2, <1>3, <1>4, <1>5, <1>6, <1>7, <1>8, <1>9, <1>10, <1>11, <1>12 DEF SessionNext

\* However sessions end, reopen and compact, the provider is never given a
\* conversation with a hole.
THEOREM ViewsAreWhole == SessionSpec => []ViewIsWhole
<1>1. SessionInit => ViewOK
  BY DEF SessionInit, ViewOK, NoPlan, ViewIsWhole, NothingSent
<1>2. ViewOK => ViewIsWhole BY DEF ViewOK
<1> QED BY <1>1, <1>2, SessionInvariance, ViewStep, PTL DEF SessionSpec
-----------------------------------------------------------------------------
\* What the parts of the invariant leave of the type.
ShapeOK ==
    /\ runs \in 1..MaxRuns
    /\ worker \in {"closed", "acting", "authorized", "answered"}
    /\ {asked.source, work.source} \subseteq Events \cup {None}
    /\ memory.items \subseteq DOMAIN seg

LEMMA ShapeStep == SessionInv /\ ShapeOK /\ [SessionNext]_cvars => ShapeOK'
<1> SUFFICES ASSUME SessionInv, ShapeOK, [SessionNext]_cvars PROVE ShapeOK' OBVIOUS
<1>1. CASE UNCHANGED <<runs, worker, asked, work, memory, seg>> BY <1>1 DEF ShapeOK
<1>2. CASE OpenSession BY <1>2 DEF OpenSession, Positions, ShapeOK
<1>3. CASE KeepSegment BY <1>3 DEF KeepSegment, ShapeOK
<1>4. CASE NewSegment BY <1>4 DEF NewSegment, StartSegment, Nothing, ShapeOK
<1>5. CASE NextRun
  <2>1. /\ runs < MaxRuns /\ runs' = runs + 1 /\ worker' = worker /\ memory' = memory
        /\ work' = asked /\ asked' = NoWork /\ memory = Nothing
    BY <1>5 DEF NextRun, SessionInv, IdleOK
  <2>2. runs' \in 1..MaxRuns BY <2>1, ContextAssumption DEF ContextAssumption, ShapeOK
  <2> QED BY <2>1, <2>2 DEF ShapeOK, NoWork, Nothing
<1>6. CASE CloseSession BY <1>6 DEF CloseSession, Nothing, ShapeOK
<1>7. CASE CallProvider BY <1>7 DEF CallProvider, ShapeOK
<1>8. CASE SaveAnswer \/ SaveToolResult
  <2>1. /\ UNCHANGED <<runs, asked, work>> /\ worker' = "acting"
        /\ memory'.items = memory.items \cup {Len(seg) + 1}
        /\ \E m : seg' = Append(seg, m)
    BY <1>8 DEF SaveAnswer, SaveToolResult, SaveMessage
  <2>2. seg \in Seq([id : Activities, answer : BOOLEAN]) BY DEF SessionInv, SegOK
  <2>3. DOMAIN seg' = DOMAIN seg \cup {Len(seg) + 1} BY <2>1, <2>2
  <2> QED BY <2>1, <2>3 DEF ShapeOK
<1>9. CASE RequestWork
  <2>1. /\ UNCHANGED <<runs, work, worker, memory, seg>>
        /\ asked'.source = Fresh(Events) /\ Unused(Events) # {}
    BY <1>9 DEF RequestWork, Publish
  <2> QED BY <2>1, FreshIsUnused DEF ShapeOK
<1>10. CASE \/ UNCHANGED cvars \/ \E n \in Node : Read(n)
            \/ Observe \/ (\E r \in Records : RunSubmits(r)) \/ SendMessage \/ Others
            \/ (\E t \in 1..Len(seg) : PrepareCompaction(t)) \/ ReadCompaction \/ CommitCompaction
  BY <1>1, <1>10 DEF cvars, session, Read, Observe, RunSubmits, SendMessage, Others,
                     PrepareCompaction, ReadCompaction, CommitCompaction
<1> QED BY <1>2, <1>3, <1>4, <1>5, <1>6, <1>7, <1>8, <1>9, <1>10 DEF SessionNext

\* Every table row, what the worker holds in memory and what it plans have the
\* shape that the code gives them; a summary stands for messages that exist.
THEOREM SessionTypeCorrect == SessionSpec => []SessionTypeOK
<1>1. SessionInit => ShapeOK
  BY ContextAssumption DEF ContextAssumption, SessionInit, ShapeOK, NoWork, Nothing
<1>2. SessionInv /\ ShapeOK => SessionTypeOK
  <2> SUFFICES ASSUME SessionInv, ShapeOK PROVE SessionTypeOK OBVIOUS
  <2>1. TypeOK /\ ctx \in SUBSET Node /\ mind \in SUBSET Records
    BY KnownType DEF SessionInv, MindOK
  <2>2. {asked, work} \subseteq [source : Events \cup {None}, holds : SUBSET Records]
    <3>1. \A w \in {asked, work} :
            /\ w \in [source : InUse \cup {None}, holds : SUBSET Records]
            /\ w.source \in Events \cup {None}
      BY DEF SessionInv, WorkOK, ShapeOK
    <3> QED BY <3>1
  <2>3. /\ seg \in Seq([id : Activities, answer : BOOLEAN])
        /\ heads \in Seq([id : Activities, through : Nat, items : SUBSET Nat])
        /\ plan = NoPlan \/ plan \in Plans
    BY DEF SessionInv, SegOK, HeadsOK, PlanOK
  <2>4. memory \in [holds : SUBSET Records, items : SUBSET (DOMAIN seg)]
    BY DEF SessionInv, MindOK, ShapeOK
  <2>5. SummaryHead.through <= Len(seg)
    BY SummaryFacts, RowTypes DEF SessionInv, HeadsOK, NoHead
  <2>6. sent \in [holds : SUBSET Records, before : SUBSET Records, whole : BOOLEAN]
    BY DEF SessionInv, MindOK
  <2>7. runs \in 0..MaxRuns BY ContextAssumption DEF ContextAssumption, ShapeOK
  <2> QED BY <2>1, <2>2, <2>3, <2>4, <2>5, <2>6, <2>7 DEF SessionTypeOK, ShapeOK, Plans
<1> QED BY <1>1, <1>2, SessionInvariance, ShapeStep, PTL DEF SessionSpec
=============================================================================
