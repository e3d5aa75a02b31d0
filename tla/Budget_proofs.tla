---------------------------- MODULE Budget_proofs ----------------------------
(* Theorems about Budget, for every tree of accounts and every set of      *)
(* runs and calls: type correctness, what was sent is never given back,    *)
(* the ceilings on calls and tokens, and the refinement of CallLedger.     *)
EXTENDS Budget, Sums, FiniteSetTheorems, TLAPS

-----------------------------------------------------------------------------
(* Rows, requests and answers keep their shape.                            *)

LEMMA PermitUpdate ==
  ASSUME NEW x \in PermitRow,
         NEW s \in {"reserved", "dispatched", "released", "settled"},
         NEW n \in Nat, NEW u \in Reports
  PROVE  /\ [x EXCEPT !.state = s] \in PermitRow
         /\ [x EXCEPT !.usage = u] \in PermitRow
         /\ [state |-> s, tokens |-> n, usage |-> u] \in PermitRow
         /\ x.tokens \in Nat
  BY DEF PermitRow

LEMMA NoPermitType == NoPermit \in PermitRow
  BY DEF NoPermit, PermitRow, Reports

LEMMA Words ==
  /\ "none" \in Answers /\ "ok" \in Answers /\ "no" \in Answers
  /\ "none" \in Reports /\ "partial" \in Reports /\ "full" \in Reports
  /\ "idle" \in Places /\ "sent" \in Places /\ "ended" \in Places /\ "lost" \in Places
  /\ Waiting \subseteq Places /\ Waiting \subseteq Requests /\ "checked" \in Requests
  /\ Waiting = {"permit", "lookup", "dispatch", "release", "usage"}
  /\ "none" \in AllocationStates /\ "open" \in AllocationStates
  /\ "none" \in RunStates /\ "running" \in RunStates /\ "interrupted" \in RunStates
  /\ Ends \subseteq AllocationStates /\ Ends \subseteq RunStates
  BY BudgetAssumption
  DEF Answers, Reports, Places, Waiting, Requests, AllocationStates, RunStates, Dispositions

LEMMA Numbers ==
  /\ MaxCrashes \in Nat /\ 0 \in 0..MaxCrashes
  /\ \A n \in Bills : n \in Nat
  /\ \A c \in Calls : Asked[c] \in Nat
  BY BudgetAssumption

LEMMA NextUpTo ==
  ASSUME NEW m \in Nat, NEW n \in 0..m, n < m
  PROVE  n + 1 \in 0..m
  OBVIOUS

\* The exchange of requests and answers is well typed.
Exchange ==
    /\ net \in [Calls -> SUBSET Requests]
    /\ answer \in [Calls -> Answers]
    /\ caller \in [Calls -> Places]

LEMMA ServedType ==
  ASSUME Exchange, NEW c \in Calls, NEW kind, NEW reply \in Answers,
         Served(c, kind, reply), UNCHANGED caller
  PROVE  Exchange'
  BY DEF Exchange, Served

LEMMA IssueType ==
  ASSUME Exchange, NEW c \in Calls, NEW kind \in Waiting, Issue(c, kind)
  PROVE  Exchange'
  BY Words DEF Exchange, Issue

LEMMA EndType ==
  ASSUME Exchange, NEW c \in Calls, NEW where \in Places, End(c, where)
  PROVE  Exchange'
  BY Words DEF Exchange, End

LEMMA ExchangeStep ==
  ASSUME Exchange, [Next]_vars
  PROVE  Exchange'
<1>1. ASSUME NEW c \in Calls, HostStep(c) \/ Deny(c) PROVE Exchange'
  <2>1. CASE CheckPermit(c)
    BY <2>1, Words DEF CheckPermit, Exchange
  <2>2. CASE RecordPermit(c)
    BY <2>2, Words DEF RecordPermit, Exchange
  <2>3. CASE Deny(c)
    <3>1. CASE Served(c, "permit", "no") \/ Served(c, "dispatch", "no")
      BY <2>3, <3>1, ServedType, Words DEF Deny
    <3> QED
      BY <2>3, <3>1, Words DEF Deny, Exchange
  <2>4. CASE LookupPermit(c) \/ DispatchPermit(c)
    BY <2>4, ServedType, Words DEF LookupPermit, DispatchPermit
  <2>5. CASE ReleasePermit(c)
    BY <2>5, ServedType, Words DEF ReleasePermit
  <2>6. CASE RecordUsage(c)
    BY <2>6, ServedType, Words DEF RecordUsage
  <2> QED
    BY <1>1, <2>1, <2>2, <2>3, <2>4, <2>5, <2>6 DEF HostStep
<1>2. ASSUME NEW c \in Calls, CallerStep(c) PROVE Exchange'
  <2>1. (\E kind \in Waiting : Issue(c, kind)) \/ (\E where \in Places : End(c, where))
    BY <1>2, Words
    DEF CallerStep, StartCall, SendToProvider, HearOk, Fail, ReportUsage, Repeat
  <2> QED
    BY <2>1, IssueType, EndType
<1>3. CASE AccountStep
  BY <1>3, Words DEF AccountStep, Allocate, FinishAllocation, BeginRun, KillWorker, FinishRun, Exchange
<1>4. CASE DeadlinePasses \/ CrashAndRecover \/ UNCHANGED vars
  BY <1>4, Words DEF DeadlinePasses, CrashAndRecover, vars, Exchange
<1> QED
  BY <1>1, <1>2, <1>3, <1>4 DEF Next

-----------------------------------------------------------------------------
(* Type correctness.                                                       *)

LEMMA TypeStep == TypeOK /\ [Next]_vars => TypeOK'
<1> SUFFICES ASSUME TypeOK, [Next]_vars PROVE TypeOK'
  OBVIOUS
<1>1. Exchange'
  BY ExchangeStep DEF TypeOK, Exchange
<1>2. permit' \in [Calls -> PermitRow]
  <2>1. ASSUME NEW c \in Calls, HostStep(c) PROVE permit' \in [Calls -> PermitRow]
    <3>1. /\ permit[c] \in PermitRow /\ report[c] \in Reports /\ bill[c] \in Nat
          /\ Asked[c] \in Nat
      BY BudgetAssumption DEF TypeOK
    <3>2. [state |-> IF c \in Legacy THEN "dispatched" ELSE "reserved",
           tokens |-> Asked[c], usage |-> "none"] \in PermitRow
      BY <3>1, PermitUpdate, Words
    <3>3. /\ [permit[c] EXCEPT !.state = "dispatched"] \in PermitRow
          /\ [permit[c] EXCEPT !.state = "released"] \in PermitRow
      BY <3>1, PermitUpdate
    <3>4. Settled(c) \in PermitRow
      BY <3>1, PermitUpdate, Words DEF Settled
    <3> QED
      BY <2>1, <3>2, <3>3, <3>4
      DEF HostStep, CheckPermit, RecordPermit, LookupPermit, DispatchPermit, ReleasePermit,
          RecordUsage, TypeOK
  <2>2. CASE UNCHANGED permit
    BY <2>2 DEF TypeOK
  <2> QED
    BY <2>1, <2>2
    DEF Next, Deny, CallerStep, StartCall, SendToProvider, HearOk, Fail, ReportUsage, Repeat,
        AccountStep, Allocate, FinishAllocation, BeginRun, KillWorker, FinishRun,
        DeadlinePasses, CrashAndRecover, vars
<1>3. /\ report' \in [Calls -> Reports]
      /\ sends' \in [Calls -> Nat]
      /\ bill' \in [Calls -> Nat]
  <2>1. ASSUME NEW c \in Calls, CallerStep(c)
        PROVE  /\ report' \in [Calls -> Reports]
               /\ sends' \in [Calls -> Nat]
               /\ bill' \in [Calls -> Nat]
    <3>1. CASE SendToProvider(c)
      <4>1. PICK n \in Bills : bill' = [bill EXCEPT ![c] = n]
        BY <3>1 DEF SendToProvider
      <4> QED
        BY <3>1, <4>1, Numbers DEF SendToProvider, TypeOK
    <3>2. CASE sends' = sends /\ bill' = bill /\ report' \in [Calls -> Reports]
      BY <3>2 DEF TypeOK
    <3>3. /\ StartCall(c) \/ HearOk(c) \/ Repeat(c) => UNCHANGED <<sends, bill, report>>
          /\ Fail(c) \/ ReportUsage(c) =>
               /\ UNCHANGED <<sends, bill>>
               /\ \/ UNCHANGED report
                  \/ \E u \in {"partial", "full"} : report' = [report EXCEPT ![c] = u]
      BY DEF StartCall, HearOk, Fail, ReportUsage, Repeat, provider
    <3> QED
      BY <2>1, <3>1, <3>2, <3>3, Words DEF CallerStep, TypeOK
  <2>2. CASE UNCHANGED <<report, sends, bill>>
    BY <2>2 DEF TypeOK
  <2> QED
    BY <2>1, <2>2
    DEF Next, Deny, HostStep, CheckPermit, RecordPermit, LookupPermit, DispatchPermit,
        ReleasePermit, RecordUsage, AccountStep, Allocate, FinishAllocation, BeginRun,
        KillWorker, FinishRun, DeadlinePasses, CrashAndRecover, vars, provider
<1> DEFINE HostTyped ==
      /\ alloc' \in [Accounts -> AllocationStates]
      /\ run' \in [Runs -> RunStates]
      /\ worker' \in [Runs -> BOOLEAN]
      /\ expired' \in BOOLEAN
      /\ crashes' \in 0..MaxCrashes
<1>4. HostTyped
  <2>1. CASE \E c \in Calls : RecordPermit(c)
    BY <2>1, Words DEF RecordPermit, TypeOK
  <2>2. CASE AccountStep
    <3>1. ASSUME NEW r \in Runs, BeginRun(r) \/ KillWorker(r) PROVE HostTyped
      BY <3>1, Words, Zenon DEF BeginRun, KillWorker, TypeOK
    <3>2. ASSUME NEW a \in Accounts, Allocate(a) PROVE HostTyped
      BY <3>2, Words DEF Allocate, TypeOK
    <3>3. ASSUME NEW a \in Accounts, NEW d \in Ends, FinishAllocation(a, d) PROVE HostTyped
      <4>1. d \in AllocationStates
        BY Words
      <4> QED
        BY <3>3, <4>1 DEF FinishAllocation, TypeOK
    <3>4. ASSUME NEW r \in Runs, NEW d \in Ends, FinishRun(r, d) PROVE HostTyped
      <4>1. d \in AllocationStates /\ d \in RunStates
        BY Words
      <4> QED
        BY <3>4, <4>1 DEF FinishRun, TypeOK
    <3> QED
      BY <2>2, <3>1, <3>2, <3>3, <3>4 DEF AccountStep
  <2>3. CASE DeadlinePasses
    BY <2>3 DEF DeadlinePasses, TypeOK
  <2>5. CASE CrashAndRecover
    <3>1. crashes' \in 0..MaxCrashes
      <4>1. crashes \in 0..MaxCrashes /\ crashes < MaxCrashes /\ crashes' = crashes + 1
        BY <2>5 DEF CrashAndRecover, TypeOK
      <4> QED
        BY <4>1, Numbers, NextUpTo
    <3>2. run' \in [Runs -> RunStates] /\ worker' \in [Runs -> BOOLEAN]
      BY <2>5, Words DEF CrashAndRecover, TypeOK
    <3> QED
      BY <2>5, <3>1, <3>2 DEF CrashAndRecover, TypeOK
  <2>4. CASE UNCHANGED host
    BY <2>4 DEF host, TypeOK
  <2> QED
    BY <2>1, <2>2, <2>3, <2>4, <2>5
    DEF Next, Deny, HostStep, CheckPermit, LookupPermit, DispatchPermit, ReleasePermit,
        RecordUsage, CallerStep, StartCall, SendToProvider, HearOk, Fail, ReportUsage, Repeat,
        vars, host
<1> QED
  BY <1>1, <1>2, <1>3, <1>4 DEF TypeOK, Exchange

LEMMA InitType == Init => TypeOK
<1> SUFFICES ASSUME Init PROVE TypeOK
  OBVIOUS
<1>1. /\ alloc \in [Accounts -> AllocationStates] /\ run \in [Runs -> RunStates]
      /\ worker \in [Runs -> BOOLEAN] /\ expired \in BOOLEAN
  BY Words DEF Init
<1>2. permit \in [Calls -> PermitRow]
  BY NoPermitType DEF Init
<1>3. /\ net \in [Calls -> SUBSET Requests] /\ answer \in [Calls -> Answers]
      /\ caller \in [Calls -> Places] /\ report \in [Calls -> Reports]
  BY Words DEF Init
<1>4. /\ sends \in [Calls -> Nat] /\ bill \in [Calls -> Nat]
      /\ crashes \in 0..MaxCrashes
  BY Numbers DEF Init
<1> QED
  BY <1>1, <1>2, <1>3, <1>4 DEF TypeOK

\* Every row of the tables, request, answer and caller keeps its shape.
THEOREM TypeCorrect == Spec => []TypeOK
  BY InitType, TypeStep, PTL DEF Spec

-----------------------------------------------------------------------------
(* What was sent is never given back.  The invariant follows a call from   *)
(* the acknowledgement its caller acts on to the settlement: it says what  *)
(* a late answer, a late request or a repeated one may still find.         *)

\* The provider is called on this answer.
Acknowledged(c) ==
    answer[c] = "ok" /\ caller[c] = IF c \in Legacy THEN "permit" ELSE "dispatch"

SentOnce(c) ==
    /\ sends[c] \in {0, 1}
    /\ sends[c] = 1 => permit[c].state \in {"dispatched", "settled"}
    /\ Acknowledged(c) => permit[c].state = "dispatched" /\ sends[c] = 0
ChargeKept(c) ==
    /\ permit[c].state \in {"reserved", "dispatched"} => permit[c].tokens = Asked[c]
    /\ permit[c].state = "settled" => sends[c] = 1 /\ permit[c].tokens = bill[c]
CallerKnows(c) ==
    /\ caller[c] = "idle" => sends[c] = 0
    /\ caller[c] = "sent" \/ report[c] = "full" => sends[c] = 1
LegacyIsDispatched(c) ==
    c \in Legacy =>
        /\ permit[c].state \notin {"reserved", "released"}
        /\ caller[c] = "permit" => sends[c] = 0

CallRow(c) == SentOnce(c) /\ ChargeKept(c) /\ CallerKnows(c) /\ LegacyIsDispatched(c)
CallInv == \A c \in Calls : CallRow(c)

LEMMA Fields ==
  ASSUME NEW x \in PermitRow, NEW s, NEW u
  PROVE  /\ [x EXCEPT !.state = s].state = s
         /\ [x EXCEPT !.state = s].tokens = x.tokens
         /\ [x EXCEPT !.state = s].usage = x.usage
         /\ [x EXCEPT !.usage = u].state = x.state
         /\ [x EXCEPT !.usage = u].tokens = x.tokens
  BY DEF PermitRow

\* A step of one call leaves the rows of the others alone.
LEMMA OthersStay ==
  ASSUME TypeOK, NEW c \in Calls, HostStep(c) \/ Deny(c) \/ CallerStep(c),
         NEW d \in Calls, d # c
  PROVE  /\ permit'[d] = permit[d] /\ answer'[d] = answer[d] /\ caller'[d] = caller[d]
         /\ report'[d] = report[d] /\ sends'[d] = sends[d] /\ bill'[d] = bill[d]
<1>1. CASE HostStep(c) \/ Deny(c)
  <2>1. permit'[d] = permit[d]
    BY <1>1
    DEF HostStep, Deny, CheckPermit, RecordPermit, LookupPermit, DispatchPermit,
        ReleasePermit, RecordUsage, TypeOK
  <2>2. answer'[d] = answer[d]
    BY <1>1
    DEF HostStep, Deny, CheckPermit, RecordPermit, LookupPermit, DispatchPermit,
        ReleasePermit, RecordUsage, Served, TypeOK
  <2>3. UNCHANGED <<caller, report, sends, bill>>
    BY <1>1
    DEF HostStep, Deny, CheckPermit, RecordPermit, LookupPermit, DispatchPermit,
        ReleasePermit, RecordUsage, provider
  <2> QED
    BY <2>1, <2>2, <2>3
<1>2. CASE CallerStep(c)
  <2>1. permit' = permit
    BY <1>2
    DEF CallerStep, StartCall, SendToProvider, HearOk, Fail, ReportUsage, Repeat
  <2>2. answer'[d] = answer[d] /\ caller'[d] = caller[d]
    BY <1>2
    DEF CallerStep, StartCall, SendToProvider, HearOk, Fail, ReportUsage, Repeat,
        Issue, End, TypeOK
  <2>3. report'[d] = report[d] /\ sends'[d] = sends[d] /\ bill'[d] = bill[d]
    BY <1>2
    DEF CallerStep, StartCall, SendToProvider, HearOk, Fail, ReportUsage, Repeat,
        provider, TypeOK
  <2> QED
    BY <2>1, <2>2, <2>3
<1> QED
  BY <1>1, <1>2

\* What a step that records, sends and reports nothing can do to a call.
Quiet(c) ==
    /\ permit'[c] = permit[c] /\ report'[c] = report[c]
    /\ sends'[c] = sends[c] /\ bill'[c] = bill[c]
    /\ caller'[c] \in {caller[c], "lost"}
    /\ \/ answer'[c] \in {"none", "no"}
       \/ answer'[c] = answer[c] /\ caller'[c] = caller[c]

LEMMA QuietRow ==
  ASSUME NEW c, CallRow(c), Quiet(c)
  PROVE  CallRow(c)'
  BY DEF CallRow, SentOnce, ChargeKept, CallerKnows, LegacyIsDispatched, Acknowledged, Quiet

LEMMA QuietSteps ==
  ASSUME TypeOK, NEW c \in Calls,
         AccountStep \/ DeadlinePasses \/ CrashAndRecover \/ UNCHANGED vars
  PROVE  Quiet(c)
<1>1. CASE AccountStep
  BY <1>1
  DEF AccountStep, Allocate, FinishAllocation, BeginRun, KillWorker, FinishRun, Quiet,
      provider, TypeOK
<1>2. CASE DeadlinePasses \/ CrashAndRecover \/ UNCHANGED vars
  BY <1>2 DEF DeadlinePasses, CrashAndRecover, vars, Quiet, provider, TypeOK
<1> QED
  BY <1>1, <1>2

\* A reply that is not an acknowledgement, or that is heard elsewhere.
LEMMA ServedReply ==
  ASSUME TypeOK, NEW c \in Calls, NEW kind, NEW reply, Served(c, kind, reply)
  PROVE  answer'[c] = IF caller[c] = kind THEN reply ELSE answer[c]
  BY DEF Served, TypeOK

LEMMA HostRow ==
  ASSUME TypeOK, NEW c \in Calls, CallRow(c), HostStep(c) \/ Deny(c)
  PROVE  CallRow(c)'
<1>0. /\ permit[c] \in PermitRow /\ Asked[c] \in Nat
      /\ UNCHANGED <<caller, report, sends, bill>>
  BY BudgetAssumption
  DEF HostStep, Deny, CheckPermit, RecordPermit, LookupPermit, DispatchPermit,
      ReleasePermit, RecordUsage, provider, TypeOK
<1>1. CASE CheckPermit(c)
  BY <1>1, <1>0, QuietRow DEF CheckPermit, Quiet
<1>2. CASE RecordPermit(c)
  <2>1. answer'[c] = IF caller[c] = "permit" THEN "ok" ELSE answer[c]
    BY <1>2 DEF RecordPermit, TypeOK
  <2>2. CASE permit' = permit /\ permit[c].state # "none"
    <3>1. permit[c].state \in {"reserved", "dispatched", "released", "settled"}
      BY <1>0, <2>2 DEF PermitRow
    <3> QED
      BY <2>1, <2>2, <3>1, <1>0
      DEF CallRow, SentOnce, ChargeKept, CallerKnows, LegacyIsDispatched, Acknowledged
  <2>3. CASE /\ permit[c].state = "none"
             /\ permit' = [permit EXCEPT ![c] =
                             [state |-> IF c \in Legacy THEN "dispatched" ELSE "reserved",
                              tokens |-> Asked[c], usage |-> "none"]]
    <3>1. /\ permit'[c].state = IF c \in Legacy THEN "dispatched" ELSE "reserved"
          /\ permit'[c].tokens = Asked[c]
      BY <2>3 DEF TypeOK
    <3> QED
      BY <2>1, <2>3, <3>1, <1>0
      DEF CallRow, SentOnce, ChargeKept, CallerKnows, LegacyIsDispatched, Acknowledged
  <2> QED
    BY <1>2, <2>2, <2>3 DEF RecordPermit
<1>3. CASE Deny(c)
  <2>1. permit' = permit /\ (answer'[c] = answer[c] \/ answer'[c] = "no")
    <3>1. CASE Served(c, "permit", "no") \/ Served(c, "dispatch", "no")
      <4>1. answer'[c] = answer[c] \/ answer'[c] = "no"
        BY <3>1, ServedReply
      <4> QED
        BY <1>3, <4>1 DEF Deny
    <3>2. CASE answer' = IF caller[c] = "permit" THEN [answer EXCEPT ![c] = "no"] ELSE answer
      BY <1>3, <3>2 DEF Deny, TypeOK
    <3> QED
      BY <1>3, <3>1, <3>2 DEF Deny
  <2> QED
    BY <2>1, <1>0, QuietRow DEF Quiet
<1>4. CASE LookupPermit(c)
  <2>1. /\ permit' = permit
        /\ answer'[c] = answer[c] \/ caller[c] = "lookup"
    BY <1>4, ServedReply DEF LookupPermit
  <2> QED
    BY <2>1, <1>0
    DEF CallRow, SentOnce, ChargeKept, CallerKnows, LegacyIsDispatched, Acknowledged
<1>5. CASE DispatchPermit(c)
  <2>1. /\ permit[c].state = "reserved"
        /\ permit'[c] = [permit[c] EXCEPT !.state = "dispatched"]
        /\ answer'[c] = IF caller[c] = "dispatch" THEN "ok" ELSE answer[c]
    BY <1>5, ServedReply DEF DispatchPermit, Dispatchable, TypeOK
  <2>2. permit'[c].state = "dispatched" /\ permit'[c].tokens = permit[c].tokens
    BY <2>1, <1>0, Fields
  <2> QED
    BY <2>1, <2>2, <1>0
    DEF CallRow, SentOnce, ChargeKept, CallerKnows, LegacyIsDispatched, Acknowledged
<1>6. CASE ReleasePermit(c)
  <2>1. answer'[c] = answer[c] \/ caller[c] = "release"
    BY <1>6, ServedReply DEF ReleasePermit
  <2>2. CASE permit' = permit
    BY <2>1, <2>2, <1>0
    DEF CallRow, SentOnce, ChargeKept, CallerKnows, LegacyIsDispatched, Acknowledged
  <2>3. CASE Releasable(c) /\ permit' = [permit EXCEPT ![c].state = "released"]
    <3>1. permit'[c] = [permit[c] EXCEPT !.state = "released"]
      BY <2>3 DEF TypeOK
    <3>2. permit'[c].state = "released"
      BY <3>1, <1>0, Fields
    <3> QED
      BY <2>1, <2>3, <3>2, <1>0
      DEF CallRow, SentOnce, ChargeKept, CallerKnows, LegacyIsDispatched, Acknowledged, Releasable
  <2> QED
    BY <1>6, <2>2, <2>3 DEF ReleasePermit
<1>7. CASE RecordUsage(c)
  <2>1. answer'[c] = answer[c] \/ caller[c] = "usage"
    BY <1>7, ServedReply DEF RecordUsage
  <2>2. CASE permit' = permit
    BY <2>1, <2>2, <1>0
    DEF CallRow, SentOnce, ChargeKept, CallerKnows, LegacyIsDispatched, Acknowledged
  <2>3. CASE UsageAccepted(c) /\ permit' = [permit EXCEPT ![c] = Settled(c)]
    <3>1. permit'[c] = Settled(c) /\ permit[c].state = "dispatched"
      BY <2>3 DEF TypeOK, UsageAccepted
    <3>2. CASE report[c] = "full"
      <4>1. permit'[c].state = "settled" /\ permit'[c].tokens = bill[c]
        BY <3>1, <3>2 DEF Settled
      <4> QED
        BY <2>1, <4>1, <3>1, <3>2, <1>0
        DEF CallRow, SentOnce, ChargeKept, CallerKnows, LegacyIsDispatched, Acknowledged
    <3>3. CASE report[c] # "full"
      <4>1. permit'[c].state = "dispatched" /\ permit'[c].tokens = permit[c].tokens
        BY <3>1, <3>3, <1>0, Fields DEF Settled
      <4> QED
        BY <2>1, <4>1, <3>1, <1>0
        DEF CallRow, SentOnce, ChargeKept, CallerKnows, LegacyIsDispatched, Acknowledged
    <3> QED
      BY <3>2, <3>3
  <2> QED
    BY <1>7, <2>2, <2>3 DEF RecordUsage
<1> QED
  BY <1>1, <1>2, <1>3, <1>4, <1>5, <1>6, <1>7 DEF HostStep

LEMMA CallerRow ==
  ASSUME TypeOK, NEW c \in Calls, CallRow(c), CallerStep(c)
  PROVE  CallRow(c)'
<1>0. permit' = permit
  BY DEF CallerStep, StartCall, SendToProvider, HearOk, Fail, ReportUsage, Repeat
<1>1. ASSUME NEW kind, Issue(c, kind)
      PROVE  caller'[c] = kind /\ answer'[c] = "none"
  BY <1>1 DEF Issue, TypeOK
<1>2. ASSUME NEW where, End(c, where)
      PROVE  caller'[c] = where /\ answer'[c] = "none"
  BY <1>2 DEF End, TypeOK
<1>3. CASE StartCall(c)
  BY <1>0, <1>1, <1>3
  DEF StartCall, CallRow, SentOnce, ChargeKept, CallerKnows, LegacyIsDispatched,
      Acknowledged, provider
<1>4. CASE SendToProvider(c)
  <2>1. caller'[c] = "sent" /\ answer'[c] = "none" /\ sends'[c] = sends[c] + 1
        /\ report' = report
    BY <1>2, <1>4 DEF SendToProvider, TypeOK
  <2> QED
    BY <1>0, <1>4, <2>1
    DEF SendToProvider, CallRow, SentOnce, ChargeKept, CallerKnows, LegacyIsDispatched,
        Acknowledged
<1>5. CASE HearOk(c)
  <2>1. /\ UNCHANGED <<report, sends, bill>> /\ answer'[c] = "none"
        /\ caller'[c] \in {"dispatch", "release", "ended"}
    BY <1>1, <1>2, <1>5 DEF HearOk, provider
  <2> QED
    BY <1>0, <2>1
    DEF CallRow, SentOnce, ChargeKept, CallerKnows, LegacyIsDispatched, Acknowledged
<1>6. CASE Fail(c)
  <2>1. /\ UNCHANGED <<sends, bill>> /\ answer'[c] = "none"
        /\ caller'[c] \in {"lookup", "release", "usage", "ended"}
        /\ report'[c] \in {report[c], "partial"}
    BY <1>1, <1>2, <1>6 DEF Fail, provider, TypeOK
  <2> QED
    BY <1>0, <2>1
    DEF CallRow, SentOnce, ChargeKept, CallerKnows, LegacyIsDispatched, Acknowledged
<1>7. CASE ReportUsage(c)
  <2>1. /\ UNCHANGED <<sends, bill>> /\ answer'[c] = "none" /\ caller'[c] = "usage"
        /\ caller[c] = "sent"
    BY <1>1, <1>7 DEF ReportUsage, provider
  <2> QED
    BY <1>0, <2>1
    DEF CallRow, SentOnce, ChargeKept, CallerKnows, LegacyIsDispatched, Acknowledged
<1>8. CASE Repeat(c)
  <2>1. /\ UNCHANGED <<report, sends, bill>> /\ answer'[c] = "none" /\ c \notin Legacy
        /\ caller'[c] \in {"permit", "dispatch", "release", "usage"}
    BY <1>1, <1>8, BudgetAssumption DEF Repeat, provider
  <2> QED
    BY <1>0, <2>1
    DEF CallRow, SentOnce, ChargeKept, CallerKnows, LegacyIsDispatched, Acknowledged
<1> QED
  BY <1>3, <1>4, <1>5, <1>6, <1>7, <1>8 DEF CallerStep

LEMMA CallInit == Init => CallInv
  BY DEF Init, CallInv, CallRow, SentOnce, ChargeKept, CallerKnows, LegacyIsDispatched,
      Acknowledged, NoPermit

LEMMA CallStep == TypeOK /\ CallInv /\ [Next]_vars => CallInv'
<1> SUFFICES ASSUME TypeOK, CallInv, [Next]_vars, NEW d \in Calls PROVE CallRow(d)'
  BY DEF CallInv
<1>1. CallRow(d)
  BY DEF CallInv
<1>2. ASSUME NEW c \in Calls, HostStep(c) \/ Deny(c) \/ CallerStep(c) PROVE CallRow(d)'
  <2>1. CASE c = d
    BY <1>1, <1>2, <2>1, HostRow, CallerRow
  <2>2. CASE c # d
    <3>1. Quiet(d)
      BY <1>2, <2>2, OthersStay DEF Quiet
    <3> QED
      BY <1>1, <3>1, QuietRow
  <2> QED
    BY <2>1, <2>2
<1>3. CASE AccountStep \/ DeadlinePasses \/ CrashAndRecover \/ UNCHANGED vars
  BY <1>1, <1>3, QuietSteps, QuietRow
<1> QED
  BY <1>2, <1>3 DEF Next

\* The invariant the results below rest on: what a caller has heard, what it
\* did and what the permit says agree, for every loss, repetition and crash.
THEOREM CallInvariance == Spec => [](TypeOK /\ CallInv)
<1>1. Init => CallInv
  BY CallInit
<1>2. Init => TypeOK
  BY InitType
<1> QED
  BY <1>1, <1>2, TypeStep, CallStep, PTL DEF Spec

\* A call that reached its provider keeps its reservation until its complete
\* usage replaces it, and is not made again (accounting.rs dispatch_permit,
\* release_permit, usage; model.ts metered).
THEOREM SentStays == Spec => []NothingSentIsGivenBack
<1>1. CallInv => NothingSentIsGivenBack
  BY DEF CallInv, CallRow, SentOnce, ChargeKept, NothingSentIsGivenBack
<1> QED
  BY <1>1, CallInvariance, PTL

-----------------------------------------------------------------------------
(* The ceilings on calls.  Only RecordPermit adds a call to what an        *)
(* account counts, and then every account above it has room for one more.  *)

\* The calls that are reserved, made or settled below an account stay within
\* its ceiling: the part of WithinCeilings that counts calls.
CallCeilings == \A a \in Accounts : Cardinality(Counted(a)) <= Ceiling[a].calls

\* A step adds at most one call to what an account counts, and only if the
\* account had room for it.
Grows(a, c) ==
    /\ Counted(a)' \subseteq Counted(a) \cup {c}
    /\ permit[c].state = "none" /\ Funded(c) /\ a \in Above[Pays[c]]

LEMMA CountedStep ==
  ASSUME TypeOK, [Next]_vars, NEW a \in Accounts
  PROVE  Counted(a)' \subseteq Counted(a) \/ \E c \in Calls : Grows(a, c)
<1>1. ASSUME NEW c \in Calls, HostStep(c)
      PROVE  Counted(a)' \subseteq Counted(a) \/ Grows(a, c)
  <2>0. permit[c] \in PermitRow
    BY DEF TypeOK
  <2>1. CASE \/ permit' = permit
             \/ /\ \A d \in Calls : d # c => permit'[d] = permit[d]
                /\ permit[c].state \notin {"none", "released"}
             \/ /\ \A d \in Calls : d # c => permit'[d] = permit[d]
                /\ permit'[c].state = "released"
    BY <2>1 DEF Counted
  <2>2. CASE RecordPermit(c)
    <3>1. CASE permit[c].state # "none"
      BY <2>1, <2>2, <3>1 DEF RecordPermit
    <3>2. CASE permit[c].state = "none"
      <4>1. Funded(c) /\ \A d \in Calls : d # c => permit'[d] = permit[d]
        BY <2>2, <3>2 DEF RecordPermit, TypeOK
      <4>2. Counted(a)' \subseteq Counted(a) \cup {c}
        BY <4>1 DEF Counted
      <4>3. a \notin Above[Pays[c]] => Counted(a)' \subseteq Counted(a)
        BY <4>1 DEF Counted
      <4> QED
        BY <3>2, <4>1, <4>2, <4>3 DEF Grows
    <3> QED
      BY <3>1, <3>2
  <2>3. CASE DispatchPermit(c)
    BY <2>1, <2>3 DEF DispatchPermit, Dispatchable, TypeOK
  <2>4. CASE ReleasePermit(c)
    <3>1. CASE permit' = [permit EXCEPT ![c].state = "released"]
      <4>1. permit'[c] = [permit[c] EXCEPT !.state = "released"]
        BY <3>1 DEF TypeOK
      <4>2. permit'[c].state = "released"
        BY <4>1, <2>0, Fields
      <4> QED
        BY <2>1, <3>1, <4>2 DEF TypeOK
    <3> QED
      BY <2>1, <2>4, <3>1 DEF ReleasePermit
  <2>5. CASE RecordUsage(c)
    BY <2>1, <2>5 DEF RecordUsage, UsageAccepted, TypeOK
  <2> QED
    BY <1>1, <2>1, <2>2, <2>3, <2>4, <2>5 DEF HostStep, CheckPermit, LookupPermit
<1>2. CASE UNCHANGED permit
  BY <1>2 DEF Counted
<1> QED
  BY <1>1, <1>2
  DEF Next, Deny, CallerStep, StartCall, SendToProvider, HearOk, Fail, ReportUsage, Repeat,
      AccountStep, Allocate, FinishAllocation, BeginRun, KillWorker, FinishRun,
      DeadlinePasses, CrashAndRecover, vars

LEMMA CountedFinite ==
  ASSUME NEW a \in Accounts
  PROVE  IsFiniteSet(Counted(a)) /\ Cardinality(Counted(a)) \in Nat
  BY BudgetAssumption, FS_Subset, FS_CardinalityType DEF Counted

LEMMA CountedFinitePrime ==
  ASSUME NEW a \in Accounts
  PROVE  IsFiniteSet(Counted(a)') /\ Cardinality(Counted(a)') \in Nat
<1>1. Counted(a)' \subseteq Calls
  BY DEF Counted
<1> QED
  BY <1>1, BudgetAssumption, FS_Subset, FS_CardinalityType

LEMMA CeilingsStep == TypeOK /\ CallCeilings /\ [Next]_vars => CallCeilings'
<1> SUFFICES ASSUME TypeOK, CallCeilings, [Next]_vars, NEW a \in Accounts
             PROVE  Cardinality(Counted(a)') <= Ceiling[a].calls
  BY DEF CallCeilings
<1>1. Ceiling[a].calls \in Nat /\ Cardinality(Counted(a)) <= Ceiling[a].calls
  BY BudgetAssumption DEF CallCeilings
<1>2. CASE Counted(a)' \subseteq Counted(a)
  <2>1. Cardinality(Counted(a)') <= Cardinality(Counted(a))
    BY <1>2, CountedFinite, FS_Subset
  <2> QED
    BY <1>1, <2>1, CountedFinite, CountedFinitePrime
<1>3. ASSUME NEW c \in Calls, Grows(a, c)
      PROVE  Cardinality(Counted(a)') <= Ceiling[a].calls
  <2>1. Counted(a)' \subseteq Counted(a) \cup {c} /\ Cardinality(Counted(a)) < Ceiling[a].calls
    BY <1>3 DEF Grows, Funded
  <2>2. c \notin Counted(a)
    BY <1>3 DEF Grows, Counted
  <2>3. /\ IsFiniteSet(Counted(a) \cup {c})
        /\ Cardinality(Counted(a) \cup {c}) = Cardinality(Counted(a)) + 1
    BY <2>2, CountedFinite, FS_AddElement
  <2>4. Cardinality(Counted(a)') <= Cardinality(Counted(a) \cup {c})
    BY <2>1, <2>3, FS_Subset
  <2> QED
    BY <1>1, <2>1, <2>3, <2>4, CountedFinite, CountedFinitePrime
<1> QED
  BY <1>2, <1>3, CountedStep

\* However permits, compactions, releases and settlements interleave, no
\* account of the tree counts more calls than its ceiling (accounting.rs
\* permit_in_allocation).
THEOREM CallsWithinCeilings == Spec => []CallCeilings
<1>1. Init => CallCeilings
  <2> SUFFICES ASSUME Init, NEW a \in Accounts PROVE Cardinality(Counted(a)) <= Ceiling[a].calls
    BY DEF CallCeilings
  <2>1. Counted(a) = {}
    BY DEF Init, Counted, NoPermit
  <2>2. Ceiling[a].calls \in Nat
    BY BudgetAssumption
  <2> QED
    BY <2>1, <2>2, FS_EmptySet
<1> QED
  BY <1>1, TypeCorrect, CeilingsStep, PTL DEF Spec

-----------------------------------------------------------------------------
(* Refinement of CallLedger.                                               *)

LEMMA LedgerCounts ==
  ASSUME TypeOK, CallInv, NEW a \in Accounts
  PROVE  Ledger!In(a) = Counted(a)
  BY DEF Ledger!In, Counted, Phase, TypeOK, PermitRow, CallInv, CallRow, SentOnce

LEMMA LedgerSums ==
  ASSUME NEW S
  PROVE  Ledger!SumFunctionOnSet(Charge, S) = SumFunctionOnSet(Charge, S)
  BY DEF Ledger!SumFunctionOnSet, SumFunctionOnSet, FoldFunctionOnSet,
    Ledger!FoldFunctionOnSet, MapThenFoldSet, Ledger!MapThenFoldSet

LEMMA LedgerSizes ==
  ASSUME NEW S
  PROVE  Ledger!Cardinality(S) = Cardinality(S)
  BY DEF Ledger!Cardinality, Cardinality, Ledger!IsFiniteSet, IsFiniteSet

\* The phase of a call whose row is x and whose provider was called n times.
PhaseOf(x, n) ==
    CASE n > 1 -> "twice"
      [] x.state = "none" -> "none"
      [] x.state = "released" -> "freed"
      [] x.state = "settled" -> "settled"
      [] x.state \in {"reserved", "dispatched"} /\ n = 0 -> "held"
      [] OTHER -> "sent"

LEMMA PhaseTable ==
  ASSUME NEW x \in PermitRow, NEW n \in {0, 1}
  PROVE  /\ x.state = "none" => PhaseOf(x, n) = "none"
         /\ x.state = "released" => PhaseOf(x, n) = "freed"
         /\ x.state = "settled" => PhaseOf(x, n) = "settled"
         /\ x.state \in {"reserved", "dispatched"} /\ n = 0 => PhaseOf(x, n) = "held"
         /\ x.state = "dispatched" /\ n = 1 => PhaseOf(x, n) = "sent"
<1>1. ~(n > 1)
  OBVIOUS
<1>2. x.state \in {"none", "reserved", "dispatched", "released", "settled"}
  BY DEF PermitRow
<1>3. n = 1 => n # 0
  OBVIOUS
<1> QED
  BY <1>1, <1>2, <1>3 DEF PhaseOf

LEMMA PhaseIs ==
  ASSUME NEW c
  PROVE  Phase(c) = PhaseOf(permit[c], sends[c]) /\ Phase(c)' = PhaseOf(permit'[c], sends'[c])
  BY DEF Phase, PhaseOf

LEMMA LedgerMove ==
  ASSUME NEW c \in Calls,
         \A d \in Calls : d # c => permit'[d] = permit[d] /\ sends'[d] = sends[d]
  PROVE  /\ [d \in Calls |-> Phase(d)]' = [[d \in Calls |-> Phase(d)] EXCEPT ![c] = Phase(c)']
         /\ Charge' = [Charge EXCEPT ![c] = permit'[c].tokens]
<1>1. \A d \in Calls : d # c => Phase(d)' = Phase(d)
  BY PhaseIs
<1> QED
  BY <1>1 DEF Charge

LEMMA LedgerStutter ==
  ASSUME \A d \in Calls : /\ permit'[d].state = permit[d].state
                          /\ permit'[d].tokens = permit[d].tokens
                          /\ sends'[d] = sends[d]
  PROVE  UNCHANGED Ledger!vars
<1>1. \A d \in Calls : Phase(d)' = Phase(d)
  BY DEF Phase
<1> QED
  BY <1>1 DEF Charge, Ledger!vars

\* The call c moves on, and the amount it is charged is given.
LEMMA LedgerPhases ==
  ASSUME TypeOK, TypeOK', CallInv, CallInv', NEW c \in Calls
  PROVE  /\ permit[c] \in PermitRow /\ permit'[c] \in PermitRow
         /\ sends[c] \in {0, 1} /\ sends'[c] \in {0, 1}
         /\ Phase(c) = PhaseOf(permit[c], sends[c])
         /\ Phase(c)' = PhaseOf(permit'[c], sends'[c])
  BY PhaseIs DEF TypeOK, CallInv, CallRow, SentOnce

\* The phase of a call before the step, by its row and its sends.
LEMMA PhaseBefore ==
  ASSUME TypeOK, TypeOK', CallInv, CallInv', NEW c \in Calls
  PROVE  /\ permit[c].state = "none" => Phase(c) = "none"
         /\ permit[c].state = "released" => Phase(c) = "freed"
         /\ permit[c].state = "settled" => Phase(c) = "settled"
         /\ permit[c].state \in {"reserved", "dispatched"} /\ sends[c] = 0
              => Phase(c) = "held"
         /\ permit[c].state = "dispatched" /\ sends[c] = 1 => Phase(c) = "sent"
<1>1. permit[c] \in PermitRow /\ sends[c] \in {0, 1}
      /\ Phase(c) = PhaseOf(permit[c], sends[c])
  BY LedgerPhases
<1>2. DEFINE x == permit[c]  n == sends[c]
<1>3. x \in PermitRow /\ n \in {0, 1} /\ Phase(c) = PhaseOf(x, n)
  BY <1>1
<1> HIDE DEF x, n
<1>4. /\ x.state = "none" => Phase(c) = "none"
      /\ x.state = "released" => Phase(c) = "freed"
      /\ x.state = "settled" => Phase(c) = "settled"
      /\ x.state \in {"reserved", "dispatched"} /\ n = 0 => Phase(c) = "held"
      /\ x.state = "dispatched" /\ n = 1 => Phase(c) = "sent"
  BY <1>3, PhaseTable
<1> QED
  BY <1>4 DEF x, n

\* The phase of a call after the step, by its row and its sends.
LEMMA PhaseAfter ==
  ASSUME TypeOK, TypeOK', CallInv, CallInv', NEW c \in Calls
  PROVE  /\ permit'[c].state = "none" => Phase(c)' = "none"
         /\ permit'[c].state = "released" => Phase(c)' = "freed"
         /\ permit'[c].state = "settled" => Phase(c)' = "settled"
         /\ permit'[c].state \in {"reserved", "dispatched"} /\ sends'[c] = 0
              => Phase(c)' = "held"
         /\ permit'[c].state = "dispatched" /\ sends'[c] = 1 => Phase(c)' = "sent"
<1>1. permit'[c] \in PermitRow /\ sends'[c] \in {0, 1}
      /\ Phase(c)' = PhaseOf(permit'[c], sends'[c])
  BY LedgerPhases
<1>2. DEFINE x == permit'[c]  n == sends'[c]  ph == Phase(c)'
<1>3. x \in PermitRow /\ n \in {0, 1} /\ ph = PhaseOf(x, n)
  BY <1>1
<1> HIDE DEF x, n, ph
<1>4. /\ x.state = "none" => ph = "none"
      /\ x.state = "released" => ph = "freed"
      /\ x.state = "settled" => ph = "settled"
      /\ x.state \in {"reserved", "dispatched"} /\ n = 0 => ph = "held"
      /\ x.state = "dispatched" /\ n = 1 => ph = "sent"
  BY <1>3, PhaseTable
<1> QED
  BY <1>4 DEF x, n, ph

\* A new reservation is held in every account above it.
LEMMA HoldStep ==
  ASSUME TypeOK, TypeOK', CallInv, CallInv', NEW c \in Calls,
         RecordPermit(c), permit[c].state = "none"
  PROVE  Ledger!Hold(c)
<1>1. /\ Funded(c) /\ sends' = sends
      /\ permit' = [permit EXCEPT ![c] =
                      [state |-> IF c \in Legacy THEN "dispatched" ELSE "reserved",
                       tokens |-> Asked[c], usage |-> "none"]]
  BY DEF RecordPermit, provider
<1>2. /\ permit'[c].state \in {"reserved", "dispatched"} /\ permit'[c].tokens = Asked[c]
      /\ \A d \in Calls : d # c => permit'[d] = permit[d] /\ sends'[d] = sends[d]
  BY <1>1 DEF TypeOK
<1>3. sends[c] = 0 /\ sends'[c] = 0
  BY <1>1 DEF CallInv, CallRow, SentOnce
<1>4. Phase(c) = "none" /\ Phase(c)' = "held"
  BY <1>2, <1>3, PhaseBefore, PhaseAfter
<1>5. \A p \in Above[Pays[c]] :
        /\ Cardinality(Ledger!In(p)) < Ceiling[p].calls
        /\ Ledger!SumFunctionOnSet(Charge, Ledger!In(p)) + Asked[c] <= Ceiling[p].tokens
  <2> SUFFICES ASSUME NEW p \in Above[Pays[c]]
               PROVE  /\ Cardinality(Ledger!In(p)) < Ceiling[p].calls
                      /\ Ledger!SumFunctionOnSet(Charge, Ledger!In(p)) + Asked[c]
                            <= Ceiling[p].tokens
    OBVIOUS
  <2>1. p \in Accounts
    BY BudgetAssumption
  <2>2. Ledger!In(p) = Counted(p)
    BY <2>1, LedgerCounts
  <2>3. Ledger!SumFunctionOnSet(Charge, Counted(p)) = Tokens(p)
    BY LedgerSums DEF Tokens
  <2> QED
    BY <1>1, <2>2, <2>3 DEF Funded
<1>6. /\ [d \in Calls |-> Phase(d)]' = [[d \in Calls |-> Phase(d)] EXCEPT ![c] = "held"]
      /\ Charge' = [Charge EXCEPT ![c] = Asked[c]]
  BY <1>2, <1>4, LedgerMove
<1>7. /\ [d \in Calls |-> Phase(d)][c] = "none"
      /\ [d \in Calls |-> Above[Pays[d]]][c] = Above[Pays[c]]
  BY <1>4
<1> QED
  BY <1>5, <1>6, <1>7, LedgerSizes DEF Ledger!Hold

LEMMA FreeStep ==
  ASSUME TypeOK, TypeOK', CallInv, CallInv', NEW c \in Calls,
         ReleasePermit(c)
  PROVE  Ledger!Free(c) \/ UNCHANGED Ledger!vars
<1>0. sends' = sends
  BY DEF ReleasePermit, provider
<1>1. CASE permit' = permit
  BY <1>0, <1>1, LedgerStutter
<1>2. CASE Releasable(c) /\ permit' = [permit EXCEPT ![c].state = "released"]
  <2>1. permit'[c] = [permit[c] EXCEPT !.state = "released"]
    BY <1>2 DEF TypeOK
  <2>2. permit'[c].state = "released" /\ permit'[c].tokens = permit[c].tokens
    BY <2>1, LedgerPhases, Fields
  <2>3. \A d \in Calls : d # c => permit'[d] = permit[d] /\ sends'[d] = sends[d]
    BY <1>0, <1>2 DEF TypeOK
  <2>4. CASE permit[c].state = "released"
    BY <1>0, <2>2, <2>3, <2>4, LedgerStutter
  <2>5. CASE permit[c].state = "reserved"
    <3>1. sends[c] = 0
      BY <2>5 DEF CallInv, CallRow, SentOnce
    <3>2. Phase(c) = "held" /\ Phase(c)' = "freed"
      BY <2>2, <2>5, <3>1, PhaseBefore, PhaseAfter
    <3>3. /\ [d \in Calls |-> Phase(d)]' = [[d \in Calls |-> Phase(d)] EXCEPT ![c] = "freed"]
          /\ Charge' = [Charge EXCEPT ![c] = permit[c].tokens]
      BY <2>2, <2>3, <3>2, LedgerMove
    <3>4. Charge' = Charge
      BY <3>3 DEF Charge
    <3> QED
      BY <3>2, <3>3, <3>4 DEF Ledger!Free
  <2> QED
    BY <1>2, <2>4, <2>5 DEF Releasable
<1> QED
  BY <1>1, <1>2 DEF ReleasePermit

LEMMA SettleStep ==
  ASSUME TypeOK, TypeOK', CallInv, CallInv', NEW c \in Calls,
         RecordUsage(c)
  PROVE  Ledger!Settle(c) \/ UNCHANGED Ledger!vars
<1>0. sends' = sends
  BY DEF RecordUsage, provider
<1>1. CASE permit' = permit
  BY <1>0, <1>1, LedgerStutter
<1>2. CASE UsageAccepted(c) /\ permit' = [permit EXCEPT ![c] = Settled(c)]
  <2>1. /\ permit'[c] = Settled(c) /\ permit[c].state = "dispatched"
        /\ \A d \in Calls : d # c => permit'[d] = permit[d] /\ sends'[d] = sends[d]
    BY <1>0, <1>2 DEF TypeOK, UsageAccepted
  <2>2. CASE report[c] # "full"
    <3>1. permit'[c].state = permit[c].state /\ permit'[c].tokens = permit[c].tokens
      BY <2>1, <2>2, LedgerPhases, Fields DEF Settled
    <3> QED
      BY <1>0, <2>1, <3>1, LedgerStutter
  <2>3. CASE report[c] = "full"
    <3>1. permit'[c].state = "settled" /\ permit'[c].tokens = bill[c] /\ bill[c] \in Nat
      BY <2>1, <2>3 DEF Settled, TypeOK
    <3>2. sends[c] = 1
      BY <2>3 DEF CallInv, CallRow, CallerKnows
    <3>3. Phase(c) = "sent" /\ Phase(c)' = "settled"
      BY <2>1, <3>1, <3>2, PhaseBefore, PhaseAfter
    <3>4. /\ [d \in Calls |-> Phase(d)]' = [[d \in Calls |-> Phase(d)] EXCEPT ![c] = "settled"]
          /\ Charge' = [Charge EXCEPT ![c] = bill[c]]
      BY <2>1, <3>1, <3>3, LedgerMove
    <3>5. Charge'[c] = bill[c]
      BY <3>4 DEF Charge
    <3> QED
      BY <3>1, <3>3, <3>4, <3>5 DEF Ledger!Settle
  <2> QED
    BY <2>2, <2>3
<1> QED
  BY <1>1, <1>2 DEF RecordUsage

LEMMA SendStep ==
  ASSUME TypeOK, TypeOK', CallInv, CallInv', NEW c \in Calls,
         SendToProvider(c)
  PROVE  Ledger!Send(c)
<1>1. /\ permit' = permit /\ sends' = [sends EXCEPT ![c] = @ + 1]
      /\ permit[c].state = "dispatched" /\ sends[c] = 0
  BY DEF SendToProvider, CallInv, CallRow, SentOnce, Acknowledged
<1>2. sends'[c] = 1 /\ \A d \in Calls : d # c => permit'[d] = permit[d] /\ sends'[d] = sends[d]
  BY <1>1 DEF TypeOK
<1>3. Phase(c) = "held" /\ Phase(c)' = "sent"
  <2>1. sends[c] = 0 /\ permit[c].state = "dispatched"
    BY <1>1
  <2>2. sends'[c] = 1 /\ permit'[c].state = "dispatched"
    BY <1>1, <1>2
  <2> QED
    BY <2>1, <2>2, PhaseBefore, PhaseAfter
<1>4. [d \in Calls |-> Phase(d)]' = [[d \in Calls |-> Phase(d)] EXCEPT ![c] = "sent"]
  BY <1>2, <1>3, LedgerMove
<1>5. Charge' = Charge
  BY <1>1 DEF Charge
<1> QED
  BY <1>3, <1>4, <1>5 DEF Ledger!Send

LEMMA LedgerInit == Init => Ledger!Init
<1> SUFFICES ASSUME Init PROVE Ledger!Init
  OBVIOUS
<1>1. \A c \in Calls : Phase(c) = "none"
  <2> SUFFICES ASSUME NEW c \in Calls PROVE Phase(c) = "none"
    OBVIOUS
  <2>1. permit[c] \in PermitRow /\ permit[c].state = "none" /\ sends[c] \in {0, 1}
    BY NoPermitType DEF Init, NoPermit
  <2> QED
    BY <2>1, PhaseIs, PhaseTable
<1>2. Charge = [c \in Calls |-> 0]
  BY DEF Init, Charge, NoPermit
<1> QED
  BY <1>1, <1>2 DEF Ledger!Init

LEMMA LedgerStep ==
  ASSUME TypeOK, TypeOK', CallInv, CallInv', [Next]_vars
  PROVE  [Ledger!Next]_Ledger!vars
<1>1. ASSUME UNCHANGED <<permit, sends>> PROVE UNCHANGED Ledger!vars
  BY <1>1, LedgerStutter
<1>2. ASSUME NEW c \in Calls, HostStep(c) \/ Deny(c) PROVE [Ledger!Next]_Ledger!vars
  <2>1. CASE RecordPermit(c)
    <3>1. permit[c].state # "none" => UNCHANGED <<permit, sends>>
      BY <2>1 DEF RecordPermit, provider
    <3> QED
      BY <1>1, <2>1, <3>1, HoldStep DEF Ledger!Next
  <2>2. CASE DispatchPermit(c)
    <3>1. /\ permit[c].state = "reserved" /\ sends' = sends
          /\ permit' = [permit EXCEPT ![c].state = "dispatched"]
      BY <2>2 DEF DispatchPermit, Dispatchable, provider
    <3>2. /\ permit'[c] = [permit[c] EXCEPT !.state = "dispatched"] /\ sends[c] = 0
          /\ \A d \in Calls : d # c => permit'[d] = permit[d] /\ sends'[d] = sends[d]
      BY <3>1 DEF TypeOK, CallInv, CallRow, SentOnce
    <3>3. permit'[c].state = "dispatched" /\ permit'[c].tokens = permit[c].tokens
      BY <3>2, LedgerPhases, Fields
    <3>4. Phase(c) = "held" /\ Phase(c)' = "held"
      <4>1. sends[c] = 0 /\ permit[c].state = "reserved"
        BY <3>1, <3>2
      <4>2. sends'[c] = 0 /\ permit'[c].state = "dispatched"
        BY <3>1, <3>2, <3>3
      <4> QED
        BY <4>1, <4>2, PhaseBefore, PhaseAfter
    <3>5. /\ [d \in Calls |-> Phase(d)]' = [[d \in Calls |-> Phase(d)] EXCEPT ![c] = "held"]
          /\ Charge' = [Charge EXCEPT ![c] = permit[c].tokens]
      BY <3>2, <3>3, <3>4, LedgerMove
    <3>6. [d \in Calls |-> Phase(d)]' = [d \in Calls |-> Phase(d)] /\ Charge' = Charge
      BY <3>4, <3>5 DEF Charge
    <3> QED
      BY <3>6 DEF Ledger!vars
  <2>3. CASE ReleasePermit(c)
    BY <2>3, FreeStep DEF Ledger!Next
  <2>4. CASE RecordUsage(c)
    BY <2>4, SettleStep DEF Ledger!Next
  <2>5. CASE CheckPermit(c) \/ LookupPermit(c) \/ Deny(c)
    BY <1>1, <2>5 DEF CheckPermit, LookupPermit, Deny, provider
  <2> QED
    BY <1>2, <2>1, <2>2, <2>3, <2>4, <2>5 DEF HostStep
<1>3. ASSUME NEW c \in Calls, CallerStep(c) PROVE [Ledger!Next]_Ledger!vars
  <2>1. CASE SendToProvider(c)
    BY <2>1, SendStep DEF Ledger!Next
  <2>2. CASE UNCHANGED <<permit, sends>>
    BY <1>1, <2>2
  <2> QED
    BY <1>3, <2>1, <2>2
    DEF CallerStep, StartCall, HearOk, Fail, ReportUsage, Repeat, provider
<1>4. CASE AccountStep \/ DeadlinePasses \/ CrashAndRecover \/ UNCHANGED vars
  <2>1. UNCHANGED <<permit, sends>>
    BY <1>4
    DEF AccountStep, Allocate, FinishAllocation, BeginRun, KillWorker, FinishRun,
        DeadlinePasses, CrashAndRecover, vars, provider
  <2> QED
    BY <1>1, <2>1
<1> QED
  BY <1>2, <1>3, <1>4 DEF Next

\* Whatever is lost, late or repeated between callers and host, each call goes
\* through the ledger as the protocol says: funded in every account above it,
\* sent at most once, released only if it was not sent, settled once with what
\* it cost (docs/protocol.md, Budget allocations).
THEOREM Refinement == Spec => ImplementsCallLedger
<1>1. Init => Ledger!Init
  BY LedgerInit
<1>2. TypeOK /\ TypeOK' /\ CallInv /\ CallInv' /\ [Next]_vars => [Ledger!Next]_Ledger!vars
  BY LedgerStep
<1> QED
  BY <1>1, <1>2, CallInvariance, PTL DEF Spec, ImplementsCallLedger, Ledger!Spec
-----------------------------------------------------------------------------
(* Below a stopped account calls are settled or released and nothing else. *)

OnlySettles ==
    \A c \in Calls :
       /\ \E a \in Above[Pays[c]] : alloc[a] \in Stopped
       /\ permit'[c].state # permit[c].state
       => permit'[c].state \in {"settled", "released"}

LEMMA StoppedAccountsSettle ==
  ASSUME TypeOK, [Next]_vars
  PROVE  OnlySettles
<1> SUFFICES ASSUME NEW c \in Calls, NEW a \in Above[Pays[c]], alloc[a] \in Stopped,
                    permit'[c].state # permit[c].state
             PROVE  permit'[c].state \in {"settled", "released"}
  BY DEF OnlySettles
<1>1. ~AllocationOpen(Pays[c])
  BY DEF AllocationOpen
<1>2. ~NewWindow(c)
  <2>1. c \in Compaction => /\ Pays[c] \in Accounts \ {Root}
                            /\ Above[Pays[c]] = {Pays[c]} \cup Above[Up[Pays[c]]]
    BY BudgetAssumption
  <2>2. alloc[Pays[c]] = "none" => alloc[Pays[c]] \notin Stopped
    BY DEF Stopped
  <2> QED
    BY <2>1, <2>2 DEF NewWindow, MayAllocate, AllocationOpen
<1>3. ~RecordPermit(c) /\ ~DispatchPermit(c)
  BY <1>1, <1>2 DEF RecordPermit, DispatchPermit, PermitAccountOpen
<1>4. ASSUME NEW d \in Calls, HostStep(d) \/ Deny(d) \/ CallerStep(d) PROVE d = c
  BY <1>4, OthersStay
<1>5. CASE ReleasePermit(c)
  <2>1. permit' = [permit EXCEPT ![c].state = "released"]
    BY <1>5 DEF ReleasePermit
  <2>2. permit'[c] = [permit[c] EXCEPT !.state = "released"]
    BY <2>1 DEF TypeOK
  <2> QED
    BY <2>2, Fields DEF TypeOK
<1>6. CASE RecordUsage(c)
  <2>1. Settled(c).state \in {"settled", permit[c].state}
    BY Fields DEF Settled, TypeOK
  <2> QED
    BY <1>6, <2>1 DEF RecordUsage, TypeOK
<1>7. CASE UNCHANGED permit
  BY <1>7
<1>8. ~(AccountStep \/ DeadlinePasses \/ CrashAndRecover \/ UNCHANGED vars)
  BY QuietSteps DEF Quiet
<1>9. HostStep(c) \/ Deny(c) \/ CallerStep(c)
  BY <1>4, <1>8 DEF Next
<1> QED
  BY <1>3, <1>5, <1>6, <1>7, <1>9
  DEF HostStep, Deny, CheckPermit, LookupPermit, CallerStep, StartCall, SendToProvider,
      HearOk, Fail, ReportUsage, Repeat

\* A permit whose account stopped between its check and its transaction is not
\* recorded, and a recorded one not dispatched: both look at all accounts above.
THEOREM StoppedSubtrees == Spec => StoppedSubtreeOnlySettles
<1>1. TypeOK /\ [Next]_vars => [OnlySettles]_vars
  BY StoppedAccountsSettle
<1>2. Spec => [][OnlySettles]_vars
  BY <1>1, TypeCorrect, PTL DEF Spec
<1> QED
  BY <1>2, PTL DEF StoppedSubtreeOnlySettles, OnlySettles
-----------------------------------------------------------------------------
(* The ceilings on tokens.  Settlements may exceed the reservation, so that *)
(* the sum of the charges is not what stays below a ceiling: what does is   *)
(* the part of each charge that was reserved.                               *)

Reserved(x, n) ==
    IF x.state \in {"none", "released"} THEN 0 ELSE IF x.tokens <= n THEN x.tokens ELSE n
Floor == [c \in Calls |-> Reserved(permit[c], Asked[c])]

\* Of the charges below an account, what was reserved for them fits its ceiling.
FloorsFit == \A a \in Accounts : SumFunctionOnSet(Floor, Below(a)) <= Ceiling[a].tokens

LEMMA ReservedFacts ==
  ASSUME NEW x \in PermitRow, NEW n \in Nat
  PROVE  /\ Reserved(x, n) \in 0..n /\ Reserved(x, n) <= x.tokens /\ x.tokens \in Nat
         /\ x.state \in {"none", "released"} => Reserved(x, n) = 0
         /\ x.state \notin {"none", "released"} /\ x.tokens = n => Reserved(x, n) = n
         /\ \A y \in PermitRow :
              y.state \notin {"none", "released"} /\ x.state \notin {"none", "released"}
                /\ y.tokens = x.tokens => Reserved(y, n) = Reserved(x, n)
  BY DEF PermitRow, Reserved

LEMMA FloorType ==
  ASSUME TypeOK
  PROVE  /\ \A c \in Calls : Floor[c] \in Nat /\ Floor[c] <= Asked[c] /\ Asked[c] \in Nat
         /\ \A c \in Calls : Floor[c] = Reserved(permit[c], Asked[c])
         /\ \A c \in Calls : permit[c] \in PermitRow
         /\ Floor \in [Calls -> Nat]
  BY ReservedFacts, BudgetAssumption DEF TypeOK, Floor

LEMMA FloorTypePrime ==
  ASSUME TypeOK'
  PROVE  /\ \A c \in Calls : Floor'[c] \in Nat /\ Floor'[c] <= Asked[c] /\ Asked[c] \in Nat
         /\ \A c \in Calls : Floor'[c] = Reserved(permit'[c], Asked[c])
         /\ \A c \in Calls : permit'[c] \in PermitRow
         /\ Floor' \in [Calls -> Nat]
  BY ReservedFacts, BudgetAssumption DEF TypeOK, Floor

LEMMA BelowFinite ==
  ASSUME NEW a \in Accounts
  PROVE  Below(a) \in SUBSET Calls /\ IsFiniteSet(Below(a))
         /\ Counted(a) \in SUBSET Below(a) /\ IsFiniteSet(Calls)
<1>1. Below(a) \in SUBSET Calls /\ Counted(a) \in SUBSET Below(a) BY DEF Below, Counted
<1> QED BY <1>1, FS_Subset, BudgetAssumption

\* Only a permit that is recorded takes more of a ceiling, and it is funded.
Takes(c) ==
    /\ permit[c].state = "none" /\ Funded(c)
    /\ \A d \in Calls \ {c} : permit'[d] = permit[d]

LEMMA FloorStep ==
  ASSUME TypeOK, TypeOK', CallInv, [Next]_vars
  PROVE  (\A d \in Calls : Floor'[d] <= Floor[d]) \/ \E c \in Calls : Takes(c)
<1>0. ASSUME permit' = permit PROVE \A d \in Calls : Floor'[d] <= Floor[d]
  BY <1>0, FloorType DEF Floor
<1>1. ASSUME NEW c \in Calls, Reserved(permit'[c], Asked[c]) <= Reserved(permit[c], Asked[c]),
             \A d \in Calls \ {c} : permit'[d] = permit[d]
      PROVE  \A d \in Calls : Floor'[d] <= Floor[d]
  <2> SUFFICES ASSUME NEW d \in Calls PROVE Floor'[d] <= Floor[d] OBVIOUS
  <2>1. CASE d = c BY <1>1, <2>1, FloorType, FloorTypePrime
  <2>2. CASE d # c
    <3>1. permit'[d] = permit[d] BY <1>1, <2>2
    <3>2. Floor'[d] = Floor[d] BY <3>1, FloorType, FloorTypePrime
    <3> QED BY <3>2, FloorType
  <2> QED BY <2>1, <2>2
<1>2. ASSUME NEW c \in Calls, HostStep(c)
      PROVE  (\A d \in Calls : Floor'[d] <= Floor[d]) \/ Takes(c)
  <2>0. /\ permit[c] \in PermitRow /\ permit'[c] \in PermitRow /\ Asked[c] \in Nat /\ CallRow(c)
        /\ \A d \in Calls \ {c} : permit'[d] = permit[d]
    BY <1>2, FloorType, FloorTypePrime, OthersStay DEF CallInv
  <2>1. CASE RecordPermit(c)
    BY <1>0, <2>0, <2>1 DEF RecordPermit, Takes
  <2>2. CASE DispatchPermit(c)
    <3>1. permit[c].state = "reserved" /\ permit'[c] = [permit[c] EXCEPT !.state = "dispatched"]
      BY <2>2 DEF DispatchPermit, Dispatchable, TypeOK
    <3>2. permit'[c].state = "dispatched" /\ permit'[c].tokens = permit[c].tokens
      BY <2>0, <3>1, Fields
    <3>3. Reserved(permit'[c], Asked[c]) = Reserved(permit[c], Asked[c])
      BY <3>1, <3>2 DEF Reserved
    <3> QED BY <1>1, <2>0, <3>3, ReservedFacts
  <2>3. CASE ReleasePermit(c)
    <3>1. CASE permit' = [permit EXCEPT ![c].state = "released"]
      <4>1. permit'[c] = [permit[c] EXCEPT !.state = "released"] BY <3>1 DEF TypeOK
      <4>2. permit'[c].state = "released" BY <2>0, <4>1, Fields
      <4>3. Reserved(permit'[c], Asked[c]) = 0 /\ 0 <= Reserved(permit[c], Asked[c])
        BY <2>0, <4>2, ReservedFacts
      <4> QED BY <1>1, <2>0, <4>3
    <3> QED BY <1>0, <2>3, <3>1 DEF ReleasePermit
  <2>4. CASE RecordUsage(c)
    <3>1. CASE permit[c].state = "dispatched"
      <4>1. permit[c].tokens = Asked[c] BY <2>0, <3>1 DEF CallRow, ChargeKept
      <4>2. Reserved(permit[c], Asked[c]) = Asked[c] BY <2>0, <3>1, <4>1, ReservedFacts
      <4>3. Reserved(permit'[c], Asked[c]) <= Asked[c] BY <2>0, ReservedFacts
      <4> QED BY <1>1, <2>0, <4>2, <4>3
    <3> QED BY <1>0, <2>4, <3>1 DEF RecordUsage, UsageAccepted
  <2> QED
    BY <1>0, <1>2, <2>1, <2>2, <2>3, <2>4 DEF HostStep, CheckPermit, LookupPermit
<1> QED
  BY <1>0, <1>2
  DEF Next, Deny, CallerStep, StartCall, SendToProvider, HearOk, Fail, ReportUsage, Repeat,
      AccountStep, Allocate, FinishAllocation, BeginRun, KillWorker, FinishRun,
      DeadlinePasses, CrashAndRecover, vars

LEMMA FloorsStep == TypeOK /\ TypeOK' /\ CallInv /\ FloorsFit /\ [Next]_vars => FloorsFit'
<1> SUFFICES ASSUME TypeOK, TypeOK', CallInv, FloorsFit, [Next]_vars, NEW a \in Accounts
             PROVE  SumFunctionOnSet(Floor', Below(a)) <= Ceiling[a].tokens
  BY DEF FloorsFit, Below
<1>0. SumFunctionOnSet(Floor, Below(a)) <= Ceiling[a].tokens /\ Ceiling[a].tokens \in Nat
  BY BudgetAssumption DEF FloorsFit
<1>1. /\ IsFiniteSet(Below(a)) /\ Below(a) \in SUBSET Calls
      /\ \A x \in Below(a) : Floor[x] \in Nat /\ Floor'[x] \in Nat
      /\ SumFunctionOnSet(Floor, Below(a)) \in Nat /\ SumFunctionOnSet(Floor', Below(a)) \in Nat
  BY BelowFinite, FloorType, FloorTypePrime, SumIsNumber
<1>2. ASSUME \A x \in Below(a) : Floor'[x] <= Floor[x]
      PROVE  SumFunctionOnSet(Floor', Below(a)) <= Ceiling[a].tokens
  <2>1. SumFunctionOnSet(Floor', Below(a)) <= SumFunctionOnSet(Floor, Below(a))
    BY <1>1, <1>2, SumBelow
  <2> QED BY <1>0, <1>1, <2>1
<1>3. ASSUME NEW c \in Calls, Takes(c)
      PROVE  SumFunctionOnSet(Floor', Below(a)) <= Ceiling[a].tokens
  <2>1. \A d \in Calls \ {c} : Floor'[d] = Floor[d]
    BY <1>3, FloorType, FloorTypePrime DEF Takes
  <2>2. CASE c \notin Below(a)
    BY <1>1, <1>2, <2>1, <2>2, FloorType
  <2>3. CASE c \in Below(a)
    <3> DEFINE B == Below(a) \ {c}
    <3>1. a \in Above[Pays[c]] /\ Tokens(a) + Asked[c] <= Ceiling[a].tokens
      BY <1>3, <2>3 DEF Takes, Funded, Below
    <3>2. IsFiniteSet(B) /\ Counted(a) \in SUBSET B
      <4>1. c \notin Counted(a) BY <1>3 DEF Takes, Counted
      <4> QED BY <1>1, <4>1, BelowFinite, FS_Subset
    <3>3. SumFunctionOnSet(Floor', Below(a)) = Floor'[c] + SumFunctionOnSet(Floor', B)
      BY <1>1, <2>3, SumTakes
    <3>4. /\ \A x \in B : Floor'[x] \in Nat
          /\ \A x \in Counted(a) : Charge[x] \in Nat /\ Floor'[x] <= Charge[x]
          /\ \A x \in B \ Counted(a) : Floor'[x] = 0
      <4>1. \A x \in B : Floor'[x] \in Nat BY <1>1
      <4>2. \A x \in Counted(a) : Charge[x] \in Nat /\ Floor'[x] <= Charge[x]
        <5> SUFFICES ASSUME NEW x \in Counted(a)
                     PROVE  Charge[x] \in Nat /\ Floor'[x] <= Charge[x]
          OBVIOUS
        <5>1. x \in Calls /\ x # c BY <1>1, <3>2
        <5>2. Charge[x] = permit[x].tokens /\ Floor'[x] = Reserved(permit[x], Asked[x])
          BY <2>1, <5>1, FloorType DEF Charge
        <5> QED BY <5>1, <5>2, FloorType, ReservedFacts
      <4>3. \A x \in B \ Counted(a) : Floor'[x] = 0
        <5> SUFFICES ASSUME NEW x \in B \ Counted(a) PROVE Floor'[x] = 0 OBVIOUS
        <5>1. x \in Calls /\ x # c BY <1>1
        <5>2. permit[x].state \in {"none", "released"} BY <5>1 DEF Below, Counted
        <5>3. Floor'[x] = Reserved(permit[x], Asked[x]) BY <2>1, <5>1, FloorType
        <5> QED BY <5>1, <5>2, <5>3, FloorType, ReservedFacts
      <4> QED BY <4>1, <4>2, <4>3
    <3>5. SumFunctionOnSet(Floor', B) <= Tokens(a)
      <4> HIDE DEF B
      <4>1. SumFunctionOnSet(Floor', B) <= SumFunctionOnSet(Charge, Counted(a))
        BY <3>2, <3>4, SumBelow
      <4> QED BY <4>1 DEF Tokens
    <3>6. Tokens(a) \in Nat /\ SumFunctionOnSet(Floor', B) \in Nat
      <4> HIDE DEF B
      <4>1. SumFunctionOnSet(Charge, Counted(a)) \in Nat
        <5>1. IsFiniteSet(Counted(a)) BY CountedFinite
        <5> QED BY <3>4, <5>1, SumIsNumber
      <4>2. SumFunctionOnSet(Floor', B) \in Nat BY <3>2, <3>4, SumIsNumber
      <4> QED BY <4>1, <4>2 DEF Tokens
    <3>7. Floor'[c] \in Nat /\ Asked[c] \in Nat /\ Floor'[c] <= Asked[c] BY FloorTypePrime
    <3> HIDE DEF B
    <3> QED BY <1>0, <3>1, <3>3, <3>5, <3>6, <3>7
  <2> QED BY <2>2, <2>3
<1> QED BY <1>1, <1>2, <1>3, FloorStep

\* The inductive invariant of the sums, for every tree, every ceiling and every
\* bill.
THEOREM ReservationsFit == Spec => []FloorsFit
<1>1. Init => FloorsFit
  <2> SUFFICES ASSUME Init, NEW a \in Accounts
               PROVE  SumFunctionOnSet(Floor, Below(a)) <= Ceiling[a].tokens
    BY DEF FloorsFit
  <2>1. TypeOK BY InitType
  <2>2. \A x \in Below(a) : Floor[x] \in Nat /\ Floor[x] = 0
    BY <2>1, FloorType DEF Init, NoPermit, Reserved, Below
  <2>3. IsFiniteSet(Below(a)) /\ {} \in SUBSET Below(a) /\ IsFiniteSet({})
    BY BelowFinite, FS_EmptySet
  <2>4. SumFunctionOnSet(Floor, Below(a)) <= SumFunctionOnSet(Floor, {})
    BY <2>2, <2>3, SumBelow
  <2>5. SumFunctionOnSet(Floor, {}) = 0 BY <2>3, SumRecursion
  <2>6. SumFunctionOnSet(Floor, Below(a)) \in Nat BY <2>2, <2>3, SumIsNumber
  <2>7. Ceiling[a].tokens \in Nat BY BudgetAssumption
  <2> QED BY <2>4, <2>5, <2>6, <2>7
<1> QED BY <1>1, CallInvariance, FloorsStep, PTL DEF Spec

LEMMA OverrunType ==
  ASSUME TypeOK
  PROVE  \A c \in Calls : /\ Overrun[c] \in Nat /\ bill[c] \in Nat /\ Asked[c] \in Nat
                          /\ bill[c] <= Asked[c] + Overrun[c]
  BY BudgetAssumption DEF TypeOK, Overrun

\* Reservations and settled charges of a whole subtree stay within the ceilings of
\* every account above it, but for what providers charged beyond a reservation
\* (accounting.rs permit_in_allocation, usage).
THEOREM ChargesWithinCeilings == Spec => []WithinCeilings
<1>1. TypeOK /\ CallInv /\ CallCeilings /\ FloorsFit => WithinCeilings
  <2> SUFFICES ASSUME TypeOK, CallInv, CallCeilings, FloorsFit, NEW a \in Accounts
               PROVE  /\ Cardinality(Counted(a)) <= Ceiling[a].calls
                      /\ SumFunctionOnSet(Charge, Counted(a)) <= Ceilings(a)
    <3>1. \A a \in Accounts :
            {c \in Below(a) : permit[c].state \notin {"none", "released"}} = Counted(a)
      BY DEF Below, Counted
    <3> QED BY <3>1 DEF WithinCeilings
  <2>1. Cardinality(Counted(a)) <= Ceiling[a].calls BY DEF CallCeilings
  <2>2. \A x \in Below(a) : Floor[x] \in Nat /\ Overrun[x] \in Nat
    BY BelowFinite, FloorType, OverrunType
  <2>3. \A x \in Counted(a) : Charge[x] \in Nat /\ Charge[x] <= Floor[x] + Overrun[x]
    <3> SUFFICES ASSUME NEW x \in Counted(a)
                 PROVE  Charge[x] \in Nat /\ Charge[x] <= Floor[x] + Overrun[x]
      OBVIOUS
    <3>1. /\ x \in Calls /\ permit[x].state \notin {"none", "released"}
          /\ permit[x] \in PermitRow /\ CallRow(x) /\ permit[x].tokens \in Nat
      BY FloorType, ReservedFacts DEF Counted, CallInv
    <3>2. permit[x].tokens = Asked[x] \/ permit[x].tokens = bill[x]
      BY <3>1 DEF CallRow, ChargeKept, PermitRow
    <3>3. Charge[x] = permit[x].tokens /\ Floor[x] = Reserved(permit[x], Asked[x])
      BY <3>1, FloorType DEF Charge
    <3>4. Floor[x] = IF permit[x].tokens <= Asked[x] THEN permit[x].tokens ELSE Asked[x]
      BY <3>1, <3>3 DEF Reserved
    <3> QED BY <3>1, <3>2, <3>3, <3>4, OverrunType
  <2>4. SumFunctionOnSet(Charge, Counted(a))
          <= SumFunctionOnSet(Floor, Below(a)) + SumFunctionOnSet(Overrun, Below(a))
    BY <2>2, <2>3, BelowFinite, SumOfTwo
  <2>5. /\ SumFunctionOnSet(Floor, Below(a)) \in Nat /\ SumFunctionOnSet(Overrun, Below(a)) \in Nat
        /\ SumFunctionOnSet(Charge, Counted(a)) \in Nat
    BY <2>2, <2>3, BelowFinite, CountedFinite, SumIsNumber
  <2>6. SumFunctionOnSet(Floor, Below(a)) <= Ceiling[a].tokens /\ Ceiling[a].tokens \in Nat
    BY BudgetAssumption DEF FloorsFit
  <2>7. SumFunctionOnSet(Charge, Counted(a)) <= Ceilings(a)
    BY <2>4, <2>5, <2>6 DEF Ceilings
  <2> QED BY <2>1, <2>7
<1> QED BY <1>1, CallInvariance, CallsWithinCeilings, ReservationsFit, PTL

\* What providers charge for the calls made below an account, reported or not, was
\* funded there, whatever answers were lost and wherever a caller or the host died.
THEOREM SpendingIsFunded == Spec => []PaidIsFunded
<1>1. TypeOK /\ CallInv /\ FloorsFit => PaidIsFunded
  <2> SUFFICES ASSUME TypeOK, CallInv, FloorsFit, NEW a \in Accounts
               PROVE  SumFunctionOnSet(Spent, Below(a)) <= Ceilings(a)
    BY DEF PaidIsFunded
  <2>1. /\ \A x \in Below(a) : Floor[x] \in Nat /\ Overrun[x] \in Nat
        /\ IsFiniteSet(Below(a)) /\ Below(a) \in SUBSET Below(a)
    BY BelowFinite, FloorType, OverrunType
  <2>2. \A x \in Below(a) : Spent[x] \in Nat /\ Spent[x] <= Floor[x] + Overrun[x]
    <3> SUFFICES ASSUME NEW x \in Below(a)
                 PROVE  Spent[x] \in Nat /\ Spent[x] <= Floor[x] + Overrun[x]
      OBVIOUS
    <3>1. /\ x \in Calls /\ permit[x] \in PermitRow /\ CallRow(x)
          /\ permit[x].tokens \in Nat /\ bill[x] \in Nat /\ Asked[x] \in Nat
      BY BelowFinite, FloorType, OverrunType, ReservedFacts DEF CallInv
    <3>2. Spent[x] = sends[x] * bill[x] BY <3>1 DEF Spent
    <3>3. CASE sends[x] = 0
      <4>1. Spent[x] = 0 BY <3>1, <3>2, <3>3
      <4> QED BY <2>1, <4>1
    <3>4. CASE sends[x] = 1
      <4>1. Spent[x] = bill[x] BY <3>1, <3>2, <3>4
      <4>2. permit[x].state \in {"dispatched", "settled"} BY <3>1, <3>4 DEF CallRow, SentOnce
      <4>3. permit[x].tokens = Asked[x] \/ permit[x].tokens = bill[x]
        BY <3>1, <4>2 DEF CallRow, ChargeKept
      <4>4. Floor[x] = IF permit[x].tokens <= Asked[x] THEN permit[x].tokens ELSE Asked[x]
        BY <3>1, <4>2, FloorType DEF Reserved
      <4>5. bill[x] <= Asked[x] + Overrun[x] BY <3>1, OverrunType
      <4> QED BY <2>1, <3>1, <4>1, <4>3, <4>4, <4>5
    <3> QED BY <3>1, <3>3, <3>4 DEF CallRow, SentOnce
  <2>3. SumFunctionOnSet(Spent, Below(a))
          <= SumFunctionOnSet(Floor, Below(a)) + SumFunctionOnSet(Overrun, Below(a))
    BY <2>1, <2>2, SumOfTwo
  <2>4. /\ SumFunctionOnSet(Floor, Below(a)) \in Nat /\ SumFunctionOnSet(Overrun, Below(a)) \in Nat
        /\ SumFunctionOnSet(Spent, Below(a)) \in Nat
    BY <2>1, <2>2, SumIsNumber
  <2>5. SumFunctionOnSet(Floor, Below(a)) <= Ceiling[a].tokens /\ Ceiling[a].tokens \in Nat
    BY BudgetAssumption DEF FloorsFit
  <2> QED BY <2>3, <2>4, <2>5 DEF Ceilings
<1> QED BY <1>1, CallInvariance, ReservationsFit, PTL
=============================================================================
