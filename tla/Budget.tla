------------------------------- MODULE Budget -------------------------------
(***************************************************************************)
(* Budget allocations and the permits of paid provider calls: the tables   *)
(* budget_allocations and permits (allocations.rs, accounting.rs), the     *)
(* requests a caller has issued to them, and the caller of each call: the  *)
(* Pi worker's transport (model.ts) or an external transport that uses the *)
(* Store (docs/operations.md).  The host serves issued requests in any     *)
(* order (supervisor.rs spawns one task for each); a caller may give up on *)
(* an answer while its request is still to be served.                      *)
(*                                                                         *)
(* Calls, tokens and cost are ceilings of the same kind: cost follows the  *)
(* rule of tokens and is left out.  Actions and work items are counted by  *)
(* Effects and WorkQueue.  A call stands for one call id and one request.  *)
(***************************************************************************)
EXTENDS Naturals, FiniteSets, Functions

CONSTANTS
    Accounts,   \* budget allocations of one tree
    Root,       \* the allocation of the grant
    Up,         \* the parent each other account is requested under
    Above,      \* an account and its ancestors
    Ceiling,    \* [calls, tokens] each account is requested with
    MaxLevels,  \* length of an ancestry (64 in the code)
    Runs,
    Home,       \* the account bound to each run
    Calls,      \* provider calls
    By,         \* the run that makes each call
    Pays,       \* the account each call is charged to
    Asked,      \* its reservation: input bound and maximal output
    Bills,      \* what the provider may charge for a call
    Compaction, \* calls that pay for a compaction window
    Legacy,     \* calls without a call id
    External,   \* calls of a trusted transport outside the workers
    Ends,       \* dispositions explored
    MaxCrashes  \* bound on the crashes explored

Homes == {Home[r] : r \in Runs}
Windows == {Pays[c] : c \in Compaction}

Stopped == {"cancelled", "exhausted", "failed"}
Dispositions == Stopped \cup {"completed", "abstained", "interrupted"}

ASSUME BudgetAssumption ==
    /\ IsFiniteSet(Accounts) /\ IsFiniteSet(Calls)
    /\ Root \in Accounts
    /\ Up \in [Accounts \ {Root} -> Accounts]
    /\ Above \in [Accounts -> SUBSET Accounts]
    /\ Above[Root] = {Root}
    /\ \A a \in Accounts \ {Root} : Above[a] = {a} \cup Above[Up[a]]
    /\ Ceiling \in [Accounts -> [calls : Nat, tokens : Nat]]
    /\ MaxLevels \in Nat /\ MaxCrashes \in Nat /\ Bills \subseteq Nat
    /\ Ends \subseteq Dispositions
    /\ Home \in [Runs -> Accounts \ {Root}]
    /\ By \in [Calls -> Runs] /\ Pays \in [Calls -> Accounts]
    /\ Asked \in [Calls -> Nat]
    /\ Compaction \subseteq Calls /\ External \subseteq Calls
    /\ Legacy \subseteq Calls \ (Compaction \cup External)
    /\ \A c \in Compaction : Pays[c] # Root /\ Up[Pays[c]] = Home[By[c]]
    /\ Windows \cap (Homes \cup {Root}) = {}

VARIABLES
    alloc,   \* table budget_allocations: absent, open or the disposition
    run,     \* status of each run
    worker,  \* the worker session of a run lives
    permit,  \* table permits
    net,     \* requests issued for a call and not served yet
    answer,  \* what the host answered to the request its caller waits for
    caller,  \* where the caller of each call is
    report,  \* the usage report its caller makes
    sends,   \* times the provider was called
    bill,    \* what the provider charges
    expired, \* the deadline of the grant has passed
    crashes

vars == <<alloc, run, worker, permit, net, answer, caller, report, sends, bill,
          expired, crashes>>

host == <<alloc, run, worker, expired, crashes>>
provider == <<sends, bill>>

-----------------------------------------------------------------------------
Requests == {"permit", "checked", "lookup", "dispatch", "release", "usage"}
Waiting == Requests \ {"checked"}
Reports == {"none", "partial", "full"}

Answers == {"none", "ok", "no"}
Places == {"idle", "sent", "ended", "lost"} \cup Waiting
AllocationStates == {"none", "open"} \cup Dispositions
RunStates == {"none", "running"} \cup Dispositions
PermitRow == [state : {"none", "reserved", "dispatched", "released", "settled"},
              tokens : Nat, usage : Reports]

NoPermit == [state |-> "none", tokens |-> 0, usage |-> "none"]

\* Every table row, request and caller has the shape the code gives it.
TypeOK ==
    /\ alloc \in [Accounts -> AllocationStates]
    /\ run \in [Runs -> RunStates]
    /\ worker \in [Runs -> BOOLEAN]
    /\ permit \in [Calls -> PermitRow]
    /\ net \in [Calls -> SUBSET Requests]
    /\ answer \in [Calls -> Answers]
    /\ caller \in [Calls -> Places]
    /\ report \in [Calls -> Reports]
    /\ sends \in [Calls -> Nat]
    /\ bill \in [Calls -> Nat]
    /\ expired \in BOOLEAN
    /\ crashes \in 0..MaxCrashes

Init ==
    /\ alloc = [a \in Accounts |-> IF a = Root THEN "open" ELSE "none"]
    /\ run = [r \in Runs |-> "none"]
    /\ worker = [r \in Runs |-> FALSE]
    /\ permit = [c \in Calls |-> NoPermit]
    /\ net = [c \in Calls |-> {}]
    /\ answer = [c \in Calls |-> "none"]
    /\ caller = [c \in Calls |-> "idle"]
    /\ report = [c \in Calls |-> "none"]
    /\ sends = [c \in Calls |-> 0]
    /\ bill = [c \in Calls |-> 0]
    /\ expired = FALSE
    /\ crashes = 0

-----------------------------------------------------------------------------
(* Allocations.                                                            *)

\* Fault: the ancestors of the account are not looked at.
AllocationItselfOpen(a) == alloc[a] = "open" /\ ~expired

AllocationOpen(a) ==
    /\ alloc[a] = "open"
    /\ \A b \in Above[a] : alloc[b] \notin Stopped
    /\ ~expired

MayAllocate(a) ==
    /\ alloc[a] = "none"
    /\ AllocationOpen(Up[a])
    /\ Cardinality(Above[Up[a]]) < MaxLevels
    /\ Ceiling[a].calls <= Ceiling[Up[a]].calls
    /\ Ceiling[a].tokens <= Ceiling[Up[a]].tokens

RequireActive(r) == run[r] = "running" /\ ~expired /\ AllocationOpen(Home[r])

\* The calls that count against an account: its own and its descendants'.
Counted(a) ==
    {c \in Calls : a \in Above[Pays[c]] /\ permit[c].state \notin {"none", "released"}}

Charge == [c \in Calls |-> permit[c].tokens]
Tokens(a) == SumFunctionOnSet(Charge, Counted(a))

\* Work, study, arm, case and stage allocations.
Allocate(a) ==
    /\ a \notin Homes \cup Windows /\ MayAllocate(a)
    /\ alloc' = [alloc EXCEPT ![a] = "open"]
    /\ UNCHANGED <<run, worker, permit, net, answer, caller, report, provider, expired, crashes>>

FinishAllocation(a, d) ==
    /\ a \notin Homes \cup Windows \cup {Root} /\ alloc[a] = "open"
    /\ alloc' = [alloc EXCEPT ![a] = d]
    /\ UNCHANGED <<run, worker, permit, net, answer, caller, report, provider, expired, crashes>>

BeginRun(r) ==
    /\ \/ run[r] = "none" /\ MayAllocate(Home[r])
       \/ run[r] = "interrupted"
    /\ run' = [run EXCEPT ![r] = "running"]
    /\ alloc' = [alloc EXCEPT ![Home[r]] = "open"]
    /\ worker' = [worker EXCEPT ![r] = TRUE]
    /\ UNCHANGED <<permit, net, answer, caller, report, provider, expired, crashes>>

CallsOf(r) == {c \in Calls : By[c] = r}

\* The session ends: the child is killed, its issued requests are drained.
KillWorker(r) ==
    /\ worker[r]
    /\ worker' = [worker EXCEPT ![r] = FALSE]
    /\ caller' = [c \in Calls |->
                    IF c \in CallsOf(r) \ External /\ caller[c] \notin {"idle", "ended"}
                    THEN "lost" ELSE caller[c]]
    /\ answer' = [c \in Calls |-> IF c \in CallsOf(r) \ External THEN "none" ELSE answer[c]]
    /\ UNCHANGED <<alloc, run, permit, net, report, provider, expired, crashes>>

FinishRun(r, d) ==
    /\ run[r] = "running" /\ ~worker[r]
    /\ \A c \in CallsOf(r) \ External : net[c] = {}
    /\ run' = [run EXCEPT ![r] = d]
    /\ alloc' = [alloc EXCEPT ![Home[r]] = d]
    /\ UNCHANGED <<worker, permit, net, answer, caller, report, provider, expired, crashes>>

DeadlinePasses ==
    /\ ~expired
    /\ expired' = TRUE
    /\ UNCHANGED <<alloc, run, worker, permit, net, answer, caller, report, provider, crashes>>

\* Callers and issued requests are gone; recovery interrupts running runs.
CrashAndRecover ==
    /\ crashes < MaxCrashes
    /\ crashes' = crashes + 1
    /\ run' = [r \in Runs |-> IF run[r] = "running" THEN "interrupted" ELSE run[r]]
    /\ worker' = [r \in Runs |-> FALSE]
    /\ net' = [c \in Calls |-> {}]
    /\ answer' = [c \in Calls |-> "none"]
    /\ caller' = [c \in Calls |-> IF caller[c] \in {"idle", "ended"} THEN caller[c] ELSE "lost"]
    /\ UNCHANGED <<alloc, permit, report, provider, expired>>

-----------------------------------------------------------------------------
(* The host serves an issued request; the answer is heard only by a caller *)
(* that still waits for it.                                                *)

Served(c, kind, reply) ==
    /\ kind \in net[c]
    /\ net' = [net EXCEPT ![c] = @ \ {kind}]
    /\ answer' = IF caller[c] = kind THEN [answer EXCEPT ![c] = reply] ELSE answer

\* require_active comes before the transaction that records the permit.
CheckPermit(c) ==
    /\ "permit" \in net[c] /\ RequireActive(By[c])
    /\ net' = [net EXCEPT ![c] = (@ \ {"permit"}) \cup {"checked"}]
    /\ UNCHANGED <<host, permit, answer, caller, report, provider>>

\* Fault: only the account that pays is charged.
FundedByItself(c) ==
    /\ Cardinality(Counted(Pays[c])) < Ceiling[Pays[c]].calls
    /\ Tokens(Pays[c]) + Asked[c] <= Ceiling[Pays[c]].tokens

\* Fault: what was settled no longer counts.
FundedBySettled(c) ==
    \A a \in Above[Pays[c]] :
        LET open == {d \in Counted(a) : permit[d].state # "settled"}
        IN  /\ Cardinality(open) < Ceiling[a].calls
            /\ SumFunctionOnSet(Charge, open) + Asked[c] <= Ceiling[a].tokens

Funded(c) ==
    \A a \in Above[Pays[c]] :
        /\ Cardinality(Counted(a)) < Ceiling[a].calls
        /\ Tokens(a) + Asked[c] <= Ceiling[a].tokens

\* A compaction window is allocated with the permit it is needed for.
NewWindow(c) == c \in Compaction /\ MayAllocate(Pays[c])
PermitAccountOpen(c) ==
    /\ NewWindow(c) \/ AllocationOpen(Pays[c])
    /\ Home[By[c]] \in Above[Pays[c]]

RecordPermit(c) ==
    /\ "checked" \in net[c]
    /\ net' = [net EXCEPT ![c] = @ \ {"checked"}]
    /\ answer' = IF caller[c] = "permit" THEN [answer EXCEPT ![c] = "ok"] ELSE answer
    /\ \/ /\ permit[c].state # "none"
          /\ UNCHANGED <<alloc, permit>>
       \/ /\ permit[c].state = "none"
          /\ PermitAccountOpen(c) /\ Funded(c)
          /\ permit' = [permit EXCEPT ![c] =
                          [state |-> IF c \in Legacy THEN "dispatched" ELSE "reserved",
                           tokens |-> Asked[c], usage |-> "none"]]
          /\ alloc' = IF NewWindow(c) THEN [alloc EXCEPT ![Pays[c]] = "open"] ELSE alloc
    /\ UNCHANGED <<run, worker, caller, report, provider, expired, crashes>>

\* Denied by the tests above, or for what other components know: withdrawn
\* material, a cancelled study, an interrupted attachment.
Deny(c) ==
    /\ \/ Served(c, "permit", "no")
       \/ Served(c, "dispatch", "no")
       \/ /\ "checked" \in net[c]
          /\ net' = [net EXCEPT ![c] = @ \ {"checked"}]
          /\ answer' = IF caller[c] = "permit" THEN [answer EXCEPT ![c] = "no"] ELSE answer
    /\ UNCHANGED <<host, permit, caller, report, provider>>

LookupPermit(c) ==
    /\ Served(c, "lookup", IF permit[c].state = "none" THEN "no" ELSE "ok")
    /\ UNCHANGED <<host, permit, caller, report, provider>>

\* Fault: a repeated dispatch is acknowledged again.
DispatchableAgain(c) == permit[c].state \in {"reserved", "dispatched"}

Dispatchable(c) == permit[c].state = "reserved"

DispatchPermit(c) ==
    /\ RequireActive(By[c])
    /\ Dispatchable(c) /\ AllocationOpen(Pays[c])
    /\ permit' = [permit EXCEPT ![c].state = "dispatched"]
    /\ Served(c, "dispatch", "ok")
    /\ UNCHANGED <<host, caller, report, provider>>

\* Fault: whatever has no usage yet can be released.
ReleasableUnsettled(c) == permit[c].state \in {"reserved", "released", "dispatched"}

Releasable(c) == permit[c].state \in {"reserved", "released"}

ReleasePermit(c) ==
    /\ \/ /\ Releasable(c)
          /\ permit' = [permit EXCEPT ![c].state = "released"]
          /\ Served(c, "release", "ok")
       \/ /\ ~Releasable(c)
          /\ Served(c, "release", "no")
          /\ UNCHANGED permit
    /\ UNCHANGED <<host, caller, report, provider>>

\* Fault: usage is accepted from an active run only.
UsageAcceptedIfActive(c) == permit[c].state = "dispatched" /\ RequireActive(By[c])

UsageAccepted(c) == permit[c].state = "dispatched"

\* Fault: an incomplete observation settles the call as well.
SettledAnyway(c) ==
    [state |-> "settled", tokens |-> bill[c], usage |-> report[c]]

Settled(c) ==
    IF report[c] = "full"
    THEN [state |-> "settled", tokens |-> bill[c], usage |-> "full"]
    ELSE [permit[c] EXCEPT !.usage = report[c]]

RecordUsage(c) ==
    /\ \/ /\ permit[c].usage = "none" /\ UsageAccepted(c)
          /\ permit' = [permit EXCEPT ![c] = Settled(c)]
          /\ Served(c, "usage", "ok")
       \/ /\ permit[c].usage = "none" /\ ~UsageAccepted(c)
          /\ Served(c, "usage", "no")
          /\ UNCHANGED permit
       \/ /\ permit[c].usage # "none"
          /\ Served(c, "usage", IF permit[c].usage = report[c] THEN "ok" ELSE "no")
          /\ UNCHANGED permit
    /\ UNCHANGED <<host, caller, report, provider>>

-----------------------------------------------------------------------------
(* The caller.                                                             *)

Issue(c, kind) ==
    /\ caller' = [caller EXCEPT ![c] = kind]
    /\ net' = [net EXCEPT ![c] = @ \cup {kind}]
    /\ answer' = [answer EXCEPT ![c] = "none"]

End(c, where) ==
    /\ caller' = [caller EXCEPT ![c] = where]
    /\ answer' = [answer EXCEPT ![c] = "none"]
    /\ UNCHANGED net

StartCall(c) ==
    /\ caller[c] = "idle" /\ (c \in External \/ worker[By[c]])
    /\ Issue(c, "permit")
    /\ UNCHANGED <<host, permit, report, provider>>

\* The provider is called as soon as the dispatch is acknowledged.
SendToProvider(c) ==
    /\ answer[c] = "ok"
    /\ caller[c] = IF c \in Legacy THEN "permit" ELSE "dispatch"
    /\ End(c, "sent")
    /\ sends' = [sends EXCEPT ![c] = @ + 1]
    /\ \E n \in Bills : bill' = [bill EXCEPT ![c] = n]
    /\ UNCHANGED <<host, permit, report>>

HearOk(c) ==
    /\ answer[c] = "ok"
    /\ \/ caller[c] = "permit" /\ c \notin Legacy /\ Issue(c, "dispatch")
       \/ caller[c] = "lookup" /\ Issue(c, "release")
       \/ caller[c] \in {"release", "usage"} /\ End(c, "ended")
    /\ UNCHANGED <<host, permit, report, provider>>

\* A denial, a timeout or a cancelled wait, whatever the host did or will do.
Fail(c) ==
    /\ caller[c] \in Waiting
    /\ \/ caller[c] = "permit" /\ c \notin Legacy /\ Issue(c, "lookup") /\ UNCHANGED report
       \/ caller[c] = "permit" /\ c \in Legacy /\ End(c, "ended") /\ UNCHANGED report
       \/ caller[c] \in {"lookup", "usage"} /\ End(c, "ended") /\ UNCHANGED report
       \/ caller[c] = "dispatch" /\ Issue(c, "release") /\ UNCHANGED report
       \/ /\ caller[c] = "release"
          /\ IF c \in External
             THEN End(c, "ended") /\ UNCHANGED report
             ELSE /\ Issue(c, "usage")
                  /\ report' = [report EXCEPT ![c] = "partial"]
    /\ UNCHANGED <<host, permit, provider>>

\* The provider's response is complete, or it ends in an error or an abort.
ReportUsage(c) ==
    /\ caller[c] = "sent"
    /\ Issue(c, "usage")
    /\ \E u \in {"partial", "full"} : report' = [report EXCEPT ![c] = u]
    /\ UNCHANGED <<host, permit, provider>>

\* An external transport repeats a request, or takes a call up again with its
\* original call id after a crash.
Repeat(c) ==
    /\ c \in External
    /\ \/ caller[c] \in {"permit", "dispatch", "release", "usage"} /\ answer[c] = "none"
          /\ caller[c] \notin net[c]
          /\ Issue(c, caller[c])
       \/ caller[c] = "lost" /\ Issue(c, "permit")
    /\ UNCHANGED <<host, permit, report, provider>>

-----------------------------------------------------------------------------
HostStep(c) ==
    \/ CheckPermit(c) \/ RecordPermit(c) \/ LookupPermit(c) \/ DispatchPermit(c)
    \/ ReleasePermit(c) \/ RecordUsage(c)

CallerStep(c) ==
    \/ StartCall(c) \/ SendToProvider(c) \/ HearOk(c) \/ Fail(c)
    \/ ReportUsage(c) \/ Repeat(c)

AccountStep ==
    \/ \E a \in Accounts \ {Root} : Allocate(a)
    \/ \E a \in Accounts, d \in Ends : FinishAllocation(a, d)
    \/ \E r \in Runs : BeginRun(r) \/ KillWorker(r)
    \/ \E r \in Runs, d \in Ends : FinishRun(r, d)

Next ==
    \/ \E c \in Calls : HostStep(c) \/ Deny(c) \/ CallerStep(c)
    \/ AccountStep
    \/ DeadlinePasses
    \/ CrashAndRecover

Spec == Init /\ [][Next]_vars

\* A usage report that was issued is served: its task runs to the end, also
\* while the session of its run is stopped (supervisor.rs drains its tasks).
FairSpec == Spec /\ \A c \in Calls : WF_vars(RecordUsage(c))

-----------------------------------------------------------------------------
(* What a reader of the ledger relies on.                                  *)

Overrun == [c \in Calls |-> IF bill[c] > Asked[c] THEN bill[c] - Asked[c] ELSE 0]
Below(a) == {c \in Calls : a \in Above[Pays[c]]}
Ceilings(a) == Ceiling[a].tokens + SumFunctionOnSet(Overrun, Below(a))

\* Reservations and settled charges of a whole subtree stay within the
\* ceilings of every account above it, but for what a provider charged beyond
\* its reservation: concurrent permits, compactions and late settlements
\* included (accounting.rs permit_in_allocation, usage).
WithinCeilings ==
    \A a \in Accounts :
        LET liable == {c \in Below(a) : permit[c].state \notin {"none", "released"}}
        IN  /\ Cardinality(liable) <= Ceiling[a].calls
            /\ SumFunctionOnSet(Charge, liable) <= Ceilings(a)

\* The same of the money: what providers charge for the calls made below an
\* account, reported or not, was funded there, whatever answers were lost and
\* wherever a caller or the host died (model.ts metered, accounting.rs).
Spent == [c \in Calls |-> sends[c] * bill[c]]
PaidIsFunded ==
    \A a \in Accounts : SumFunctionOnSet(Spent, Below(a)) <= Ceilings(a)

\* A call that reached its provider keeps its reservation until its complete
\* usage replaces it, and is not made again under the same call id
\* (accounting.rs dispatch_permit, release_permit; docs/protocol.md 85).
NothingSentIsGivenBack ==
    \A c \in Calls : sends[c] > 0 =>
        /\ sends[c] = 1
        /\ permit[c].state \in {"dispatched", "settled"}
        /\ permit[c].tokens = IF permit[c].state = "settled" THEN bill[c] ELSE Asked[c]

\* Once an account is cancelled, exhausted or failed, the calls below it are
\* settled or released and nothing else, also those whose permit was being
\* checked when it stopped (allocations.rs require_allocation_open).
StoppedSubtreeOnlySettles ==
    [][\A c \in Calls :
         /\ \E a \in Above[Pays[c]] : alloc[a] \in Stopped
         /\ permit'[c].state # permit[c].state
         => permit'[c].state \in {"settled", "released"}]_vars

\* A complete usage report reaches the ledger although its run has ended, its
\* account is closed or its deadline has passed (docs/protocol.md 63): only a
\* crash of the host loses it.
ReportsAreRecorded ==
    \A c \in Calls :
        "usage" \in net[c] /\ report[c] = "full"
            ~> permit[c].state = "settled" \/ crashes > 0

\* The abstract ledger: a call is held until its provider was called.
Phase(c) ==
    CASE sends[c] > 1 -> "twice"
      [] permit[c].state = "none" -> "none"
      [] permit[c].state = "released" -> "freed"
      [] permit[c].state = "settled" -> "settled"
      [] permit[c].state \in {"reserved", "dispatched"} /\ sends[c] = 0 -> "held"
      [] OTHER -> "sent"

Ledger == INSTANCE CallLedger WITH
    Purses <- Accounts,
    Charged <- [c \in Calls |-> Above[Pays[c]]],
    Limit <- Ceiling,
    phase <- [c \in Calls |-> Phase(c)],
    amount <- Charge

\* Budget implements the abstract ledger of calls (docs/protocol.md 83-87).
ImplementsCallLedger == Ledger!Spec
=============================================================================
