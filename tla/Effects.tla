------------------------------- MODULE Effects -------------------------------
(***************************************************************************)
(* Host effects of one grant: intent, preflight, dispatch marker, adapter  *)
(* call, captured outcome and finalization (effects.rs,                    *)
(* effect_finalization.rs), recovery of what a crash left behind, the      *)
(* owner's settlement of unknown outcomes (effect_settlement.rs), and the  *)
(* validity of derived artifacts that finalization withdraws and restores  *)
(* (effect_validation.rs, property_validation.rs, evidence.rs).            *)
(*                                                                         *)
(* Effects run one at a time under the executor mutex of the supervisor;   *)
(* an application runs its acceptance check as a nested effect.  An        *)
(* operation id stands for its request: reuse of an id with other          *)
(* arguments is refused and changes nothing.  `pins' holds two versions:   *)
(* `host' of what a certificate pins and the host reads outside the write  *)
(* transaction (checker code, owner policy, intervention, handoff), and    *)
(* `duties' of the obligation records, which the transaction reads again.  *)
(***************************************************************************)
EXTENDS Naturals, FiniteSets

CONSTANTS
    Runs,        \* runs of the grant
    Ops,         \* operation ids, those of nested checks included
    NoOp,        \* no operation
    Action,      \* the request an operation id stands for
    Live,        \* the live workspace, as opposed to a branch
    Paths, Versions,
    DependsOn,   \* <<source, dependent>> edges between artifacts
    About,       \* the obligations declared on each path
    MaxCrashes, MaxPins, MaxStrays   \* bounds on the environment

Kinds == {"branch", "edit", "check", "execute", "apply"}
Obligations == UNION {About[p] : p \in Paths}

\* writes: for tools; check: the id of the nested check of an application.
Request == [kind : Kinds, branch : Ops \cup {Live}, path : Paths,
            expected : Versions, value : Versions, reads : SUBSET Paths,
            writes : SUBSET Paths, validates : SUBSET Paths,
            proves : SUBSET Obligations, check : Ops \cup {NoOp}]

ASSUME EffectsAssumption ==
    /\ IsFiniteSet(Ops) /\ IsFiniteSet(Paths) /\ NoOp \notin Ops /\ Live \notin Ops
    /\ Versions \subseteq Nat /\ 0 \in Versions
    /\ DependsOn \subseteq Paths \X Paths
    /\ Action \in [Ops -> Request]
    /\ \A o \in Ops : Action[o].kind = "apply" =>
          Action[o].check \in Ops /\ Action[Action[o].check].kind = "check"
    /\ MaxCrashes \in Nat /\ MaxPins \in Nat /\ MaxStrays \in Nat

VARIABLES
    row,     \* table effects
    tree,    \* branch directories and the table branches
    live,    \* current version of every live artifact
    exec,    \* the operation that holds the executor, and its nested check
    mem,     \* in-memory progress of the operations under execution
    run,     \* runs: stopped, resuming, active, or left running by an error
    cancel,  \* cancellation flags of the runs
    clock,   \* validity_clock
    inval,   \* artifact_invalidation_generations
    stale,   \* table invalidated
    proofs,  \* table property_validations
    pins, expired, crashes,
    calls,   \* adapter calls made for each operation (history)
    orphans, \* tools whose process outlived the host that started it
    strays,  \* number of writes made by orphans
    wrote,   \* when each live artifact was last written (history)
    stamp    \* number of live writes so far (history)

table == <<row, tree, clock, inval, stale, proofs>>
world == <<live, calls, orphans, strays, wrote, stamp>>
process == <<exec, mem, run, cancel>>
vars == <<table, world, process, pins, expired, crashes>>

-----------------------------------------------------------------------------
NoPins == [host |-> 0, duties |-> 0]
NoCert == [pass |-> FALSE, before |-> [p \in Paths |-> 0],
           after |-> [p \in Paths |-> 0], pins |-> NoPins,
           gen |-> 0, asof |-> 0]
Obs(status, basis, writes, cert) ==
    [status |-> status, basis |-> basis, writes |-> writes, cert |-> cert]
NoObs == Obs("started", "none", {}, NoCert)
NoRow == [phase |-> "none", run |-> NoOp, writes |-> {}, gen |-> 0,
          obs |-> NoObs, settled |-> FALSE]
NoTree == [made |-> FALSE, row |-> FALSE, base |-> [p \in Paths |-> 0],
           content |-> [p \in Paths |-> 0]]
NoProof == [op |-> NoOp, version |-> 0, duties |-> 0, gen |-> 0, asof |-> 0]
NoMem == [at |-> "idle", obs |-> NoObs, pins |-> NoPins,
          valid |-> FALSE, kept |-> [p \in Paths |-> {}]]
Free == [op |-> NoOp, check |-> NoOp]

Pins == [host : 0..MaxPins, duties : 0..MaxPins]
Cert == [pass : BOOLEAN, before : [Paths -> Versions], after : [Paths -> Versions],
         pins : Pins, gen : Nat, asof : Nat]
Observation == [status : {"started", "succeeded", "failed", "denied", "unknown"},
                basis : {"none", "established", "not_dispatched", "unresolved",
                         "postcondition"},
                writes : SUBSET Paths, cert : Cert]

\* Every table row and executor frame has the shape the code gives it.
TypeOK ==
    /\ row \in [Ops -> [phase : {"none", "prepared", "dispatching", "observed", "finalized"},
                        run : Runs \cup {NoOp}, writes : SUBSET Paths, gen : Nat,
                        obs : Observation, settled : BOOLEAN]]
    /\ tree \in [Ops -> [made : BOOLEAN, row : BOOLEAN, base : [Paths -> Versions],
                         content : [Paths -> Versions]]]
    /\ live \in [Paths -> Versions]
    /\ exec \in [op : Ops \cup {NoOp}, check : Ops \cup {NoOp}]
    /\ mem \in [Ops -> [at : {"idle", "lookup", "intent", "pinned", "checking", "checked",
                              "acting", "returned", "captured", "assessed"},
                        obs : Observation, pins : Pins, valid : BOOLEAN,
                        kept : [Paths -> SUBSET Obligations]]]
    /\ run \in [Runs -> {"stopped", "resuming", "active", "stuck"}]
    /\ cancel \in [Runs -> BOOLEAN]
    /\ clock \in Nat /\ inval \in [Paths -> Nat] /\ stale \subseteq Paths
    /\ proofs \in [Paths -> [Obligations ->
                     [op : Ops \cup {NoOp}, version : Versions, duties : 0..MaxPins,
                      gen : Nat, asof : Nat]]]
    /\ pins \in Pins /\ expired \in BOOLEAN /\ crashes \in 0..MaxCrashes
    /\ calls \in [Ops -> 0..1] /\ orphans \subseteq Ops /\ strays \in 0..MaxStrays
    /\ wrote \in [Paths -> Nat] /\ stamp \in Nat

Init ==
    /\ row = [o \in Ops |-> NoRow] /\ tree = [o \in Ops |-> NoTree]
    /\ live = [p \in Paths |-> 0]
    /\ exec = Free /\ mem = [o \in Ops |-> NoMem]
    /\ run = [r \in Runs |-> "stopped"] /\ cancel = [r \in Runs |-> FALSE]
    /\ clock = 0 /\ inval = [p \in Paths |-> 0] /\ stale = {}
    /\ proofs = [p \in Paths |-> [b \in Obligations |-> NoProof]]
    /\ pins = NoPins /\ expired = FALSE /\ crashes = 0
    /\ calls = [o \in Ops |-> 0] /\ orphans = {} /\ strays = 0
    /\ wrote = [p \in Paths |-> 0] /\ stamp = 0

-----------------------------------------------------------------------------
(* The executor.                                                           *)

Kind(o) == Action[o].kind
OnLive(o) == Action[o].branch = Live
CheckOf(o) == IF Kind(o) = "apply" THEN Action[Action[o].check] ELSE Action[o]

\* branch_path: the branch exists once its creation was finalized.
BranchKnown(o) == Action[o].branch \in {x \in Ops : tree[x].row}

ExecutorFree == exec = Free /\ \A r \in Runs : run[r] # "resuming"
Executing(o) == o \in Ops /\ o = IF exec.check # NoOp THEN exec.check ELSE exec.op
Popped == IF exec.check # NoOp THEN [exec EXCEPT !.check = NoOp] ELSE Free

\* The run of o may dispatch: require_active, and the flag seen at dispatch.
Active(o) == run[row[o].run] = "active" /\ ~expired /\ ~cancel[row[o].run]

\* The content the operation works on: a branch's, or the live workspace.
View(o) == IF OnLive(o) THEN live ELSE tree[Action[o].branch].content

Requires(o) ==   \* ActionReceipt::requires_reconciliation
    \/ row[o].phase \in {"prepared", "dispatching", "observed"}
    \/ row[o].obs.status = "unknown" /\ ~row[o].settled

\* The executor is entered for an operation that has a row already.
LookUp(o) ==
    /\ row[o].phase \in {"prepared", "dispatching", "observed"}
    /\ exec' = [op |-> o, check |-> NoOp]
    /\ mem' = [mem EXCEPT ![o].at = "lookup"]
    /\ UNCHANGED <<table, world, run, cancel, pins, expired, crashes>>

Intent(o, r) == [NoRow EXCEPT !.phase = "prepared", !.run = r]

\* Fault: only a final receipt makes an operation id known.
KnownWhenFinal(o) == row[o].phase = "finalized"

Known(o) == row[o].phase # "none"

\* A new id commits its intent first; a known id is looked up.
Execute(r, o) ==
    /\ run[r] = "active" /\ ExecutorFree
    /\ \/ LookUp(o)
       \/ /\ ~Known(o)
          /\ row' = [row EXCEPT ![o] = Intent(o, r)]
          /\ exec' = [op |-> o, check |-> NoOp]
          /\ mem' = [mem EXCEPT ![o].at = "intent"]
          /\ UNCHANGED <<tree, clock, inval, stale, proofs, world, run, cancel,
                         pins, expired, crashes>>

\* A guard or a host error before the dispatch marker: nothing happened.
Deny(o) ==
    /\ Executing(o)
    /\ mem[o].at \in {"intent", "pinned", "checking", "checked"}
    /\ mem' = [mem EXCEPT ![o].at = "returned",
                          ![o].obs = Obs("denied", "not_dispatched", {}, NoCert)]
    /\ UNCHANGED <<table, world, exec, run, cancel, pins, expired, crashes>>

-----------------------------------------------------------------------------
(* Preflight of an application: pinned checks, run as nested effects.      *)

Pin(o) ==
    /\ Executing(o) /\ Kind(o) = "apply" /\ mem[o].at = "intent" /\ Active(o)
    /\ BranchKnown(o)
    /\ \A p \in Action[o].reads : live[p] = tree[Action[o].branch].base[p]
    /\ mem' = [mem EXCEPT ![o].at = "pinned", ![o].pins = pins]
    /\ UNCHANGED <<table, world, exec, run, cancel, pins, expired, crashes>>

RunCheck(o) ==
    LET c == Action[o].check IN
    /\ Executing(o) /\ mem[o].at = "pinned"
    /\ IF row[c].phase = "none"
         THEN row' = [row EXCEPT ![c] = Intent(c, row[o].run)]
         ELSE UNCHANGED row
    /\ IF row[c].phase = "finalized"
         THEN exec' = exec /\ mem' = [mem EXCEPT ![o].at = "checking"]
         ELSE /\ exec' = [exec EXCEPT !.check = c]
              /\ mem' = [mem EXCEPT ![o].at = "checking",
                           ![c].at = IF row[c].phase = "none" THEN "intent" ELSE "lookup"]
    /\ UNCHANGED <<tree, clock, inval, stale, proofs, world, run, cancel, pins,
                   expired, crashes>>

CertificateOf(c) == row[c].obs.cert

AcceptCheck(o) ==
    LET c == Action[o].check IN
    /\ Executing(o) /\ mem[o].at = "checking"
    /\ row[c].phase = "finalized" /\ Action[c].branch = Action[o].branch
    /\ row[c].obs.status = "succeeded" /\ row[c].obs.basis = "established"
    /\ row[c].obs.cert.pass /\ row[c].obs.cert.pins.host = mem[o].pins.host
    /\ mem' = [mem EXCEPT ![o].at = "checked", ![o].obs.cert = CertificateOf(c)]
    /\ UNCHANGED <<table, world, exec, run, cancel, pins, expired, crashes>>

\* Fault: the branch is not compared again with what the check saw.
UnchangedSinceIgnored(o, cert, content) == TRUE

UnchangedSince(o, cert, content) ==
    /\ cert.after[Action[o].path] = content[Action[o].path]
    /\ \A p \in CheckOf(o).reads : content[p] = cert.before[p]

\* Checked content, dependencies and checkers still hold right before dispatch.
Applicable(o) ==
    LET cert == mem[o].obs.cert
        p == Action[o].path
        branch == tree[Action[o].branch] IN
    /\ mem[o].at = "checked"
    /\ branch.content[p] = Action[o].value
    /\ p \in CheckOf(o).validates /\ UnchangedSince(o, cert, branch.content)
    /\ mem[o].pins = pins
    /\ \A q \in CheckOf(o).reads \ {p} : live[q] = cert.before[q]
    /\ \A q \in Action[o].reads : live[q] = branch.base[q]
    /\ live[p] = Action[o].expected

-----------------------------------------------------------------------------
(* The dispatch marker and the fence around live writes.                   *)

PotentialWriter(x) ==
    \/ row[x].writes # {}
    \/ Kind(x) = "apply"
    \/ Kind(x) \in {"edit", "execute"} /\ OnLive(x)

\* Fault: an unknown outcome no longer holds the workspace.
FenceIgnoringUnknown(o) ==
    \E x \in Ops \ {o} :
        PotentialWriter(x) /\ row[x].phase \in {"dispatching", "observed"}

Fence(o) ==
    \E x \in Ops \ {o} :
        /\ PotentialWriter(x)
        /\ \/ row[x].phase \in {"dispatching", "observed"}
           \/ row[x].phase = "finalized" /\ row[x].obs.status = "unknown" /\ ~row[x].settled

LiveWrites(o) ==
    CASE Kind(o) = "apply" -> {Action[o].path}
      [] Kind(o) = "edit" /\ OnLive(o) -> {Action[o].path}
      [] Kind(o) \in {"check", "execute"} /\ OnLive(o) -> Action[o].writes
      [] OTHER -> {}

MayDispatch(o) ==
    /\ OnLive(o) \/ BranchKnown(o)
    /\ CASE Kind(o) = "apply" -> Applicable(o)
         [] Kind(o) = "edit" ->
              mem[o].at = "intent" /\ View(o)[Action[o].path] = Action[o].expected
         [] Kind(o) = "check" -> mem[o].at = "intent" /\ Action[o].writes = {}
         [] OTHER -> mem[o].at = "intent"

StartDispatch(o) ==
    /\ Executing(o) /\ Active(o) /\ MayDispatch(o)
    /\ LiveWrites(o) # {} => ~Fence(o)
    /\ row[o].phase = "prepared"
    /\ row' = [row EXCEPT ![o].phase = "dispatching", ![o].writes = LiveWrites(o),
                          ![o].gen = clock]
    /\ mem' = [mem EXCEPT ![o].at = "acting",
                          ![o].pins = IF Kind(o) = "apply" THEN @ ELSE pins]
    /\ UNCHANGED <<tree, clock, inval, stale, proofs, world, exec, run, cancel,
                   pins, expired, crashes>>

-----------------------------------------------------------------------------
(* The adapter call.                                                       *)

Returned(o, obs) ==
    /\ mem' = [mem EXCEPT ![o].at = "returned", ![o].obs = obs]
    /\ calls' = [calls EXCEPT ![o] = @ + 1]

Acting(o, kind) == Executing(o) /\ Kind(o) = kind /\ mem[o].at = "acting"

\* The live paths of W were written with the given content.
WriteLive(W, content) ==
    /\ live' = [p \in Paths |-> IF p \in W THEN content[p] ELSE live[p]]
    /\ wrote' = [p \in Paths |-> IF p \in W THEN stamp + 1 ELSE wrote[p]]
    /\ stamp' = IF W = {} THEN stamp ELSE stamp + 1

\* The call failed, or its outcome was lost on the way back.
Unresolved(o) == Obs("unknown", "unresolved", row[o].writes, NoCert)
Established(o, cert) == Obs("succeeded", "established", row[o].writes, cert)

NewValue(o) == [p \in Paths |-> Action[o].value]

ActEdit(o) ==
    /\ Acting(o, "edit") \/ Acting(o, "apply")
    /\ LET p == Action[o].path
           place == IF Kind(o) = "apply" THEN live ELSE View(o)
           write == /\ place[p] = Action[o].expected
                    /\ IF LiveWrites(o) # {}
                         THEN WriteLive({p}, NewValue(o)) /\ UNCHANGED tree
                         ELSE /\ tree' = [tree EXCEPT ![Action[o].branch].content[p] =
                                            Action[o].value]
                              /\ UNCHANGED <<live, wrote, stamp>> IN
       \/ write /\ Returned(o, Established(o, mem[o].obs.cert))
       \/ write /\ Returned(o, Unresolved(o))
       \/ Returned(o, Unresolved(o)) /\ UNCHANGED <<tree, live, wrote, stamp>>
    /\ UNCHANGED <<row, clock, inval, stale, proofs, orphans, strays, exec, run, cancel,
                   pins, expired, crashes>>

ActBranch(o) ==
    /\ Acting(o, "branch")
    /\ \/ /\ tree' = [tree EXCEPT ![o] = [made |-> TRUE, row |-> FALSE, base |-> live,
                                          content |-> live]]
          /\ Returned(o, Established(o, NoCert))
       \/ UNCHANGED tree /\ Returned(o, Unresolved(o))
    /\ UNCHANGED <<row, clock, inval, stale, proofs, live, orphans, strays, wrote, stamp,
                   exec, run, cancel, pins, expired, crashes>>

Certificate(o, pass, after) ==
    [pass |-> pass /\ pins.host = mem[o].pins.host,
     before |-> [p \in Paths |-> IF p \in Action[o].reads \cup Action[o].writes
                                  THEN View(o)[p] ELSE 0],
     after |-> [p \in Paths |-> IF p \in Action[o].validates THEN after[p] ELSE 0],
     pins |-> pins, gen |-> row[o].gen, asof |-> stamp]

\* A registered tool may write what it declares; a check writes nothing.
ActTool(o) ==
    /\ Acting(o, "check") \/ Acting(o, "execute")
    /\ \E new \in [Action[o].writes -> Versions], outcome \in {"passed", "failed", "lost"} :
          LET W == Action[o].writes
              after == [p \in Paths |-> IF p \in W THEN new[p] ELSE View(o)[p]]
              cert == Certificate(o, outcome = "passed", after) IN
          /\ IF OnLive(o) THEN WriteLive(W, after) /\ UNCHANGED tree
                          ELSE /\ tree' = [tree EXCEPT ![Action[o].branch].content = after]
                               /\ UNCHANGED <<live, wrote, stamp>>
          /\ CASE outcome = "lost" -> Returned(o, Unresolved(o))
               [] cert.pass        -> Returned(o, Established(o, cert))
               [] OTHER            -> Returned(o, [Established(o, cert) EXCEPT !.status = "failed"])
    /\ UNCHANGED <<row, clock, inval, stale, proofs, orphans, strays, exec, run, cancel,
                   pins, expired, crashes>>

-----------------------------------------------------------------------------
(* Capture and finalization, shared by execution and recovery.             *)

Capture(o) ==
    /\ Executing(o) /\ mem[o].at = "returned"
    /\ row[o].phase \in {"prepared", "dispatching"}
    /\ row' = [row EXCEPT ![o].phase = "observed", ![o].obs = mem[o].obs]
    /\ mem' = [mem EXCEPT ![o].at = "captured"]
    /\ UNCHANGED <<tree, clock, inval, stale, proofs, world, exec, run, cancel, pins,
                   expired, crashes>>

\* Fault: the desired content is taken as proof of execution.
OutcomeTrusting(o) ==
    IF Kind(o) \in {"edit", "apply"} /\ View(o)[Action[o].path] = Action[o].value
    THEN <<"succeeded", "established">> ELSE <<"unknown", "unresolved">>

ReconciledOutcome(o) ==
    LET place == IF Kind(o) = "apply" THEN live ELSE View(o) IN
    IF /\ Kind(o) \in {"edit", "apply"}
       /\ Kind(o) = "edit" => OnLive(o) \/ BranchKnown(o)
       /\ place[Action[o].path] = Action[o].value
    THEN <<"unknown", "postcondition">> ELSE <<"unknown", "unresolved">>

\* Fault: recovery forgets what the lost execution may have written.
RecoveredWritesNone(o) == {}

\* The grant names no writable subset: all its paths are writable.
RecoveredWrites(o) ==
    row[o].writes \cup CASE Kind(o) \in {"edit", "apply"} -> LiveWrites(o)
                         [] Kind(o) = "execute" /\ OnLive(o) /\ row[o].writes = {} -> Paths
                         [] OTHER -> {}

\* Recovery of an operation without a captured outcome: nothing is retried.
Reconcile(o) ==
    /\ Executing(o) /\ mem[o].at = "lookup" /\ row[o].phase \in {"prepared", "dispatching"}
    /\ LET outcome == ReconciledOutcome(o) IN
       row' = [row EXCEPT ![o].phase = "observed",
                          ![o].obs = Obs(outcome[1], outcome[2], RecoveredWrites(o), NoCert)]
    /\ mem' = [mem EXCEPT ![o].at = "captured"]
    /\ UNCHANGED <<tree, clock, inval, stale, proofs, world, exec, run, cancel, pins,
                   expired, crashes>>

\* The certificate of o names the present state: checkers, inputs and targets.
Current(o) ==
    LET cert == row[o].obs.cert check == CheckOf(o) IN
    /\ row[o].obs.status = "succeeded" /\ row[o].obs.basis = "established"
    /\ cert.pass /\ cert.pins.host = pins.host
    /\ \A p \in check.reads \cup check.writes : live[p] = cert.before[p]
    /\ \A p \in check.validates : live[p] = cert.after[p]

Assessed(p) ==   \* the obligations assess_properties reports as validated
    {b \in About[p] :
        LET fact == proofs[p][b] IN
        /\ fact.op # NoOp /\ Current(fact.op)
        /\ fact.version = live[p] /\ fact.duties = pins.duties /\ fact.gen >= inval[p]}

Targets(o) == CheckOf(o).validates \cap (IF Kind(o) = "apply" THEN {Action[o].path} ELSE Paths)

Transferable(o) == Current(o) /\ ~expired /\ (OnLive(o) \/ Kind(o) = "apply")

\* finalize_effect reads the workspace before it takes the write transaction.
Assess(o) ==
    /\ Executing(o) /\ row[o].phase = "observed" /\ mem[o].at \in {"captured", "lookup"}
    /\ mem' = [mem EXCEPT ![o].at = "assessed", ![o].valid = Transferable(o),
                          ![o].kept = [p \in Paths |->
                              IF Transferable(o) /\ p \in Targets(o) THEN Assessed(p) ELSE {}]]
    /\ UNCHANGED <<table, world, exec, run, cancel, pins, expired, crashes>>

\* The transitive dependents of the paths in W.
DependentsOf(W) ==
    {p \in Paths :
        \A S \in SUBSET Paths :
            (\A e \in DependsOn : e[1] \in W \cup S => e[2] \in S) => p \in S}

\* Invalidate what depends on the writes, then restore what the certificate
\* of o still establishes, in one transaction that ends with the receipt.
Finalize(o) ==
    LET W == row[o].obs.writes
        cert == row[o].obs.cert
        touched == DependentsOf(W)
        now == IF W = {} THEN clock ELSE clock + 1
        marks == [p \in Paths |-> IF p \in touched THEN now ELSE inval[p]]
        restored == {p \in Targets(o) : mem[o].valid /\ marks[p] <= cert.gen}
        shown(p) == IF cert.pins.duties = pins.duties THEN CheckOf(o).proves \cap About[p] ELSE {}
        Proof(p) == [op |-> o, version |-> cert.after[p], duties |-> pins.duties,
                     gen |-> cert.gen, asof |-> cert.asof]
        known == [p \in Paths |-> [b \in Obligations |->
                    IF p \in restored /\ b \in shown(p) /\ proofs[p][b].gen <= cert.gen
                    THEN Proof(p) ELSE proofs[p][b]]]
        covered(p) == /\ About[p] # {}
                      /\ \A b \in About[p] :
                           /\ b \in shown(p) \cup mem[o].kept[p]
                           /\ known[p][b].op # NoOp /\ known[p][b].duties = pins.duties
                           /\ known[p][b].version = cert.after[p]
                           /\ known[p][b].gen >= marks[p] IN
    /\ Executing(o) /\ mem[o].at = "assessed" /\ row[o].phase = "observed"
    /\ row' = [row EXCEPT ![o].phase = "finalized"]
    /\ tree' = IF Kind(o) = "branch" /\ row[o].obs.status = "succeeded"
                 THEN [tree EXCEPT ![o].row = TRUE] ELSE tree
    /\ clock' = now /\ inval' = marks /\ proofs' = known
    /\ stale' = (stale \cup touched) \ {p \in restored : covered(p)}
    /\ exec' = Popped
    /\ mem' = [mem EXCEPT ![o] = NoMem]
    /\ UNCHANGED <<world, run, cancel, pins, expired, crashes>>

\* A failed transaction leaves the row for a later lookup.
BookkeepingFails(o) ==
    /\ Executing(o) /\ mem[o].at \in {"lookup", "returned", "captured", "assessed"}
    /\ exec' = Popped
    /\ mem' = [mem EXCEPT ![o] = NoMem]
    /\ run' = [r \in Runs |-> IF run[r] = "resuming" THEN "stuck" ELSE run[r]]
    /\ UNCHANGED <<table, world, cancel, pins, expired, crashes>>

-----------------------------------------------------------------------------
(* Runs: resumption reconciles first, a session ends when its tools have.  *)

Resume(r) ==
    /\ run[r] = "stopped" /\ ExecutorFree
    /\ run' = [run EXCEPT ![r] = "resuming"]
    /\ cancel' = [cancel EXCEPT ![r] = FALSE]
    /\ UNCHANGED <<table, world, exec, mem, pins, expired, crashes>>

OwnedBy(r) == {o \in Ops : row[o].phase # "none" /\ row[o].run = r}

ReconcileRun(r) ==
    /\ run[r] = "resuming" /\ exec = Free
    /\ \E o \in OwnedBy(r) : LookUp(o)

Continue(r) ==
    /\ run[r] = "resuming" /\ exec = Free
    /\ \A o \in OwnedBy(r) : row[o].phase = "finalized"
    /\ run' = [run EXCEPT ![r] = IF \E o \in OwnedBy(r) : Requires(o) THEN "stopped" ELSE "active"]
    /\ UNCHANGED <<table, world, exec, mem, cancel, pins, expired, crashes>>

EndSession(r) ==
    /\ run[r] = "active"
    /\ exec.op # NoOp => row[exec.op].run # r
    /\ run' = [run EXCEPT ![r] = "stopped"]
    /\ UNCHANGED <<table, world, exec, mem, cancel, pins, expired, crashes>>

Cancel(r) ==
    /\ run[r] = "active" /\ ~cancel[r]
    /\ cancel' = [cancel EXCEPT ![r] = TRUE]
    /\ UNCHANGED <<table, world, exec, mem, run, pins, expired, crashes>>

-----------------------------------------------------------------------------
(* The owner: inspection and settlement of unknown outcomes.               *)

RowRunning(o) == run[row[o].run] # "stopped"

InspectEffect(o) ==
    /\ ExecutorFree /\ row[o].phase # "none" /\ ~RowRunning(o)
    /\ LookUp(o)

\* Fault: what the executor did after the unknown receipt is not withdrawn.
SettledWritesNone(o) == {}

SettledWrites(o) == row[o].obs.writes \cup DependentsOf(row[o].obs.writes)

\* The owner attests that the executor of o has stopped, for the workspace
\* as it is now.
SettleEffect(o) ==
    /\ ExecutorFree /\ o \notin orphans
    /\ row[o].phase = "finalized" /\ ~RowRunning(o)
    /\ row[o].obs.status = "unknown" /\ ~row[o].settled
    /\ LET W == row[o].obs.writes
           now == IF W = {} THEN clock ELSE clock + 1 IN
       /\ clock' = now
       /\ inval' = [p \in Paths |-> IF p \in SettledWrites(o) THEN now ELSE inval[p]]
       /\ stale' = stale \cup SettledWrites(o)
    /\ row' = [row EXCEPT ![o].settled = TRUE]
    /\ UNCHANGED <<tree, proofs, world, process, pins, expired, crashes>>

-----------------------------------------------------------------------------
(* The environment.                                                        *)

\* The host dies and its successor interrupts what ran.  A tool that was
\* running may survive it.
CrashAndRecover ==
    /\ crashes < MaxCrashes
    /\ crashes' = crashes + 1
    /\ exec' = Free /\ mem' = [o \in Ops |-> NoMem]
    /\ run' = [r \in Runs |-> "stopped"] /\ cancel' = [r \in Runs |-> FALSE]
    /\ \E S \in SUBSET {o \in Ops : Acting(o, "execute")} :
          /\ orphans' = orphans \cup S
          /\ calls' = [o \in Ops |-> IF o \in S THEN calls[o] + 1 ELSE calls[o]]
    /\ UNCHANGED <<table, live, strays, wrote, stamp, pins, expired>>

OrphanWrites(o) ==
    /\ o \in orphans /\ strays < MaxStrays
    /\ strays' = strays + 1
    /\ \E p \in Action[o].writes, v \in Versions :
          IF OnLive(o)
            THEN WriteLive({p}, [q \in Paths |-> v]) /\ UNCHANGED tree
            ELSE /\ tree' = [tree EXCEPT ![Action[o].branch].content[p] = v]
                 /\ UNCHANGED <<live, wrote, stamp>>
    /\ UNCHANGED <<row, clock, inval, stale, proofs, calls, orphans, process, pins, expired, crashes>>

OrphanStops(o) ==
    /\ o \in orphans
    /\ orphans' = orphans \ {o}
    /\ UNCHANGED <<table, live, calls, strays, wrote, stamp, process, pins, expired, crashes>>

PinsChange ==
    /\ pins.host + pins.duties < MaxPins
    /\ \/ pins' = [pins EXCEPT !.host = @ + 1]
       \/ pins' = [pins EXCEPT !.duties = @ + 1]
    /\ UNCHANGED <<table, world, process, expired, crashes>>

DeadlinePasses ==
    /\ ~expired /\ expired' = TRUE
    /\ UNCHANGED <<table, world, process, pins, crashes>>

-----------------------------------------------------------------------------
ExecutorStep(o) ==
    \/ Deny(o) \/ Pin(o) \/ RunCheck(o) \/ AcceptCheck(o) \/ StartDispatch(o)
    \/ ActEdit(o) \/ ActBranch(o) \/ ActTool(o)
    \/ Capture(o) \/ Reconcile(o) \/ Assess(o) \/ Finalize(o) \/ BookkeepingFails(o)

RunStep(r) ==
    \/ Resume(r) \/ ReconcileRun(r) \/ Continue(r) \/ EndSession(r) \/ Cancel(r)
    \/ \E o \in Ops : Execute(r, o)

Next ==
    \/ \E o \in Ops : ExecutorStep(o) \/ InspectEffect(o) \/ SettleEffect(o)
    \/ \E r \in Runs : RunStep(r)
    \/ \E o \in Ops : OrphanWrites(o) \/ OrphanStops(o)
    \/ CrashAndRecover \/ PinsChange \/ DeadlinePasses

Spec == Init /\ [][Next]_vars
-----------------------------------------------------------------------------
(* Safety.                                                                 *)

\* Only one effect at a time may still change the live workspace: the one at
\* the adapter, or one whose process outlived its host and that the owner has
\* not settled (start_dispatch).
MayStillWrite(o) ==
    row[o].writes # {} /\ (row[o].phase = "dispatching" \/ o \in orphans)
SingleLiveWriter ==
    \A x, y \in Ops : MayStillWrite(x) /\ MayStillWrite(y) => x = y

\* A receipt that establishes an execution stands for exactly one adapter
\* call, and one that denies the dispatch for none, after any number of
\* repeated requests, lookups, crashes and reconciliations (execute, reconcile).
ReceiptsTellTheCalls ==
    \A o \in Ops :
        /\ calls[o] <= 1
        /\ row[o].phase \in {"observed", "finalized"} =>
              /\ row[o].obs.basis = "established" => calls[o] = 1
              /\ row[o].obs.basis = "not_dispatched" => calls[o] = 0

\* No operation is under way or of unknown outcome.
Quiet == \A o \in Ops : row[o].phase = "none" \/ ~Requires(o)

WrittenUpstream(p) == {q \in Paths : wrote[q] > 0 /\ p \in DependentsOf({q})}

\* Once every effect has a receipt and every unknown one is settled, an
\* artifact whose source was written is marked stale, or all its obligations
\* were checked since the last write of every source: no order of captures,
\* crashes, delayed finalizations, stray writes and settlements loses a mark.
UnmarkedIsChecked ==
    Quiet => \A p \in Paths \ stale : \A q \in WrittenUpstream(p) :
                /\ About[p] # {}
                /\ \A b \in About[p] : proofs[p][b].asof >= wrote[q]

\* What artifact.validity reports as validated was checked after the last
\* write of every source, or a write is still unsettled (assess_properties).
ValidatedIsChecked ==
    Quiet => \A p \in Paths : \A b \in Assessed(p) :
                \A q \in WrittenUpstream(p) : proofs[p][b].asof >= wrote[q]

\* An application changes the live artifact only to content on which its
\* acceptance check passed, against the dependencies that are live, also when
\* the worker ran the check early or edits the branch again (dispatch, Apply).
AppliedIsChecked ==
    [][\A o \in Ops : Kind(o) = "apply" /\ calls'[o] # calls[o] /\ live' # live =>
          LET c == Action[o].check
              cert == row[c].obs.cert IN
          /\ calls[c] = 1 /\ row[c].phase = "finalized" /\ cert.pass
          /\ cert.after[Action[o].path] = live'[Action[o].path]
          /\ \A q \in Action[c].reads \ {Action[o].path} : cert.before[q] = live[q]]_vars

-----------------------------------------------------------------------------
(* The promise of the effect ledger.                                       *)

OutcomeOf(o) ==
    CASE row[o].phase = "none" -> "none"
      [] row[o].phase \in {"prepared", "dispatching"} -> "pending"
      [] row[o].settled -> "settled"
      [] row[o].obs.basis \in {"established", "not_dispatched"} -> row[o].obs.basis
      [] OTHER -> "unknown"

Ledger == INSTANCE EffectLedger WITH
    outcome <- [o \in Ops |-> OutcomeOf(o)], performed <- calls

\* The effect lifecycle, with its crashes, repeated requests, failed
\* bookkeeping and recovery, implements the effect ledger: operations are
\* performed at most once and outcomes are truthful and never revised.
ImplementsLedger == Ledger!Spec
=============================================================================
