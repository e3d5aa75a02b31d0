------------------------------ MODULE MCEffects ------------------------------
(* Instances of Effects for TLC: a report derived from a source, an edit   *)
(* of the source and a tool that writes it, a check of the report, and the *)
(* checked application of a report drafted in a branch.                    *)
EXTENDS Effects, TLC

CONSTANTS r1, r2, report, source, ob, none, live_workspace,
          op_edit, op_tool, op_check, op_branch, op_draft, op_apply, op_gate

OneRun == {r1}
TwoRuns == {r1, r2}
RunSymmetry == Permutations({r1, r2})
TwoPaths == {report, source}
TwoVersions == {0, 1}
SourceToReport == {<<source, report>>}
Declared == (report :> {ob}) @@ (source :> {})

Base(kind, where) ==
    [kind |-> kind, branch |-> where, path |-> source, expected |-> 0, value |-> 1,
     reads |-> {}, writes |-> {}, validates |-> {}, proves |-> {}, check |-> none]
CheckReport(where) ==
    [Base("check", where) EXCEPT !.reads = {report, source}, !.validates = {report}, !.proves = {ob}]

Requests ==
    (op_edit :> Base("edit", live_workspace))
    @@ (op_tool :> [Base("execute", live_workspace) EXCEPT !.writes = {source}])
    @@ (op_check :> CheckReport(live_workspace))
    @@ (op_branch :> Base("branch", live_workspace))
    @@ (op_draft :> [Base("edit", op_branch) EXCEPT !.path = report])
    @@ (op_apply :> [Base("apply", op_branch) EXCEPT !.path = report, !.reads = {source}, !.check = op_gate])
    @@ (op_gate :> CheckReport(op_branch))
RequestsOf(S) == [o \in S |-> Requests[o]]

DispatchOps == {op_edit, op_tool}
DispatchRequests == RequestsOf(DispatchOps)
ValidityOps == {op_tool, op_check}
ValidityRequests == RequestsOf(ValidityOps)
ApplyOps == {op_branch, op_draft, op_apply, op_gate}
ApplyRequests == RequestsOf(ApplyOps)
=============================================================================
