---------------------------- MODULE Effects_proofs ----------------------------
(* Invariance and refinement theorems about Effects, for every value of its  *)
(* constants.                                                                *)
EXTENDS Effects, TLAPS

-----------------------------------------------------------------------------
(* Updates keep the shape of rows, frames and branches.                    *)

Row == [phase : {"none", "prepared", "dispatching", "observed", "finalized"},
        run : Runs \cup {NoOp}, writes : SUBSET Paths, gen : Nat,
        obs : Observation, settled : BOOLEAN]
Frame == [at : {"idle", "lookup", "intent", "pinned", "checking", "checked",
                "acting", "returned", "captured", "assessed"},
          obs : Observation, pins : Pins, valid : BOOLEAN,
          kept : [Paths -> SUBSET Obligations]]
Branch == [made : BOOLEAN, row : BOOLEAN, base : [Paths -> Versions],
           content : [Paths -> Versions]]
Fact == [op : Ops \cup {NoOp}, version : Versions, duties : 0..MaxPins,
         gen : Nat, asof : Nat]

LEMMA Constant ==
  /\ Versions \subseteq Nat /\ 0 \in Versions /\ NoOp \notin Ops /\ Live \notin Ops
  /\ Action \in [Ops -> Request]
  /\ \A o \in Ops : Kind(o) = "apply" =>
        Action[o].check \in Ops /\ Kind(Action[o].check) = "check"
  /\ MaxPins \in Nat /\ MaxCrashes \in Nat /\ MaxStrays \in Nat
  BY EffectsAssumption DEF Kind

LEMMA RequestFields ==
  ASSUME NEW o \in Ops
  PROVE  /\ Kind(o) \in Kinds /\ Action[o].branch \in Ops \cup {Live}
         /\ Action[o].path \in Paths /\ Action[o].value \in Versions
         /\ Action[o].writes \subseteq Paths /\ Action[o].reads \subseteq Paths
         /\ Action[o].check \in Ops \cup {NoOp}
  BY Constant DEF Request, Kind

LEMMA Empty ==
  /\ NoPins \in Pins /\ NoCert \in Cert /\ NoObs \in Observation
  /\ NoRow \in Row /\ NoMem \in Frame /\ NoTree \in Branch /\ NoProof \in Fact
<1>1. NoPins \in Pins
  BY Constant DEF NoPins, Pins
<1>2. NoCert \in Cert
  BY <1>1, Constant DEF NoCert, Cert
<1>3. NoObs \in Observation
  BY <1>2 DEF NoObs, Obs, Observation
<1>4. NoRow \in Row
  BY <1>3 DEF NoRow, Row
<1>5. NoMem \in Frame
  BY <1>1, <1>3 DEF NoMem, Frame
<1>6. NoTree \in Branch /\ NoProof \in Fact
  BY Constant DEF NoTree, Branch, NoProof, Fact
<1> QED
  BY <1>1, <1>2, <1>3, <1>4, <1>5, <1>6

LEMMA IntentRow ==
  ASSUME NEW o \in Ops, NEW r \in Runs \cup {NoOp}
  PROVE  /\ Intent(o, r) \in Row
         /\ Intent(o, r).phase = "prepared" /\ Intent(o, r).writes = {}
         /\ ~Intent(o, r).settled /\ Intent(o, r).obs.basis = "none"
<1>1. Intent(o, r) = [NoRow EXCEPT !.phase = "prepared", !.run = r] /\ NoRow \in Row
  BY Empty DEF Intent
<1>2. NoRow.obs.basis = "none" /\ NoRow.writes = {} /\ ~NoRow.settled
  BY DEF NoRow, NoObs, Obs
<1> QED
  BY <1>1, <1>2 DEF Row

Places == {"idle", "lookup", "intent", "pinned", "checking", "checked",
           "acting", "returned", "captured", "assessed"}

LEMMA FrameAt ==
  ASSUME NEW x \in Frame, NEW s \in Places
  PROVE  [x EXCEPT !.at = s] \in Frame /\ [x EXCEPT !.at = s].at = s
  BY DEF Frame, Places

LEMMA FramePins ==
  ASSUME NEW x \in Frame, NEW s \in Places, NEW q \in Pins
  PROVE  [x EXCEPT !.at = s, !.pins = q] \in Frame /\ [x EXCEPT !.at = s, !.pins = q].at = s
  BY DEF Frame, Places

LEMMA FrameCert ==
  ASSUME NEW x \in Frame, NEW s \in Places, NEW c \in Cert
  PROVE  LET y == [x EXCEPT !.at = s, !.obs.cert = c]
         IN  y \in Frame /\ y.at = s
  BY DEF Frame, Places, Observation

LEMMA FrameFields ==
  ASSUME NEW x \in Frame
  PROVE  /\ x.at \in Places /\ x.obs \in Observation /\ x.obs.cert \in Cert
         /\ x.obs.writes \subseteq Paths /\ x.pins \in Pins
  BY DEF Frame, Places, Observation

-----------------------------------------------------------------------------
(* The invariant.                                                          *)

Typed ==
    /\ row \in [Ops -> Row] /\ tree \in [Ops -> Branch] /\ mem \in [Ops -> Frame]
    /\ live \in [Paths -> Versions]
    /\ exec \in [op : Ops \cup {NoOp}, check : Ops \cup {NoOp}]
    /\ run \in [Runs -> {"stopped", "resuming", "active", "stuck"}]
    /\ cancel \in [Runs -> BOOLEAN]
    /\ clock \in Nat /\ inval \in [Paths -> Nat] /\ stale \subseteq Paths
    /\ proofs \in [Paths -> [Obligations -> Fact]]
    /\ pins \in Pins /\ expired \in BOOLEAN /\ crashes \in 0..MaxCrashes
    /\ calls \in [Ops -> 0..1] /\ orphans \subseteq Ops /\ strays \in 0..MaxStrays
    /\ wrote \in [Paths -> Nat] /\ stamp \in Nat

LEMMA TypedIs == Typed <=> TypeOK
  BY DEF Typed, TypeOK, Row, Frame, Branch, Fact

\* The outcome obs is one that the given number of calls bears out.
Tells(obs, n) ==
    /\ obs.basis \in {"established", "not_dispatched", "unresolved", "postcondition"}
    /\ obs.status = "unknown" <=> obs.basis \in {"unresolved", "postcondition"}
    /\ obs.basis = "established" => n = 1
    /\ obs.basis = "not_dispatched" => n = 0

\* Where an operation is in the executor, what its row says, how often its adapter was
\* called and whether its process may outlive the host agree.
OpOK(o) ==
    /\ row[o].phase \in {"none", "prepared"} =>
          calls[o] = 0 /\ o \notin orphans /\ row[o].writes = {}
    /\ row[o].phase \in {"none", "prepared", "dispatching"} => row[o].obs.basis = "none"
    /\ mem[o].at \in {"intent", "pinned", "checking", "checked"} => row[o].phase = "prepared"
    /\ mem[o].at \in {"pinned", "checking", "checked"} => Kind(o) = "apply"
    /\ mem[o].at = "acting" => row[o].phase = "dispatching" /\ calls[o] = 0
    /\ mem[o].at = "returned" =>
          row[o].phase \in {"prepared", "dispatching"} /\ Tells(mem[o].obs, calls[o])
    /\ mem[o].at \in {"acting", "returned"} => o \notin orphans
    /\ mem[o].at = "lookup" => row[o].phase \in {"prepared", "dispatching", "observed"}
    /\ row[o].phase \in {"observed", "finalized"} =>
          /\ Tells(row[o].obs, calls[o])
          /\ o \in orphans => row[o].obs.status = "unknown" /\ ~row[o].settled
    /\ row[o].settled => row[o].phase = "finalized" /\ row[o].obs.status = "unknown"

PerOp == \A o \in Ops : OpOK(o)
EInv == Typed /\ PerOp /\ SingleLiveWriter

LEMMA Untouched ==
  ASSUME NEW x \in Ops, row'[x] = row[x], mem'[x] = mem[x], calls'[x] = calls[x],
         x \in orphans' <=> x \in orphans
  PROVE  /\ OpOK(x) => OpOK(x)'
         /\ MayStillWrite(x)' <=> MayStillWrite(x)
  BY DEF OpOK, MayStillWrite

\* An operation writes no longer than before unless it is dispatched.
LEMMA SingleStays ==
  ASSUME SingleLiveWriter, \A x \in Ops : MayStillWrite(x)' => MayStillWrite(x)
  PROVE  SingleLiveWriter'
  BY DEF SingleLiveWriter

LEMMA InitEInv == Init => EInv
<1> SUFFICES ASSUME Init PROVE EInv
  OBVIOUS
<1>1. /\ row \in [Ops -> Row] /\ tree \in [Ops -> Branch] /\ mem \in [Ops -> Frame]
      /\ proofs \in [Paths -> [Obligations -> Fact]] /\ pins \in Pins
      /\ live \in [Paths -> Versions]
  BY Empty, Constant DEF Init
<1>2. /\ calls \in [Ops -> 0..1] /\ strays \in 0..MaxStrays /\ crashes \in 0..MaxCrashes
      /\ clock \in Nat /\ stamp \in Nat
      /\ inval \in [Paths -> Nat] /\ wrote \in [Paths -> Nat]
  BY Constant DEF Init
<1>3. /\ run \in [Runs -> {"stopped", "resuming", "active", "stuck"}]
      /\ cancel \in [Runs -> BOOLEAN] /\ expired \in BOOLEAN
      /\ exec \in [op : Ops \cup {NoOp}, check : Ops \cup {NoOp}]
      /\ stale \subseteq Paths /\ orphans \subseteq Ops
  BY DEF Init, Free
<1>4. Typed
  BY <1>1, <1>2, <1>3 DEF Typed
<1>5. PerOp
  BY DEF Init, PerOp, OpOK, NoRow, NoObs, Obs, NoMem, Tells
<1>6. SingleLiveWriter
  BY DEF Init, SingleLiveWriter, MayStillWrite, NoRow
<1> QED
  BY <1>4, <1>5, <1>6 DEF EInv

-----------------------------------------------------------------------------
(* The steps of the executor.                                              *)

\* An operation's frame moves while its row, its calls and its process stay.
LEMMA FrameMove ==
  ASSUME EInv, NEW o \in Ops, NEW f \in Frame,
         mem' = [mem EXCEPT ![o] = f], UNCHANGED <<row, calls, orphans>>,
         f.at \in {"intent", "pinned", "checking", "checked"} => row[o].phase = "prepared",
         f.at \in {"pinned", "checking", "checked"} => Kind(o) = "apply",
         f.at # "acting",
         f.at = "returned" => row[o].phase = "prepared" /\ Tells(f.obs, 0),
         f.at = "lookup" => row[o].phase \in {"prepared", "dispatching", "observed"}
  PROVE  mem' \in [Ops -> Frame] /\ PerOp' /\ SingleLiveWriter'
<1>1. mem' \in [Ops -> Frame] /\ mem'[o] = f
  BY DEF EInv, Typed
<1>2. OpOK(o)'
  BY <1>1 DEF EInv, PerOp, OpOK
<1>3. \A x \in Ops : x # o => OpOK(x)'
  BY Untouched DEF EInv, PerOp, Typed
<1>4. \A x \in Ops : MayStillWrite(x)' => MayStillWrite(x)
  BY DEF MayStillWrite
<1> QED
  BY <1>1, <1>2, <1>3, <1>4, SingleStays DEF EInv, PerOp

LEMMA LookUpStep ==
  ASSUME EInv, NEW o \in Ops, LookUp(o)
  PROVE  EInv'
<1>1. mem' = [mem EXCEPT ![o] = [mem[o] EXCEPT !.at = "lookup"]]
  BY DEF LookUp, EInv, Typed
<1>0. mem[o] \in Frame /\ "lookup" \in Places
  BY DEF EInv, Typed, Places
<1>2. [mem[o] EXCEPT !.at = "lookup"] \in Frame /\ [mem[o] EXCEPT !.at = "lookup"].at = "lookup"
  BY <1>0, FrameAt
<1>3. mem' \in [Ops -> Frame] /\ PerOp' /\ SingleLiveWriter'
  BY <1>1, <1>2, FrameMove DEF LookUp, table, world
<1>4. Typed'
  BY <1>3 DEF EInv, Typed, LookUp, table, world
<1> QED
  BY <1>3, <1>4 DEF EInv

LEMMA DenyStep ==
  ASSUME EInv, NEW o \in Ops, Deny(o)
  PROVE  EInv'
<1> DEFINE denial == Obs("denied", "not_dispatched", {}, NoCert)
           f == [mem[o] EXCEPT !.at = "returned", !.obs = denial]
<1>1. mem' = [mem EXCEPT ![o] = f]
  BY DEF Deny, EInv, Typed
<1>0. mem[o] \in Frame /\ "returned" \in Places /\ {} \in SUBSET Paths /\ NoCert \in Cert
  BY Empty DEF EInv, Typed, Places
<1>2. denial \in Observation /\ Tells(denial, 0)
  BY <1>0 DEF Tells, Obs, Observation
<1> HIDE DEF denial
<1>3. f \in Frame /\ f.at = "returned" /\ f.obs = denial
  BY <1>0, <1>2 DEF Frame, Places
<1>4. row[o].phase = "prepared"
  BY DEF Deny, EInv, PerOp, OpOK
<1> HIDE DEF f
<1>5. mem' \in [Ops -> Frame] /\ PerOp' /\ SingleLiveWriter'
  BY <1>1, <1>2, <1>3, <1>4, FrameMove DEF Deny, table, world
<1>6. Typed'
  BY <1>5 DEF EInv, Typed, Deny, table, world
<1> QED
  BY <1>5, <1>6 DEF EInv

LEMMA PinStep ==
  ASSUME EInv, NEW o \in Ops, Pin(o)
  PROVE  EInv'
<1> DEFINE f == [mem[o] EXCEPT !.at = "pinned", !.pins = pins]
<1>1. mem' = [mem EXCEPT ![o] = f]
  BY DEF Pin, EInv, Typed
<1>0. mem[o] \in Frame /\ "pinned" \in Places /\ pins \in Pins
  BY DEF EInv, Typed, Places
<1>2. f \in Frame /\ f.at = "pinned"
  BY <1>0, FramePins
<1>3. row[o].phase = "prepared" /\ Kind(o) = "apply"
  BY DEF Pin, EInv, PerOp, OpOK
<1> HIDE DEF f
<1>4. mem' \in [Ops -> Frame] /\ PerOp' /\ SingleLiveWriter'
  BY <1>1, <1>2, <1>3, FrameMove DEF Pin, table, world
<1>5. Typed'
  BY <1>4 DEF EInv, Typed, Pin, table, world
<1> QED
  BY <1>4, <1>5 DEF EInv

LEMMA AcceptCheckStep ==
  ASSUME EInv, NEW o \in Ops, AcceptCheck(o)
  PROVE  EInv'
<1> DEFINE cert == CertificateOf(Action[o].check)
           f == [mem[o] EXCEPT !.at = "checked", !.obs.cert = cert]
<1>1. row[o].phase = "prepared" /\ Kind(o) = "apply" /\ Action[o].check \in Ops
  BY Constant DEF AcceptCheck, EInv, PerOp, OpOK
<1>2. mem' = [mem EXCEPT ![o] = f]
  BY ZenonT(60) DEF AcceptCheck, EInv, Typed
<1>3. cert \in Cert
  BY <1>1 DEF CertificateOf, EInv, Typed, Row, Observation
<1>0. mem[o] \in Frame /\ "checked" \in Places
  BY DEF EInv, Typed, Places
<1>4. f \in Frame /\ f.at = "checked"
  BY <1>0, <1>3, FrameCert, ZenonT(60)
<1> HIDE DEF f, cert
<1>5. mem' \in [Ops -> Frame] /\ PerOp' /\ SingleLiveWriter'
  BY <1>1, <1>2, <1>4, FrameMove, Zenon DEF AcceptCheck, table, world
<1>6. Typed'
  BY <1>5 DEF EInv, Typed, AcceptCheck, table, world
<1> QED
  BY <1>5, <1>6 DEF EInv

\* One operation moves.
LEMMA Moved ==
  ASSUME EInv, NEW o \in Ops,
         \A x \in Ops : x # o => /\ row'[x] = row[x] /\ mem'[x] = mem[x]
                                 /\ calls'[x] = calls[x] /\ (x \in orphans' <=> x \in orphans),
         OpOK(o)', MayStillWrite(o)' => MayStillWrite(o)
  PROVE  PerOp' /\ SingleLiveWriter'
<1>1. \A x \in Ops : x # o => OpOK(x)' /\ (MayStillWrite(x)' => MayStillWrite(x))
  BY Untouched DEF EInv, PerOp
<1> QED
  BY <1>1, SingleStays DEF EInv, PerOp

LEMMA ExecuteStep ==
  ASSUME EInv, NEW r \in Runs, NEW o \in Ops, Execute(r, o)
  PROVE  EInv'
<1>1. CASE LookUp(o)
  BY <1>1, LookUpStep
<1>2. CASE /\ ~Known(o)
           /\ row' = [row EXCEPT ![o] = Intent(o, r)]
           /\ exec' = [op |-> o, check |-> NoOp]
           /\ mem' = [mem EXCEPT ![o].at = "intent"]
           /\ UNCHANGED <<tree, clock, inval, stale, proofs, world, run, cancel,
                          pins, expired, crashes>>
  <2>1. /\ Intent(o, r) \in Row /\ Intent(o, r).phase = "prepared"
        /\ Intent(o, r).writes = {} /\ ~Intent(o, r).settled /\ Intent(o, r).obs.basis = "none"
    BY IntentRow
  <2>2. row' \in [Ops -> Row] /\ row'[o] = Intent(o, r)
    BY <1>2, <2>1 DEF EInv, Typed
  <2>3. mem'[o] = [mem[o] EXCEPT !.at = "intent"] /\ mem[o] \in Frame
    BY <1>2 DEF EInv, Typed
  <2>4. mem'[o] \in Frame /\ mem'[o].at = "intent"
    BY <2>3 DEF Frame
  <2>5. mem' \in [Ops -> Frame]
    BY <1>2, <2>4 DEF EInv, Typed
  <2>6. calls[o] = 0 /\ o \notin orphans
    BY <1>2 DEF EInv, PerOp, OpOK, Known
  <2>7. OpOK(o)' /\ ~MayStillWrite(o)'
    BY <1>2, <2>1, <2>2, <2>4, <2>6 DEF OpOK, MayStillWrite, world
  <2>8. PerOp' /\ SingleLiveWriter'
    BY <1>2, <2>7, Moved DEF EInv, Typed, world
  <2>9. Typed'
    BY <1>2, <2>2, <2>5 DEF EInv, Typed, world
  <2> QED
    BY <2>8, <2>9 DEF EInv
<1> QED
  BY <1>1, <1>2 DEF Execute

LEMMA StartDispatchStep ==
  ASSUME EInv, NEW o \in Ops, StartDispatch(o)
  PROVE  EInv'
<1> DEFINE r == [row[o] EXCEPT !.phase = "dispatching", !.writes = LiveWrites(o), !.gen = clock]
           f == [mem[o] EXCEPT !.at = "acting",
                               !.pins = IF Kind(o) = "apply" THEN mem[o].pins ELSE pins]
<1>1. /\ mem[o] \in Frame /\ row[o] \in Row /\ row[o].phase = "prepared"
      /\ mem[o].pins \in Pins /\ pins \in Pins /\ clock \in Nat
  BY FrameFields DEF EInv, Typed, StartDispatch
<1>2. LiveWrites(o) \in SUBSET Paths
  BY RequestFields DEF LiveWrites
<1>3. /\ r \in Row /\ r.phase = "dispatching" /\ r.writes = LiveWrites(o) /\ r.settled = row[o].settled
      /\ r.obs = row[o].obs
  BY <1>1, <1>2 DEF Row
<1>4. f \in Frame /\ f.at = "acting"
  BY <1>1 DEF Frame
<1>5. /\ row' = [row EXCEPT ![o] = r] /\ mem' = [mem EXCEPT ![o] = f]
      /\ UNCHANGED <<tree, clock, inval, stale, proofs, world, exec, run, cancel,
                     pins, expired, crashes>>
  BY DEF StartDispatch, EInv, Typed
<1> HIDE DEF r, f
<1>6. row' \in [Ops -> Row] /\ mem' \in [Ops -> Frame] /\ row'[o] = r /\ mem'[o] = f
  BY <1>3, <1>4, <1>5 DEF EInv, Typed
<1>7. OpOK(o)'
  BY <1>1, <1>3, <1>4, <1>5, <1>6 DEF EInv, PerOp, OpOK, world
<1>8. \A x \in Ops : x # o => OpOK(x)' /\ (MayStillWrite(x)' <=> MayStillWrite(x))
  BY <1>5, Untouched DEF EInv, PerOp, Typed, world
<1>9. SingleLiveWriter'
  <2>1. CASE LiveWrites(o) = {}
    <3>1. ~MayStillWrite(o)'
      BY <1>3, <1>6, <2>1 DEF MayStillWrite
    <3> QED
      BY <1>8, <3>1, SingleStays DEF EInv
  <2>2. CASE LiveWrites(o) # {}
    <3>1. ~Fence(o)
      BY <2>2 DEF StartDispatch
    <3>2. ASSUME NEW x \in Ops, x # o, MayStillWrite(x) PROVE FALSE
      <4>1. row[x].writes # {}
        BY <3>2 DEF MayStillWrite
      <4>2. row[x].phase = "dispatching" \/ x \in orphans
        BY <3>2 DEF MayStillWrite
      <4>3. /\ row[x] \in Row /\ OpOK(x)
        BY DEF EInv, Typed, PerOp
      <4>4. \/ row[x].phase \in {"dispatching", "observed"}
            \/ row[x].phase = "finalized" /\ row[x].obs.status = "unknown" /\ ~row[x].settled
        BY <4>2, <4>3 DEF OpOK, Row
      <4> QED
        BY <3>1, <3>2, <4>1, <4>4 DEF Fence, PotentialWriter
    <3> QED
      BY <1>8, <3>2 DEF SingleLiveWriter
  <2> QED
    BY <2>1, <2>2
<1>10. Typed'
  BY <1>5, <1>6 DEF EInv, Typed, world
<1> QED
  BY <1>7, <1>8, <1>9, <1>10 DEF EInv, PerOp

LEMMA RunCheckStep ==
  ASSUME EInv, NEW o \in Ops, RunCheck(o)
  PROVE  EInv'
<1> DEFINE c == Action[o].check
<1>1. /\ Kind(o) = "apply" /\ row[o].phase = "prepared" /\ mem[o].at = "pinned"
      /\ OpOK(o) /\ row[o] \in Row /\ mem[o] \in Frame
  BY DEF RunCheck, EInv, PerOp, OpOK, Typed
<1>2. c \in Ops /\ c # o
  BY <1>1, Constant
<1>3. /\ OpOK(c) /\ row[c] \in Row /\ mem[c] \in Frame /\ row[o].run \in Runs \cup {NoOp}
  BY <1>1, <1>2 DEF EInv, PerOp, Typed, Row
<1>4. UNCHANGED <<tree, clock, inval, stale, proofs, world, run, cancel, pins, expired, crashes>>
  BY DEF RunCheck
<1> HIDE DEF c
<1>5. \A x \in Ops : x # o /\ x # c =>
         row'[x] = row[x] /\ mem'[x] = mem[x] /\ calls'[x] = calls[x]
  BY <1>1, <1>2, <1>4 DEF RunCheck, EInv, Typed, world, c
<1>6. mem'[o] = [mem[o] EXCEPT !.at = "checking"] /\ row'[o] = row[o]
  BY <1>1, <1>2 DEF RunCheck, EInv, Typed, c
<1>7. mem'[o] \in Frame /\ mem'[o].at = "checking"
  BY <1>1, <1>6 DEF Frame
<1>8. OpOK(o)' /\ (MayStillWrite(o)' <=> MayStillWrite(o))
  BY <1>1, <1>4, <1>6, <1>7 DEF OpOK, MayStillWrite, world
<1>9. /\ row' \in [Ops -> Row] /\ mem' \in [Ops -> Frame]
      /\ exec' \in [op : Ops \cup {NoOp}, check : Ops \cup {NoOp}]
      /\ OpOK(c)' /\ (MayStillWrite(c)' => MayStillWrite(c))
  <2>1. CASE row[c].phase = "none"
    <3>1. /\ row' = [row EXCEPT ![c] = Intent(c, row[o].run)]
          /\ mem'[c] = [mem[c] EXCEPT !.at = "intent"]
          /\ exec' = [exec EXCEPT !.check = c]
          /\ mem' = [mem EXCEPT ![o].at = "checking", ![c].at = "intent"]
      BY <1>2, <2>1 DEF RunCheck, EInv, Typed, c
    <3>2. /\ Intent(c, row[o].run) \in Row /\ Intent(c, row[o].run).phase = "prepared"
          /\ Intent(c, row[o].run).writes = {} /\ ~Intent(c, row[o].run).settled
          /\ Intent(c, row[o].run).obs.basis = "none"
      BY <1>2, <1>3, IntentRow
    <3>3. row' \in [Ops -> Row] /\ row'[c] = Intent(c, row[o].run)
      BY <1>2, <3>1, <3>2 DEF EInv, Typed
    <3>4. mem'[c] \in Frame /\ mem'[c].at = "intent"
      BY <1>3, <3>1 DEF Frame
    <3>5. mem' \in [Ops -> Frame]
      BY <1>2, <1>7, <3>1, <3>4 DEF EInv, Typed
    <3>6. calls[c] = 0 /\ c \notin orphans
      BY <1>3, <2>1 DEF OpOK
    <3>7. OpOK(c)' /\ ~MayStillWrite(c)'
      BY <1>4, <3>2, <3>3, <3>4, <3>6 DEF OpOK, MayStillWrite, world
    <3>8. exec' \in [op : Ops \cup {NoOp}, check : Ops \cup {NoOp}]
      BY <1>2, <3>1 DEF EInv, Typed
    <3> QED
      BY <3>3, <3>5, <3>7, <3>8
  <2>2. CASE row[c].phase = "finalized"
    <3>1. row' = row /\ exec' = exec /\ mem' = [mem EXCEPT ![o].at = "checking"]
      BY <2>2 DEF RunCheck, c
    <3>2. mem'[c] = mem[c] /\ mem' \in [Ops -> Frame]
      BY <1>2, <1>7, <3>1 DEF EInv, Typed
    <3> QED
      BY <1>2, <1>3, <1>4, <3>1, <3>2, Untouched DEF EInv, Typed, world
  <2>3. CASE row[c].phase \notin {"none", "finalized"}
    <3>1. /\ row' = row
          /\ mem'[c] = [mem[c] EXCEPT !.at = "lookup"]
          /\ exec' = [exec EXCEPT !.check = c]
          /\ mem' = [mem EXCEPT ![o].at = "checking", ![c].at = "lookup"]
      BY <1>2, <2>3 DEF RunCheck, EInv, Typed, c
    <3>2. mem'[c] \in Frame /\ mem'[c].at = "lookup"
      BY <1>3, <3>1 DEF Frame
    <3>3. mem' \in [Ops -> Frame]
      BY <1>2, <1>7, <3>1, <3>2 DEF EInv, Typed
    <3>4. row[c].phase \in {"prepared", "dispatching", "observed"}
      BY <1>3, <2>3 DEF Row
    <3>5. OpOK(c)' /\ (MayStillWrite(c)' => MayStillWrite(c))
      BY <1>3, <1>4, <3>1, <3>2, <3>4 DEF OpOK, MayStillWrite, world
    <3>6. exec' \in [op : Ops \cup {NoOp}, check : Ops \cup {NoOp}]
      BY <1>2, <3>1 DEF EInv, Typed
    <3> QED
      BY <3>1, <3>3, <3>5, <3>6 DEF EInv, Typed
  <2> QED
    BY <2>1, <2>2, <2>3
<1>10. \A x \in Ops : OpOK(x)' /\ (MayStillWrite(x)' => MayStillWrite(x))
  BY <1>4, <1>5, <1>8, <1>9, Untouched DEF EInv, PerOp, world
<1>11. PerOp' /\ SingleLiveWriter'
  BY <1>10, SingleStays DEF PerOp, EInv
<1>12. Typed'
  BY <1>4, <1>9 DEF EInv, Typed, world
<1> QED
  BY <1>11, <1>12 DEF EInv

-----------------------------------------------------------------------------
(* The adapter call.                                                       *)

LEMMA ReturnMove ==
  ASSUME EInv, NEW o \in Ops, NEW obs \in Observation, Tells(obs, 1),
         mem[o].at = "acting", Returned(o, obs), UNCHANGED <<row, orphans>>
  PROVE  /\ mem' \in [Ops -> Frame] /\ calls' \in [Ops -> 0..1]
         /\ PerOp' /\ SingleLiveWriter'
<1> DEFINE f == [mem[o] EXCEPT !.at = "returned", !.obs = obs]
<1>1. /\ mem[o] \in Frame /\ OpOK(o) /\ calls[o] = 0
      /\ row[o].phase = "dispatching" /\ o \notin orphans
  BY DEF EInv, Typed, PerOp, OpOK
<1>2. mem' = [mem EXCEPT ![o] = f]
  BY DEF Returned, EInv, Typed
<1>3. f \in Frame /\ f.at = "returned" /\ f.obs = obs
  BY <1>1 DEF Frame
<1> HIDE DEF f
<1>4. mem' \in [Ops -> Frame] /\ mem'[o] = f
  BY <1>2, <1>3 DEF EInv, Typed
<1>5. calls' \in [Ops -> 0..1] /\ calls'[o] = 1
  BY <1>1 DEF Returned, EInv, Typed
<1>6. OpOK(o)' /\ (MayStillWrite(o)' => MayStillWrite(o))
  BY <1>1, <1>3, <1>4, <1>5 DEF OpOK, MayStillWrite
<1>7. \A x \in Ops : x # o => mem'[x] = mem[x] /\ calls'[x] = calls[x]
  BY DEF Returned, EInv, Typed
<1> QED
  BY <1>4, <1>5, <1>6, <1>7, Moved

LEMMA ViewTyped ==
  ASSUME Typed, NEW o \in Ops
  PROVE  View(o) \in [Paths -> Versions]
  BY RequestFields DEF Typed, View, OnLive, Branch

LEMMA Outcomes ==
  ASSUME Typed, NEW o \in Ops, NEW cert \in Cert
  PROVE  /\ Unresolved(o) \in Observation /\ Tells(Unresolved(o), 1)
         /\ Established(o, cert) \in Observation /\ Tells(Established(o, cert), 1)
         /\ [Established(o, cert) EXCEPT !.status = "failed"] \in Observation
         /\ Tells([Established(o, cert) EXCEPT !.status = "failed"], 1)
<1>1. row[o].writes \in SUBSET Paths
  BY DEF Typed, Row
<1> QED
  BY <1>1, Empty DEF Unresolved, Established, Obs, Observation, Tells

LEMMA WriteTyped ==
  ASSUME Typed, NEW W \in SUBSET Paths, NEW content, \A p \in W : content[p] \in Versions,
         WriteLive(W, content)
  PROVE  live' \in [Paths -> Versions] /\ wrote' \in [Paths -> Nat] /\ stamp' \in Nat
  BY DEF Typed, WriteLive

LEMMA BranchWritten ==
  ASSUME Typed, NEW b \in Ops, NEW c \in [Paths -> Versions],
         tree' = [tree EXCEPT ![b].content = c]
  PROVE  tree' \in [Ops -> Branch]
<1>1. tree[b] \in Branch
  BY DEF Typed
<1>2. [tree[b] EXCEPT !.content = c] \in Branch
  BY <1>1 DEF Branch
<1>3. tree' = [tree EXCEPT ![b] = [tree[b] EXCEPT !.content = c]]
  BY DEF Typed
<1> QED
  BY <1>2, <1>3 DEF Typed

LEMMA BranchPathWritten ==
  ASSUME Typed, NEW b \in Ops, NEW p \in Paths, NEW v \in Versions,
         tree' = [tree EXCEPT ![b].content[p] = v]
  PROVE  tree' \in [Ops -> Branch]
<1>1. tree[b] \in Branch
  BY DEF Typed
<1>2. [tree[b].content EXCEPT ![p] = v] \in [Paths -> Versions]
  BY <1>1 DEF Branch
<1>3. tree' = [tree EXCEPT ![b].content = [tree[b].content EXCEPT ![p] = v]]
  BY DEF Typed
<1> QED
  BY <1>2, <1>3, BranchWritten

LEMMA ActEditStep ==
  ASSUME EInv, NEW o \in Ops, ActEdit(o)
  PROVE  EInv'
<1> DEFINE p == Action[o].path
           place == IF Kind(o) = "apply" THEN live ELSE View(o)
           write == /\ place[p] = Action[o].expected
                    /\ IF LiveWrites(o) # {}
                         THEN WriteLive({p}, NewValue(o)) /\ UNCHANGED tree
                         ELSE /\ tree' = [tree EXCEPT ![Action[o].branch].content[p] =
                                            Action[o].value]
                              /\ UNCHANGED <<live, wrote, stamp>>
<1>1. /\ Kind(o) \in {"edit", "apply"} /\ mem[o].at = "acting"
      /\ UNCHANGED <<row, clock, inval, stale, proofs, orphans, strays, exec, run, cancel,
                     pins, expired, crashes>>
      /\ \/ write /\ Returned(o, Established(o, mem[o].obs.cert))
         \/ write /\ Returned(o, Unresolved(o))
         \/ Returned(o, Unresolved(o)) /\ UNCHANGED <<tree, live, wrote, stamp>>
  BY DEF ActEdit, Acting
<1>2. mem[o].obs.cert \in Cert
  BY FrameFields DEF EInv, Typed
<1>3. /\ mem' \in [Ops -> Frame] /\ calls' \in [Ops -> 0..1]
      /\ PerOp' /\ SingleLiveWriter'
  BY <1>1, <1>2, Outcomes, ReturnMove DEF EInv
<1>4. ASSUME write
      PROVE  /\ tree' \in [Ops -> Branch] /\ live' \in [Paths -> Versions]
             /\ wrote' \in [Paths -> Nat] /\ stamp' \in Nat
  <2>1. CASE LiveWrites(o) # {}
    <3>1. WriteLive({p}, NewValue(o)) /\ UNCHANGED tree
      BY <1>4, <2>1
    <3>2. {p} \in SUBSET Paths /\ \A q \in {p} : NewValue(o)[q] \in Versions
      BY RequestFields DEF NewValue
    <3> QED
      BY <3>1, <3>2, WriteTyped DEF EInv, Typed
  <2>2. CASE LiveWrites(o) = {}
    <3>1. Kind(o) = "edit" /\ ~OnLive(o)
      BY <1>1, <2>2 DEF LiveWrites
    <3>2. Action[o].branch \in Ops /\ p \in Paths /\ Action[o].value \in Versions
      BY <3>1, RequestFields DEF OnLive
    <3>3. /\ tree' = [tree EXCEPT ![Action[o].branch].content[p] = Action[o].value]
          /\ UNCHANGED <<live, wrote, stamp>>
      BY <1>4, <2>2
    <3>4. tree' \in [Ops -> Branch]
      BY <3>2, <3>3, BranchPathWritten DEF EInv
    <3> QED
      BY <3>3, <3>4 DEF EInv, Typed
  <2> QED
    BY <2>1, <2>2
<1>5. /\ tree' \in [Ops -> Branch] /\ live' \in [Paths -> Versions]
      /\ wrote' \in [Paths -> Nat] /\ stamp' \in Nat
  <2>1. CASE write
    BY <1>4, <2>1
  <2>2. CASE UNCHANGED <<tree, live, wrote, stamp>>
    BY <2>2 DEF EInv, Typed
  <2> QED
    BY <1>1, <2>1, <2>2
<1>6. Typed'
  BY <1>1, <1>3, <1>5 DEF EInv, Typed
<1> QED
  BY <1>3, <1>6 DEF EInv

LEMMA ActBranchStep ==
  ASSUME EInv, NEW o \in Ops, ActBranch(o)
  PROVE  EInv'
<1> DEFINE b == [made |-> TRUE, row |-> FALSE, base |-> live, content |-> live]
<1>1. /\ mem[o].at = "acting"
      /\ UNCHANGED <<row, clock, inval, stale, proofs, live, orphans, strays, wrote, stamp,
                     exec, run, cancel, pins, expired, crashes>>
      /\ \/ tree' = [tree EXCEPT ![o] = b] /\ Returned(o, Established(o, NoCert))
         \/ UNCHANGED tree /\ Returned(o, Unresolved(o))
  BY DEF ActBranch, Acting
<1>2. b \in Branch
  BY DEF EInv, Typed, Branch
<1>3. tree' \in [Ops -> Branch]
  BY <1>1, <1>2, Zenon DEF EInv, Typed
<1>4. /\ mem' \in [Ops -> Frame] /\ calls' \in [Ops -> 0..1]
      /\ PerOp' /\ SingleLiveWriter'
  BY <1>1, Empty, Outcomes, ReturnMove DEF EInv
<1>5. Typed'
  BY <1>1, <1>3, <1>4 DEF EInv, Typed
<1> QED
  BY <1>4, <1>5 DEF EInv

LEMMA ActToolStep ==
  ASSUME EInv, NEW o \in Ops, ActTool(o)
  PROVE  EInv'
<1> DEFINE W == Action[o].writes
           after(new) == [p \in Paths |-> IF p \in W THEN new[p] ELSE View(o)[p]]
<1>1. /\ mem[o].at = "acting" /\ row[o] \in Row /\ pins \in Pins /\ stamp \in Nat
      /\ mem[o].pins \in Pins
      /\ UNCHANGED <<row, clock, inval, stale, proofs, orphans, strays, exec, run, cancel,
                     pins, expired, crashes>>
  BY FrameFields DEF ActTool, Acting, EInv, Typed
<1>2. PICK new \in [W -> Versions], outcome \in {"passed", "failed", "lost"} :
         /\ IF OnLive(o) THEN WriteLive(W, after(new)) /\ UNCHANGED tree
                         ELSE /\ tree' = [tree EXCEPT ![Action[o].branch].content = after(new)]
                              /\ UNCHANGED <<live, wrote, stamp>>
         /\ \/ Returned(o, Unresolved(o))
            \/ Returned(o, Established(o, Certificate(o, outcome = "passed", after(new))))
            \/ Returned(o, [Established(o, Certificate(o, outcome = "passed", after(new)))
                              EXCEPT !.status = "failed"])
  BY Zenon DEF ActTool
<1>3. View(o) \in [Paths -> Versions] /\ W \in SUBSET Paths
  BY ViewTyped, RequestFields DEF EInv
<1>4. after(new) \in [Paths -> Versions]
  BY <1>2, <1>3
<1>5. Certificate(o, outcome = "passed", after(new)) \in Cert
  BY <1>1, <1>3, <1>4, Constant DEF Certificate, Cert, Pins, Row
<1>6. /\ mem' \in [Ops -> Frame] /\ calls' \in [Ops -> 0..1]
      /\ PerOp' /\ SingleLiveWriter'
  <2>1. ASSUME NEW obs \in Observation, Tells(obs, 1), Returned(o, obs)
        PROVE  /\ mem' \in [Ops -> Frame] /\ calls' \in [Ops -> 0..1]
               /\ PerOp' /\ SingleLiveWriter'
    BY <1>1, <2>1, ReturnMove
  <2> QED
    BY <1>2, <1>5, <2>1, Outcomes DEF EInv
<1>7. /\ tree' \in [Ops -> Branch] /\ live' \in [Paths -> Versions]
      /\ wrote' \in [Paths -> Nat] /\ stamp' \in Nat
  <2>1. CASE OnLive(o)
    <3>1. WriteLive(W, after(new)) /\ UNCHANGED tree
      BY <1>2, <2>1
    <3>2. \A p \in W : after(new)[p] \in Versions
      BY <1>3, <1>4
    <3> HIDE DEF after
    <3> QED
      BY <1>3, <3>1, <3>2, WriteTyped DEF EInv, Typed
  <2>2. CASE ~OnLive(o)
    <3>1. Action[o].branch \in Ops
      BY <2>2, RequestFields DEF OnLive
    <3>2. /\ tree' = [tree EXCEPT ![Action[o].branch].content = after(new)]
          /\ UNCHANGED <<live, wrote, stamp>>
      BY <1>2, <2>2
    <3> HIDE DEF after
    <3>3. tree' \in [Ops -> Branch]
      BY <1>4, <3>1, <3>2, BranchWritten DEF EInv
    <3> QED
      BY <3>2, <3>3 DEF EInv, Typed
  <2> QED
    BY <2>1, <2>2
<1>8. Typed'
  BY <1>1, <1>6, <1>7 DEF EInv, Typed
<1> QED
  BY <1>6, <1>8 DEF EInv

-----------------------------------------------------------------------------
(* Capture and finalization.                                               *)

LEMMA CaptureStep ==
  ASSUME EInv, NEW o \in Ops, Capture(o)
  PROVE  EInv'
<1> DEFINE r == [row[o] EXCEPT !.phase = "observed", !.obs = mem[o].obs]
           f == [mem[o] EXCEPT !.at = "captured"]
<1>1. /\ row[o] \in Row /\ mem[o] \in Frame /\ mem[o].obs \in Observation /\ OpOK(o)
      /\ mem[o].at = "returned"
  BY FrameFields DEF Capture, EInv, Typed, PerOp
<1>2. /\ row' = [row EXCEPT ![o] = r] /\ mem' = [mem EXCEPT ![o] = f]
      /\ UNCHANGED <<tree, clock, inval, stale, proofs, world, exec, run, cancel, pins,
                     expired, crashes>>
  BY DEF Capture, EInv, Typed
<1>3. /\ r \in Row /\ r.phase = "observed" /\ r.obs = mem[o].obs
      /\ r.settled = row[o].settled /\ r.writes = row[o].writes
  BY <1>1 DEF Row
<1>4. f \in Frame /\ f.at = "captured"
  BY <1>1 DEF Frame
<1> HIDE DEF r, f
<1>5. row' \in [Ops -> Row] /\ mem' \in [Ops -> Frame] /\ row'[o] = r /\ mem'[o] = f
  BY <1>2, <1>3, <1>4 DEF EInv, Typed
<1>6. OpOK(o)' /\ (MayStillWrite(o)' => MayStillWrite(o))
  BY <1>1, <1>2, <1>3, <1>4, <1>5 DEF OpOK, MayStillWrite, world
<1>7. PerOp' /\ SingleLiveWriter'
  BY <1>2, <1>6, Moved DEF EInv, Typed, world
<1>8. Typed'
  BY <1>2, <1>5 DEF EInv, Typed, world
<1> QED
  BY <1>7, <1>8 DEF EInv

LEMMA ReconcileStep ==
  ASSUME EInv, NEW o \in Ops, Reconcile(o)
  PROVE  EInv'
<1> DEFINE verdict == ReconciledOutcome(o)
           found == Obs(verdict[1], verdict[2], RecoveredWrites(o), NoCert)
           r == [row[o] EXCEPT !.phase = "observed", !.obs = found]
           f == [mem[o] EXCEPT !.at = "captured"]
<1>1. /\ row[o] \in Row /\ mem[o] \in Frame /\ OpOK(o) /\ mem[o].at = "lookup"
      /\ row[o].phase \in {"prepared", "dispatching"}
  BY DEF Reconcile, EInv, Typed, PerOp
<1>2. verdict[1] = "unknown" /\ verdict[2] \in {"postcondition", "unresolved"}
  BY DEF ReconciledOutcome
<1>3. RecoveredWrites(o) \in SUBSET Paths
  <2>1. row[o].writes \subseteq Paths /\ LiveWrites(o) \subseteq Paths
    BY <1>1, RequestFields DEF Row, LiveWrites
  <2> QED
    BY <2>1 DEF RecoveredWrites
<1>4. /\ row' = [row EXCEPT ![o] = r] /\ mem' = [mem EXCEPT ![o] = f]
      /\ UNCHANGED <<tree, clock, inval, stale, proofs, world, exec, run, cancel, pins,
                     expired, crashes>>
  BY DEF Reconcile, EInv, Typed
<1>5. /\ found \in Observation /\ found.status = "unknown"
      /\ found.basis \in {"postcondition", "unresolved"}
  BY <1>2, <1>3, Empty DEF Obs, Observation
<1> HIDE DEF found
<1>6. /\ r \in Row /\ r.phase = "observed" /\ r.obs = found
      /\ r.settled = row[o].settled /\ r.writes = row[o].writes
  BY <1>1, <1>5 DEF Row
<1>7. f \in Frame /\ f.at = "captured"
  BY <1>1 DEF Frame
<1> HIDE DEF r, f
<1>8. row' \in [Ops -> Row] /\ mem' \in [Ops -> Frame] /\ row'[o] = r /\ mem'[o] = f
  BY <1>4, <1>6, <1>7 DEF EInv, Typed
<1>9. ~row[o].settled
  BY <1>1 DEF OpOK
<1>10. OpOK(o)' /\ (MayStillWrite(o)' => MayStillWrite(o))
  BY <1>1, <1>4, <1>5, <1>6, <1>7, <1>8, <1>9 DEF OpOK, MayStillWrite, Tells, world
<1>11. PerOp' /\ SingleLiveWriter'
  BY <1>4, <1>10, Moved DEF EInv, Typed, world
<1>12. Typed'
  BY <1>4, <1>8 DEF EInv, Typed, world
<1> QED
  BY <1>11, <1>12 DEF EInv

LEMMA AssessStep ==
  ASSUME EInv, NEW o \in Ops, Assess(o)
  PROVE  EInv'
<1> DEFINE valid == Transferable(o)
           kept == [p \in Paths |-> IF Transferable(o) /\ p \in Targets(o) THEN Assessed(p) ELSE {}]
           f == [mem[o] EXCEPT !.at = "assessed", !.valid = valid, !.kept = kept]
<1>1. /\ mem[o] \in Frame /\ mem' = [mem EXCEPT ![o] = f]
      /\ UNCHANGED <<table, world, exec, run, cancel, pins, expired, crashes>>
  BY DEF Assess, EInv, Typed
<1>2. valid \in BOOLEAN
  BY DEF Transferable, Current
<1>3. kept \in [Paths -> SUBSET Obligations]
  BY DEF Assessed, Obligations
<1> HIDE DEF valid, kept
<1>4. f \in Frame /\ f.at = "assessed"
  BY <1>1, <1>2, <1>3 DEF Frame
<1> HIDE DEF f
<1>5. mem' \in [Ops -> Frame] /\ PerOp' /\ SingleLiveWriter'
  BY <1>1, <1>4, FrameMove DEF table, world
<1>6. Typed'
  BY <1>1, <1>5 DEF EInv, Typed, table, world
<1> QED
  BY <1>5, <1>6 DEF EInv

LEMMA FinalizeStep ==
  ASSUME EInv, NEW o \in Ops, Finalize(o)
  PROVE  EInv'
<1> DEFINE W == row[o].obs.writes
           cert == row[o].obs.cert
           touched == DependentsOf(W)
           now == IF W = {} THEN clock ELSE clock + 1
           marks == [p \in Paths |-> IF p \in touched THEN now ELSE inval[p]]
           restored == {p \in Targets(o) : mem[o].valid /\ marks[p] <= cert.gen}
           shown(p) == IF cert.pins.duties = pins.duties
                       THEN CheckOf(o).proves \cap About[p] ELSE {}
           Proof(p) == [op |-> o, version |-> cert.after[p], duties |-> pins.duties,
                        gen |-> cert.gen, asof |-> cert.asof]
           known == [p \in Paths |-> [b \in Obligations |->
                       IF p \in restored /\ b \in shown(p) /\ proofs[p][b].gen <= cert.gen
                       THEN Proof(p) ELSE proofs[p][b]]]
           r == [row[o] EXCEPT !.phase = "finalized"]
<1>1. /\ row[o] \in Row /\ row[o].phase = "observed" /\ OpOK(o) /\ row[o].obs \in Observation
      /\ cert \in Cert /\ pins \in Pins /\ clock \in Nat
  BY Zenon DEF Finalize, EInv, Typed, PerOp, Row, Observation
<1>2. /\ row' = [row EXCEPT ![o] = r] /\ mem' = [mem EXCEPT ![o] = NoMem] /\ exec' = Popped
      /\ tree' = IF Kind(o) = "branch" /\ row[o].obs.status = "succeeded"
                   THEN [tree EXCEPT ![o].row = TRUE] ELSE tree
      /\ clock' = now /\ inval' = marks /\ proofs' = known
      /\ stale' \subseteq stale \cup touched
      /\ UNCHANGED <<world, run, cancel, pins, expired, crashes>>
  BY Zenon DEF Finalize, EInv, Typed
<1>3. /\ r \in Row /\ r.phase = "finalized" /\ r.obs = row[o].obs
      /\ r.settled = row[o].settled /\ r.writes = row[o].writes
  BY <1>1 DEF Row
<1>4. clock' \in Nat /\ inval' \in [Paths -> Nat] /\ stale' \subseteq Paths
  <2>1. now \in Nat
    BY <1>1
  <2>2. marks \in [Paths -> Nat]
    BY <2>1 DEF EInv, Typed
  <2>3. touched \subseteq Paths
    BY DEF DependentsOf
  <2> HIDE DEF now, marks, touched
  <2> QED
    BY <1>2, <2>1, <2>2, <2>3 DEF EInv, Typed
<1>5. proofs' \in [Paths -> [Obligations -> Fact]]
  <2>1. \A p \in Paths : Proof(p) \in Fact
    BY <1>1 DEF Cert, Pins, Fact
  <2> HIDE DEF Proof, restored, shown
  <2>2. known \in [Paths -> [Obligations -> Fact]]
    BY <2>1 DEF EInv, Typed
  <2> QED
    BY <1>2, <2>2
<1>6. tree' \in [Ops -> Branch]
  <2>1. tree[o] \in Branch
    BY DEF EInv, Typed
  <2>2. [tree[o] EXCEPT !.row = TRUE] \in Branch
    BY <2>1 DEF Branch
  <2>3. [tree EXCEPT ![o].row = TRUE] = [tree EXCEPT ![o] = [tree[o] EXCEPT !.row = TRUE]]
    BY DEF EInv, Typed
  <2> QED
    BY <1>2, <2>2, <2>3 DEF EInv, Typed
<1>7. exec' \in [op : Ops \cup {NoOp}, check : Ops \cup {NoOp}]
  BY <1>2 DEF EInv, Typed, Popped, Free
<1> HIDE DEF r, known, marks, now, touched
<1>8. /\ row' \in [Ops -> Row] /\ mem' \in [Ops -> Frame] /\ row'[o] = r /\ mem'[o] = NoMem
  BY <1>2, <1>3, Empty DEF EInv, Typed
<1>9. OpOK(o)' /\ (MayStillWrite(o)' => MayStillWrite(o))
  BY <1>1, <1>2, <1>3, <1>8 DEF OpOK, MayStillWrite, NoMem, world
<1>10. PerOp' /\ SingleLiveWriter'
  BY <1>2, <1>9, Moved DEF EInv, Typed, world
<1>11. Typed'
  BY <1>2, <1>4, <1>5, <1>6, <1>7, <1>8 DEF EInv, Typed, world
<1> QED
  BY <1>10, <1>11 DEF EInv

LEMMA BookkeepingStep ==
  ASSUME EInv, NEW o \in Ops, BookkeepingFails(o)
  PROVE  EInv'
<1>1. NoMem \in Frame /\ NoMem.at = "idle"
  BY Empty DEF NoMem
<1>2. mem' \in [Ops -> Frame] /\ PerOp' /\ SingleLiveWriter'
  BY <1>1, FrameMove DEF BookkeepingFails, table, world
<1>3. exec' \in [op : Ops \cup {NoOp}, check : Ops \cup {NoOp}]
  BY DEF BookkeepingFails, EInv, Typed, Popped, Free
<1>4. run' \in [Runs -> {"stopped", "resuming", "active", "stuck"}]
  BY DEF BookkeepingFails, EInv, Typed
<1>5. Typed'
  BY <1>2, <1>3, <1>4 DEF BookkeepingFails, EInv, Typed, table, world
<1> QED
  BY <1>2, <1>5 DEF EInv

-----------------------------------------------------------------------------
(* Runs, the owner and the environment.                                    *)

LEMMA Apart ==
  ASSUME EInv, UNCHANGED <<row, mem, calls, orphans>>
  PROVE  PerOp' /\ SingleLiveWriter'
<1>1. \A x \in Ops : OpOK(x)' /\ (MayStillWrite(x)' => MayStillWrite(x))
  BY Untouched DEF EInv, PerOp
<1> QED
  BY <1>1, SingleStays DEF EInv, PerOp

LEMMA RunStepKeeps ==
  ASSUME EInv, NEW r \in Runs, Resume(r) \/ Continue(r) \/ EndSession(r) \/ Cancel(r)
  PROVE  EInv'
<1>1. run' \in [Runs -> {"stopped", "resuming", "active", "stuck"}]
  BY DEF Resume, Continue, EndSession, Cancel, EInv, Typed
<1>2. cancel' \in [Runs -> BOOLEAN]
  BY DEF Resume, Continue, EndSession, Cancel, EInv, Typed
<1>3. UNCHANGED <<table, world, exec, mem, pins, expired, crashes>>
  BY DEF Resume, Continue, EndSession, Cancel
<1>4. Typed'
  BY <1>1, <1>2, <1>3 DEF EInv, Typed, table, world
<1> QED
  BY <1>3, <1>4, Apart DEF EInv, table, world

LEMMA SettleEffectStep ==
  ASSUME EInv, NEW o \in Ops, SettleEffect(o)
  PROVE  EInv'
<1> DEFINE W == row[o].obs.writes
           now == IF W = {} THEN clock ELSE clock + 1
           r == [row[o] EXCEPT !.settled = TRUE]
<1>1. /\ row[o] \in Row /\ OpOK(o) /\ row[o].phase = "finalized"
      /\ row[o].obs.status = "unknown" /\ o \notin orphans /\ W \subseteq Paths
      /\ clock \in Nat
  BY DEF SettleEffect, EInv, Typed, PerOp, Row, Observation
<1>2. /\ row' = [row EXCEPT ![o] = r]
      /\ clock' = now
      /\ inval' = [p \in Paths |-> IF p \in SettledWrites(o) THEN now ELSE inval[p]]
      /\ stale' = stale \cup SettledWrites(o)
      /\ UNCHANGED <<tree, proofs, world, process, pins, expired, crashes>>
  BY DEF SettleEffect, EInv, Typed
<1>3. /\ r \in Row /\ r.phase = "finalized" /\ r.obs = row[o].obs /\ r.writes = row[o].writes
  BY <1>1 DEF Row
<1>4. clock' \in Nat /\ inval' \in [Paths -> Nat] /\ stale' \subseteq Paths
  BY <1>1, <1>2 DEF EInv, Typed, SettledWrites, DependentsOf
<1> HIDE DEF r, now
<1>5. row' \in [Ops -> Row] /\ row'[o] = r
  BY <1>2, <1>3 DEF EInv, Typed
<1>6. OpOK(o)' /\ (MayStillWrite(o)' => MayStillWrite(o))
  BY <1>1, <1>2, <1>3, <1>5 DEF OpOK, MayStillWrite, world, process
<1>7. PerOp' /\ SingleLiveWriter'
  BY <1>2, <1>6, Moved DEF EInv, Typed, world, process
<1>8. Typed'
  BY <1>2, <1>4, <1>5 DEF EInv, Typed, world, process
<1> QED
  BY <1>7, <1>8 DEF EInv

\* Only an operation at its adapter outlives the host.
LEMMA CrashStep ==
  ASSUME EInv, CrashAndRecover
  PROVE  EInv'
<1>1. PICK S \in SUBSET {o \in Ops : Acting(o, "execute")} :
         /\ orphans' = orphans \cup S
         /\ calls' = [o \in Ops |-> IF o \in S THEN calls[o] + 1 ELSE calls[o]]
  BY DEF CrashAndRecover
<1>2. /\ crashes < MaxCrashes /\ crashes' = crashes + 1
      /\ exec' = Free /\ mem' = [o \in Ops |-> NoMem]
      /\ run' = [r \in Runs |-> "stopped"] /\ cancel' = [r \in Runs |-> FALSE]
      /\ UNCHANGED <<table, live, strays, wrote, stamp, pins, expired>>
  BY DEF CrashAndRecover
<1>3. \A o \in S : /\ o \in Ops /\ row[o].phase = "dispatching" /\ calls[o] = 0
                   /\ ~row[o].settled
  BY DEF Acting, EInv, PerOp, OpOK
<1>4. /\ calls' \in [Ops -> 0..1] /\ orphans' \subseteq Ops
  BY <1>1, <1>3 DEF EInv, Typed
<1>5. mem' \in [Ops -> Frame] /\ \A o \in Ops : mem'[o].at = "idle"
  BY <1>2, Empty DEF NoMem
<1>6. \A x \in Ops : OpOK(x)'
  <2> SUFFICES ASSUME NEW x \in Ops PROVE OpOK(x)'
    OBVIOUS
  <2>1. OpOK(x) /\ row'[x] = row[x] /\ mem'[x].at = "idle"
    BY <1>2, <1>5 DEF EInv, PerOp, table
  <2>2. CASE x \in S
    BY <1>3, <2>1, <2>2 DEF OpOK
  <2>3. CASE x \notin S
    <3>1. calls'[x] = calls[x] /\ (x \in orphans' <=> x \in orphans)
      BY <1>1, <2>3
    <3> QED
      BY <2>1, <3>1 DEF OpOK
  <2> QED
    BY <2>2, <2>3
<1>7. SingleLiveWriter'
  <2>1. \A x \in Ops : MayStillWrite(x)' => MayStillWrite(x)
    BY <1>1, <1>2, <1>3 DEF MayStillWrite, table
  <2> QED
    BY <2>1, SingleStays DEF EInv
<1>8. crashes' \in 0..MaxCrashes
  BY <1>2, Constant DEF EInv, Typed
<1>9. exec' \in [op : Ops \cup {NoOp}, check : Ops \cup {NoOp}]
  BY <1>2 DEF Free
<1>10. Typed'
  BY <1>2, <1>4, <1>5, <1>8, <1>9 DEF EInv, Typed, table
<1> QED
  BY <1>6, <1>7, <1>10 DEF EInv, PerOp

LEMMA OrphanWritesStep ==
  ASSUME EInv, NEW o \in Ops, OrphanWrites(o)
  PROVE  EInv'
<1>1. PICK p \in Action[o].writes, v \in Versions :
         IF OnLive(o)
           THEN WriteLive({p}, [q \in Paths |-> v]) /\ UNCHANGED tree
           ELSE /\ tree' = [tree EXCEPT ![Action[o].branch].content[p] = v]
                /\ UNCHANGED <<live, wrote, stamp>>
  BY DEF OrphanWrites
<1>2. p \in Paths
  BY RequestFields
<1>3. /\ tree' \in [Ops -> Branch] /\ live' \in [Paths -> Versions]
      /\ wrote' \in [Paths -> Nat] /\ stamp' \in Nat
  <2>1. CASE OnLive(o)
    <3>1. {p} \in SUBSET Paths /\ \A q \in {p} : [x \in Paths |-> v][q] \in Versions
      BY <1>2
    <3> QED
      BY <1>1, <2>1, <3>1, WriteTyped DEF EInv, Typed
  <2>2. CASE ~OnLive(o)
    <3>1. Action[o].branch \in Ops
      BY <2>2, RequestFields DEF OnLive
    <3>2. tree' \in [Ops -> Branch]
      BY <1>1, <1>2, <2>2, <3>1, BranchPathWritten DEF EInv
    <3> QED
      BY <1>1, <2>2, <3>2 DEF EInv, Typed
  <2> QED
    BY <2>1, <2>2
<1>4. strays' \in 0..MaxStrays
  BY Constant DEF OrphanWrites, EInv, Typed
<1>5. UNCHANGED <<row, clock, inval, stale, proofs, calls, orphans, process, pins, expired,
                  crashes>>
  BY DEF OrphanWrites
<1>6. Typed'
  BY <1>3, <1>4, <1>5 DEF EInv, Typed, process
<1> QED
  BY <1>5, <1>6, Apart DEF EInv, process

LEMMA OrphanStopsStep ==
  ASSUME EInv, NEW o \in Ops, OrphanStops(o)
  PROVE  EInv'
<1>1. /\ orphans' = orphans \ {o}
      /\ UNCHANGED <<table, live, calls, strays, wrote, stamp, process, pins, expired, crashes>>
  BY DEF OrphanStops
<1>2. OpOK(o)' /\ (MayStillWrite(o)' => MayStillWrite(o))
  BY <1>1 DEF EInv, PerOp, OpOK, MayStillWrite, table, process
<1>3. PerOp' /\ SingleLiveWriter'
  BY <1>1, <1>2, Moved DEF EInv, table, process
<1>4. Typed'
  BY <1>1 DEF EInv, Typed, table, process
<1> QED
  BY <1>3, <1>4 DEF EInv

LEMMA EnvironmentStep ==
  ASSUME EInv, PinsChange \/ DeadlinePasses \/ UNCHANGED vars
  PROVE  EInv'
<1>1. pins' \in Pins
  <2>1. CASE PinsChange
    <3>1. pins.host \in 0..MaxPins /\ pins.duties \in 0..MaxPins /\ pins \in Pins
      BY DEF EInv, Typed, Pins
    <3>2. pins.host + pins.duties < MaxPins
      BY <2>1 DEF PinsChange
    <3>3. pins.host + 1 \in 0..MaxPins /\ pins.duties + 1 \in 0..MaxPins
      BY <3>1, <3>2, Constant
    <3> QED
      BY <2>1, <3>1, <3>3 DEF PinsChange, Pins
  <2>2. CASE pins' = pins
    BY <2>2 DEF EInv, Typed
  <2> QED
    BY <2>1, <2>2 DEF DeadlinePasses, vars
<1>2. UNCHANGED <<table, world, process, crashes>>
  BY DEF PinsChange, DeadlinePasses, vars
<1>3. expired' \in BOOLEAN
  BY DEF PinsChange, DeadlinePasses, vars, EInv, Typed
<1>4. Typed'
  BY <1>1, <1>2, <1>3 DEF EInv, Typed, table, world, process
<1> QED
  BY <1>2, <1>4, Apart DEF EInv, table, world, process

LEMMA NextEInv == EInv /\ [Next]_vars => EInv'
<1> SUFFICES ASSUME EInv, [Next]_vars PROVE EInv'
  OBVIOUS
<1>1. ASSUME NEW o \in Ops, ExecutorStep(o) PROVE EInv'
  BY <1>1, DenyStep, PinStep, RunCheckStep, AcceptCheckStep, StartDispatchStep, ActEditStep,
     ActBranchStep, ActToolStep, CaptureStep, ReconcileStep, AssessStep, FinalizeStep,
     BookkeepingStep
  DEF ExecutorStep
<1>2. ASSUME NEW o \in Ops, InspectEffect(o) \/ SettleEffect(o) PROVE EInv'
  BY <1>2, LookUpStep, SettleEffectStep DEF InspectEffect
<1>3. ASSUME NEW r \in Runs, RunStep(r) PROVE EInv'
  <2>1. ASSUME ReconcileRun(r) PROVE EInv'
    BY <2>1, LookUpStep DEF ReconcileRun, OwnedBy
  <2> QED
    BY <1>3, <2>1, RunStepKeeps, ExecuteStep DEF RunStep
<1>4. ASSUME NEW o \in Ops, OrphanWrites(o) \/ OrphanStops(o) PROVE EInv'
  BY <1>4, OrphanWritesStep, OrphanStopsStep
<1> QED
  BY <1>1, <1>2, <1>3, <1>4, CrashStep, EnvironmentStep DEF Next

-----------------------------------------------------------------------------
\* The inductive invariant of the effects: the executor's frames, the rows of the
\* table, the calls that were made and the processes that outlived their host agree,
\* whatever is repeated, lost, restarted or settled.
THEOREM EffectInvariance == Spec => []EInv
  BY InitEInv, NextEInv, PTL DEF Spec

\* Rows, frames, branches and validity tables keep their shape; in particular no
\* operation calls its adapter twice (execute, dispatch).
THEOREM TypeCorrect == Spec => []TypeOK
<1>1. EInv => TypeOK
  BY TypedIs DEF EInv
<1> QED
  BY <1>1, EffectInvariance, PTL

\* A receipt that establishes an execution stands for exactly one call of the adapter,
\* one that denies the dispatch for none (execute, reconcile).
THEOREM ReceiptsTrue == Spec => []ReceiptsTellTheCalls
<1>1. EInv => ReceiptsTellTheCalls
  BY DEF EInv, Typed, PerOp, OpOK, Tells, ReceiptsTellTheCalls
<1> QED
  BY <1>1, EffectInvariance, PTL

\* Two operations never both have the live workspace to write: the fence of
\* start_dispatch also counts what outlived a crash and was not settled.
THEOREM OneLiveWriter == Spec => []SingleLiveWriter
<1>1. EInv => SingleLiveWriter
  BY DEF EInv
<1> QED
  BY <1>1, EffectInvariance, PTL

-----------------------------------------------------------------------------
(* The refinement.                                                         *)

\* The outcome that a row tells.
Told(r) ==
    CASE r.phase = "none" -> "none"
      [] r.phase \in {"prepared", "dispatching"} -> "pending"
      [] r.settled -> "settled"
      [] r.obs.basis \in {"established", "not_dispatched"} -> r.obs.basis
      [] OTHER -> "unknown"

\* No row tells two outcomes.
Sane(r) ==
    /\ r \in Row
    /\ r.settled => r.phase = "finalized" /\ r.obs.basis \in {"unresolved", "postcondition"}
    /\ r.phase \in {"none", "prepared", "dispatching"} => r.obs.basis = "none"
    /\ r.phase \in {"observed", "finalized"} =>
          r.obs.basis \in {"established", "not_dispatched", "unresolved", "postcondition"}

LEMMA RowsAreSane ==
  ASSUME EInv, NEW o \in Ops
  PROVE  Sane(row[o])
  BY DEF EInv, PerOp, Typed, OpOK, Tells, Sane

LEMMA RowsStaySane ==
  ASSUME EInv', NEW o \in Ops
  PROVE  Sane(row'[o])
  BY DEF EInv, PerOp, Typed, OpOK, Tells, Sane

LEMMA ToldNone ==
  ASSUME NEW r, Sane(r), r.phase = "none"
  PROVE  Told(r) = "none"
<1>1. ~r.settled /\ r.obs.basis = "none"
  BY DEF Sane
<1> QED
  BY <1>1 DEF Told

LEMMA ToldPending ==
  ASSUME NEW r, Sane(r), r.phase \in {"prepared", "dispatching"}
  PROVE  Told(r) = "pending"
<1>1. ~r.settled /\ r.obs.basis = "none" /\ r.phase # "none"
  BY DEF Sane
<1> QED
  BY <1>1 DEF Told

LEMMA ToldSettled ==
  ASSUME NEW r, Sane(r), r.settled
  PROVE  Told(r) = "settled"
<1>1. r.phase = "finalized" /\ r.obs.basis \notin {"established", "not_dispatched"}
  BY DEF Sane
<1> QED
  BY <1>1 DEF Told

LEMMA ToldConclusion ==
  ASSUME NEW r, Sane(r), r.phase \in {"observed", "finalized"}, ~r.settled
  PROVE  /\ r.obs.basis = "established" => Told(r) = "established"
         /\ r.obs.basis = "not_dispatched" => Told(r) = "not_dispatched"
         /\ r.obs.basis \in {"unresolved", "postcondition"} => Told(r) = "unknown"
  BY DEF Sane, Told

LEMMA OutcomeBefore == \A o \in Ops : OutcomeOf(o) = Told(row[o])
  BY DEF OutcomeOf, Told

LEMMA OutcomeAfter == \A o \in Ops : OutcomeOf(o)' = Told(row'[o])
  BY DEF OutcomeOf, Told

\* The outcome of one operation moves to v, or none does.
LEMMA LedgerMove ==
  ASSUME NEW o \in Ops, NEW v, OutcomeOf(o)' = v,
         \A x \in Ops : x # o => row'[x] = row[x]
  PROVE  [x \in Ops |-> OutcomeOf(x)]' = [[x \in Ops |-> OutcomeOf(x)] EXCEPT ![o] = v]
<1>1. \A x \in Ops : x # o => OutcomeOf(x)' = OutcomeOf(x)
  BY DEF OutcomeOf
<1> QED
  BY <1>1

LEMMA LedgerStutter ==
  ASSUME \A x \in Ops : OutcomeOf(x)' = OutcomeOf(x)
  PROVE  [x \in Ops |-> OutcomeOf(x)]' = [x \in Ops |-> OutcomeOf(x)]
  OBVIOUS

LEMMA LedgerSame ==
  ASSUME UNCHANGED <<row, calls>>
  PROVE  UNCHANGED Ledger!vars
<1>1. \A x \in Ops : OutcomeOf(x)' = OutcomeOf(x)
  BY DEF OutcomeOf
<1> QED
  BY <1>1, LedgerStutter DEF Ledger!vars

LEMMA IssueStep ==
  ASSUME EInv, EInv', NEW o \in Ops, NEW r, row[o].phase = "none",
         row' = [row EXCEPT ![o] = Intent(o, r)], UNCHANGED calls
  PROVE  Ledger!Issue(o)
<1>1. row'[o].phase = "prepared"
  BY DEF EInv, Typed, Intent, NoRow
<1>2. OutcomeOf(o) = "none"
  BY OutcomeBefore, RowsAreSane, ToldNone
<1>3. OutcomeOf(o)' = "pending"
  BY <1>1, OutcomeAfter, RowsStaySane, ToldPending
<1>4. [x \in Ops |-> OutcomeOf(x)]' = [[x \in Ops |-> OutcomeOf(x)] EXCEPT ![o] = "pending"]
  BY <1>3, LedgerMove DEF EInv, Typed
<1> QED
  BY <1>2, <1>4 DEF Ledger!Issue

LEMMA PerformStep ==
  ASSUME EInv, NEW o \in Ops, NEW obs, mem[o].at = "acting", Returned(o, obs), UNCHANGED row
  PROVE  Ledger!Perform(o)
<1>1. row[o].phase = "dispatching" /\ calls[o] = 0
  BY DEF EInv, PerOp, OpOK
<1>2. OutcomeOf(o) = "pending"
  BY <1>1, OutcomeBefore, RowsAreSane, ToldPending
<1>3. calls' = [calls EXCEPT ![o] = 1]
  BY <1>1 DEF Returned, EInv, Typed
<1>4. [x \in Ops |-> OutcomeOf(x)]' = [x \in Ops |-> OutcomeOf(x)]
  BY LedgerStutter DEF OutcomeOf
<1> QED
  BY <1>1, <1>2, <1>3, <1>4 DEF Ledger!Perform

LEMMA ConcludeStep ==
  ASSUME EInv, EInv', NEW o \in Ops, row[o].phase \in {"prepared", "dispatching"},
         row'[o].phase = "observed", UNCHANGED calls,
         \A x \in Ops : x # o => row'[x] = row[x]
  PROVE  \E result \in {"established", "not_dispatched", "unknown"} : Ledger!Conclude(o, result)
<1>1. OutcomeOf(o) = "pending"
  BY OutcomeBefore, RowsAreSane, ToldPending
<1>2. OpOK(o)' /\ calls'[o] = calls[o]
  BY DEF EInv, PerOp
<1>3. ~row'[o].settled /\ Tells(row'[o].obs, calls[o])
  BY <1>2 DEF OpOK
<1>4. PICK result \in {"established", "not_dispatched", "unknown"} :
         /\ OutcomeOf(o)' = result
         /\ result = "established" => calls[o] = 1
         /\ result = "not_dispatched" => calls[o] = 0
  <2>1. OutcomeOf(o)' = Told(row'[o]) /\ Sane(row'[o])
    BY OutcomeAfter, RowsStaySane
  <2>2. /\ row'[o].obs.basis = "established" => OutcomeOf(o)' = "established"
        /\ row'[o].obs.basis = "not_dispatched" => OutcomeOf(o)' = "not_dispatched"
        /\ row'[o].obs.basis \in {"unresolved", "postcondition"} => OutcomeOf(o)' = "unknown"
    BY <1>3, <2>1, ToldConclusion
  <2> QED
    BY <1>3, <2>2 DEF Tells
<1>5. [x \in Ops |-> OutcomeOf(x)]' = [[x \in Ops |-> OutcomeOf(x)] EXCEPT ![o] = result]
  BY <1>4, LedgerMove
<1>6. Ledger!Conclude(o, result)
  BY <1>1, <1>4, <1>5 DEF Ledger!Conclude
<1> QED
  BY <1>6

LEMMA SettleStep ==
  ASSUME EInv, EInv', NEW o \in Ops, SettleEffect(o)
  PROVE  Ledger!Settle(o)
<1>1. /\ row[o] \in Row /\ row[o].phase = "finalized" /\ row[o].obs.status = "unknown"
      /\ ~row[o].settled /\ row' = [row EXCEPT ![o] = [row[o] EXCEPT !.settled = TRUE]]
      /\ UNCHANGED calls /\ OpOK(o)
  BY DEF SettleEffect, EInv, Typed, PerOp, world
<1>2. row'[o].phase = "finalized" /\ row'[o].settled
  BY <1>1 DEF EInv, Typed, Row
<1>3. OutcomeOf(o) = "unknown" /\ OutcomeOf(o)' = "settled"
  <2>1. row[o].obs.basis \in {"unresolved", "postcondition"}
    BY <1>1 DEF OpOK, Tells
  <2>2. OutcomeOf(o) = "unknown"
    BY <1>1, <2>1, OutcomeBefore, RowsAreSane, ToldConclusion
  <2>3. OutcomeOf(o)' = "settled"
    BY <1>2, OutcomeAfter, RowsStaySane, ToldSettled
  <2> QED
    BY <2>2, <2>3
<1>4. [x \in Ops |-> OutcomeOf(x)]' = [[x \in Ops |-> OutcomeOf(x)] EXCEPT ![o] = "settled"]
  BY <1>1, <1>3, LedgerMove DEF EInv, Typed
<1> QED
  BY <1>1, <1>3, <1>4 DEF Ledger!Settle

\* At most one operation is at its adapter when the host dies.
LEMMA CrashPerforms ==
  ASSUME EInv, CrashAndRecover
  PROVE  [Ledger!Next]_Ledger!vars
<1>1. PICK S \in SUBSET {o \in Ops : Acting(o, "execute")} :
         calls' = [o \in Ops |-> IF o \in S THEN calls[o] + 1 ELSE calls[o]]
  BY DEF CrashAndRecover
<1>2. row' = row
  BY DEF CrashAndRecover, table
<1>3. CASE S = {}
  BY <1>1, <1>2, <1>3, LedgerSame DEF EInv, Typed
<1>4. CASE S # {}
  <2>1. PICK o \in S : TRUE
    BY <1>4
  <2>2. o \in Ops /\ \A x \in S : x = o
    BY <2>1 DEF Acting, Executing
  <2>3. row[o].phase = "dispatching" /\ calls[o] = 0
    BY <2>1 DEF Acting, EInv, PerOp, OpOK
  <2>4. calls' = [calls EXCEPT ![o] = 1]
    <3>1. \A x \in Ops : x \in S <=> x = o
      BY <2>1, <2>2
    <3>2. calls' = [x \in Ops |-> IF x = o THEN 1 ELSE calls[x]]
      BY <1>1, <2>3, <3>1
    <3> QED
      BY <3>2 DEF EInv, Typed
  <2>5. OutcomeOf(o) = "pending"
    BY <2>2, <2>3, OutcomeBefore, RowsAreSane, ToldPending
  <2>6. [x \in Ops |-> OutcomeOf(x)]' = [x \in Ops |-> OutcomeOf(x)]
    BY <1>2, LedgerStutter DEF OutcomeOf
  <2>7. Ledger!Perform(o)
    BY <2>3, <2>4, <2>5, <2>6 DEF Ledger!Perform
  <2> QED
    BY <2>2, <2>7 DEF Ledger!Next
<1> QED
  BY <1>3, <1>4

LEMMA LedgerInit == Init => Ledger!Init
<1> SUFFICES ASSUME Init PROVE Ledger!Init
  OBVIOUS
<1>1. \A o \in Ops : OutcomeOf(o) = "none"
  BY DEF Init, NoRow, NoObs, Obs, OutcomeOf
<1> QED
  BY <1>1 DEF Init, Ledger!Init

\* A row that is dispatched or finalized keeps its outcome.
LEMMA PhaseMove ==
  ASSUME EInv, EInv', NEW o \in Ops, UNCHANGED calls, OutcomeOf(o)' = OutcomeOf(o),
         \A x \in Ops : x # o => row'[x] = row[x]
  PROVE  UNCHANGED Ledger!vars
<1>1. \A x \in Ops : OutcomeOf(x)' = OutcomeOf(x)
  BY DEF OutcomeOf
<1> QED
  BY <1>1, LedgerStutter DEF Ledger!vars

LEMMA ExecutorLedger ==
  ASSUME EInv, EInv', NEW o \in Ops, ExecutorStep(o)
  PROVE  [Ledger!Next]_Ledger!vars
<1>1. CASE Deny(o) \/ Pin(o) \/ AcceptCheck(o) \/ Assess(o) \/ BookkeepingFails(o)
  <2>1. UNCHANGED <<row, calls>>
    BY <1>1, Zenon DEF Deny, Pin, AcceptCheck, Assess, BookkeepingFails, table, world
  <2> QED
    BY <2>1, LedgerSame, ZenonT(60)
<1>2. CASE RunCheck(o)
  <2> DEFINE c == Action[o].check
  <2>1. c \in Ops
    BY <1>2, Constant DEF RunCheck, EInv, PerOp, OpOK
  <2>2. CASE row[c].phase = "none"
    BY <1>2, <2>1, <2>2, IssueStep DEF RunCheck, world, Ledger!Next
  <2>3. CASE row[c].phase # "none"
    BY <1>2, <2>3, LedgerSame DEF RunCheck, world
  <2> QED
    BY <2>2, <2>3
<1>3. CASE StartDispatch(o)
  <2>1. /\ row[o].phase = "prepared" /\ row'[o].phase = "dispatching" /\ UNCHANGED calls
        /\ \A x \in Ops : x # o => row'[x] = row[x]
    BY <1>3 DEF StartDispatch, EInv, Typed, Row, world
  <2>2. OutcomeOf(o) = "pending" /\ OutcomeOf(o)' = "pending"
    BY <2>1, OutcomeBefore, OutcomeAfter, RowsAreSane, RowsStaySane, ToldPending
  <2> QED
    BY <2>1, <2>2, PhaseMove
<1>4. CASE ActEdit(o) \/ ActBranch(o) \/ ActTool(o)
  <2>1. mem[o].at = "acting" /\ UNCHANGED row /\ \E obs : Returned(o, obs)
    BY <1>4, Zenon DEF ActEdit, ActBranch, ActTool, Acting
  <2> QED
    BY <2>1, PerformStep DEF Ledger!Next
<1>5. CASE Capture(o) \/ Reconcile(o)
  <2>1. /\ row[o].phase \in {"prepared", "dispatching"} /\ row'[o].phase = "observed"
        /\ UNCHANGED calls
        /\ \A x \in Ops : x # o => row'[x] = row[x]
    BY <1>5 DEF Capture, Reconcile, EInv, Typed, Row, world
  <2> QED
    BY <2>1, ConcludeStep DEF Ledger!Next
<1>6. CASE Finalize(o)
  <2>1. /\ row[o].phase = "observed" /\ row[o] \in Row
        /\ row' = [row EXCEPT ![o] = [row[o] EXCEPT !.phase = "finalized"]] /\ UNCHANGED calls
    BY <1>6, Zenon DEF Finalize, EInv, Typed, world
  <2>2. /\ row'[o].phase = "finalized" /\ row'[o].obs = row[o].obs
        /\ row'[o].settled = row[o].settled
        /\ \A x \in Ops : x # o => row'[x] = row[x]
    BY <2>1 DEF EInv, Typed, Row
  <2>3. OutcomeOf(o)' = OutcomeOf(o)
    BY <2>1, <2>2 DEF OutcomeOf
  <2> QED
    BY <2>1, <2>2, <2>3, PhaseMove
<1> QED
  BY <1>1, <1>2, <1>3, <1>4, <1>5, <1>6 DEF ExecutorStep

LEMMA LedgerStep ==
  ASSUME EInv, EInv', [Next]_vars
  PROVE  [Ledger!Next]_Ledger!vars
<1>1. ASSUME NEW o \in Ops, ExecutorStep(o) PROVE [Ledger!Next]_Ledger!vars
  BY <1>1, ExecutorLedger
<1>2. ASSUME NEW o \in Ops, SettleEffect(o) PROVE [Ledger!Next]_Ledger!vars
  BY <1>2, SettleStep DEF Ledger!Next
<1>3. ASSUME NEW o \in Ops, LookUp(o) PROVE [Ledger!Next]_Ledger!vars
  BY <1>3, LedgerSame DEF LookUp, table, world
<1>4. ASSUME NEW r \in Runs, RunStep(r) PROVE [Ledger!Next]_Ledger!vars
  <2>1. CASE Resume(r) \/ Continue(r) \/ EndSession(r) \/ Cancel(r)
    BY <2>1, LedgerSame DEF Resume, Continue, EndSession, Cancel, table, world
  <2>2. CASE ReconcileRun(r)
    BY <1>3, <2>2 DEF ReconcileRun, OwnedBy
  <2>3. ASSUME NEW o \in Ops, Execute(r, o) PROVE [Ledger!Next]_Ledger!vars
    <3>1. CASE LookUp(o)
      BY <1>3, <3>1
    <3>2. CASE /\ ~Known(o)
               /\ row' = [row EXCEPT ![o] = Intent(o, r)]
               /\ UNCHANGED calls
      BY <3>2, IssueStep DEF Known, Ledger!Next
    <3> QED
      BY <2>3, <3>1, <3>2 DEF Execute, world
  <2> QED
    BY <1>4, <2>1, <2>2, <2>3 DEF RunStep
<1>5. CASE \/ \E o \in Ops : OrphanWrites(o) \/ OrphanStops(o)
           \/ PinsChange \/ DeadlinePasses \/ UNCHANGED vars
  <2>1. UNCHANGED <<row, calls>>
    BY <1>5 DEF OrphanWrites, OrphanStops, PinsChange, DeadlinePasses, vars, table, world
  <2> QED
    BY <2>1, LedgerSame
<1> QED
  BY <1>1, <1>2, <1>3, <1>4, <1>5, CrashPerforms DEF Next, InspectEffect

\* The lifecycle of effects implements the abstract ledger for any set of operations:
\* each is performed at most once, a conclusive outcome is true, no outcome is revised,
\* and an unknown one ends with the owner's decision only (docs/protocol.md, Effects).
THEOREM Refinement == Spec => ImplementsLedger
<1>1. Init => Ledger!Init
  BY LedgerInit
<1>2. EInv /\ EInv' /\ [Next]_vars => [Ledger!Next]_Ledger!vars
  BY LedgerStep
<1> QED
  BY <1>1, <1>2, EffectInvariance, PTL DEF Spec, ImplementsLedger, Ledger!Spec
-----------------------------------------------------------------------------
(* Validity: what finalization and settlement withdraw and restore.        *)

\* The receipt of o does not yet close what o may have written.
Unsettled(o) ==
    \/ row[o].phase \in {"dispatching", "observed"}
    \/ row[o].phase = "finalized" /\ row[o].obs.status = "unknown" /\ ~row[o].settled
Pending(q) == \E x \in Ops : q \in row[x].writes /\ Unsettled(x)

\* The dispatch marker names every live path its operation can write, and the
\* receipt names at least those.
WritesOK(o) ==
    /\ row[o].phase = "dispatching" => row[o].writes = LiveWrites(o)
    /\ mem[o].at = "returned" => row[o].writes \subseteq mem[o].obs.writes
    /\ row[o].phase \in {"observed", "finalized"} => row[o].writes \subseteq row[o].obs.writes
    /\ o \in orphans => Kind(o) = "execute" /\ row[o].writes = LiveWrites(o)
    /\ row[o].gen <= clock

\* A check of generation g, made after a writes, saw every closed write of the
\* sources of each path whose last invalidation is not after g.
Fresh(g, a) ==
    /\ g <= clock
    /\ \A p, q \in Paths :
          (p \in DependentsOf({q}) /\ wrote[q] > 0 /\ ~Pending(q) /\ g >= inval[p]) => a >= wrote[q]

Certs == {row[o].obs.cert : o \in Ops} \cup {mem[o].obs.cert : o \in Ops} \cup {NoCert}

FactsFresh == \A p \in Paths, b \in Obligations : Fresh(proofs[p][b].gen, proofs[p][b].asof)

\* An artifact without a mark was checked since every closed write of its sources.
Marked ==
    \A p \in Paths \ stale, q \in Paths :
        p \in DependentsOf({q}) /\ wrote[q] > 0 /\ ~Pending(q) =>
            About[p] # {} /\ \A b \in About[p] : proofs[p][b].asof >= wrote[q]

VInv ==
    /\ \A o \in Ops : WritesOK(o)
    /\ \A q \in Paths : wrote[q] <= stamp
    /\ \A c \in Certs : Fresh(c.gen, c.asof)
    /\ FactsFresh /\ Marked

\* What depends on one of the written paths depends on the writes, and nothing depends
\* on no write.
LEMMA Dependents ==
  /\ \A W \in SUBSET Paths : \A q \in W : DependentsOf({q}) \subseteq DependentsOf(W)
  /\ DependentsOf({}) = {}
<1>1. ASSUME NEW W \in SUBSET Paths, NEW q \in W, NEW p \in DependentsOf({q})
      PROVE  p \in DependentsOf(W)
  <2>1. ASSUME NEW S \in SUBSET Paths, \A e \in DependsOn : e[1] \in W \cup S => e[2] \in S
        PROVE  p \in S
    <3>1. \A e \in DependsOn : e[1] \in {q} \cup S => e[2] \in S
      BY <2>1
    <3> QED
      BY <1>1, <3>1 DEF DependentsOf
  <2>2. p \in Paths
    BY <1>1 DEF DependentsOf
  <2> QED
    BY <2>1, <2>2 DEF DependentsOf
<1>2. ASSUME NEW p \in DependentsOf({}) PROVE FALSE
  <2>1. \A e \in DependsOn : e[1] \in {} \cup {} => e[2] \in {}
    OBVIOUS
  <2>2. {} \in SUBSET Paths
    OBVIOUS
  <2> QED
    BY <1>2, <2>1, <2>2 DEF DependentsOf
<1> QED
  BY <1>1, <1>2

LEMMA NoWrites == NoCert.gen = 0 /\ NoCert.asof = 0 /\ NoCert \in Certs
  BY DEF NoCert, Certs

LEMMA VInvInit == Init => VInv
<1> SUFFICES ASSUME Init PROVE VInv
  OBVIOUS
<1>1. /\ \A o \in Ops : row[o] = NoRow /\ mem[o] = NoMem /\ o \notin orphans
      /\ \A q \in Paths : wrote[q] = 0
      /\ clock = 0 /\ stamp = 0
      /\ \A p \in Paths, b \in Obligations : proofs[p][b] = NoProof
  BY DEF Init
<1>2. /\ NoRow.phase = "none" /\ NoRow.gen = 0 /\ NoMem.at = "idle"
      /\ NoRow.obs.cert = NoCert /\ NoMem.obs.cert = NoCert
      /\ NoProof.gen = 0
  BY DEF NoRow, NoMem, NoObs, Obs, NoProof
<1>3. \A o \in Ops : WritesOK(o)
  BY <1>1, <1>2 DEF WritesOK
<1>4. \A a : Fresh(0, a)
  BY <1>1 DEF Fresh
<1>5. \A c \in Certs : c = NoCert
  BY <1>1, <1>2 DEF Certs
<1>6. \A c \in Certs : Fresh(c.gen, c.asof)
  BY <1>4, <1>5, NoWrites
<1>7. FactsFresh
  BY <1>1, <1>2, <1>4 DEF FactsFresh
<1>8. Marked
  BY <1>1 DEF Marked
<1> QED
  BY <1>1, <1>3, <1>6, <1>7, <1>8 DEF VInv

\* What is pending stays so, or every write since is pending: nothing a check saw is lost.
LEMMA Remembers ==
  ASSUME Typed,
         UNCHANGED <<clock, inval, stale, proofs>>,
         \A x \in Ops : Unsettled(x) => row'[x].writes = row[x].writes /\ Unsettled(x)',
         \A q \in Paths : wrote'[q] = wrote[q] \/ Pending(q)'
  PROVE  /\ \A g, a : Fresh(g, a) => Fresh(g, a)'
         /\ FactsFresh => FactsFresh'
         /\ Marked => Marked'
<1>1. \A q \in Paths : ~Pending(q)' => ~Pending(q) /\ wrote'[q] = wrote[q]
  BY DEF Pending
<1>2. ASSUME NEW g, NEW a, Fresh(g, a) PROVE Fresh(g, a)'
  BY <1>1, <1>2 DEF Fresh, DependentsOf
<1>3. ASSUME FactsFresh PROVE FactsFresh'
  BY <1>2, <1>3 DEF FactsFresh
<1>4. ASSUME Marked PROVE Marked'
  BY <1>1, <1>4 DEF Marked, DependentsOf
<1> QED
  BY <1>2, <1>3, <1>4

\* A step that neither withdraws nor restores validity.
LEMMA ValidityStays ==
  ASSUME Typed, VInv,
         UNCHANGED <<clock, inval, stale, proofs>>,
         \A x \in Ops : Unsettled(x) => row'[x].writes = row[x].writes /\ Unsettled(x)',
         \A q \in Paths : wrote'[q] = wrote[q] \/ Pending(q)',
         \A q \in Paths : wrote'[q] <= stamp',
         \A x \in Ops : WritesOK(x)',
         \A c \in Certs' : c \in Certs \/ Fresh(c.gen, c.asof)'
  PROVE  VInv'
<1>1. /\ \A g, a : Fresh(g, a) => Fresh(g, a)'
      /\ FactsFresh' /\ Marked'
  BY Remembers DEF VInv
<1>2. \A c \in Certs' : Fresh(c.gen, c.asof)'
  BY <1>1 DEF VInv
<1> QED
  BY <1>1, <1>2 DEF VInv

\* Frames move and rows, writes and marks stay.
LEMMA FramesKeepValidity ==
  ASSUME EInv, VInv,
         UNCHANGED <<row, wrote, stamp, clock, inval, stale, proofs>>, orphans' \subseteq orphans,
         \A x \in Ops : \/ mem'[x].obs = mem[x].obs /\ (mem'[x].at = "returned" => mem[x].at = "returned")
                        \/ row[x].writes = {} /\ mem'[x].obs.cert \in Certs
                        \/ mem'[x].at # "returned" /\ mem'[x].obs.cert \in Certs
  PROVE  VInv'
<1>1. \A x \in Ops : WritesOK(x)'
  BY Zenon DEF VInv, WritesOK, LiveWrites, OnLive, Kind
<1>2. \A c \in Certs' : c \in Certs
  BY DEF Certs
<1>3. \A x \in Ops : Unsettled(x) => row'[x].writes = row[x].writes /\ Unsettled(x)'
  BY DEF Unsettled
<1> QED
  BY <1>1, <1>2, <1>3, ValidityStays DEF EInv, VInv

LEMMA FrameSteps ==
  ASSUME EInv, VInv, NEW o \in Ops,
         Deny(o) \/ Pin(o) \/ AcceptCheck(o) \/ Assess(o) \/ BookkeepingFails(o) \/ LookUp(o)
  PROVE  VInv'
<1>0. /\ UNCHANGED <<row, wrote, stamp, clock, inval, stale, proofs, orphans>>
      /\ mem[o] \in Frame /\ OpOK(o)
      /\ \A x \in Ops : x # o => mem'[x] = mem[x]
  BY ZenonT(60)
  DEF Deny, Pin, AcceptCheck, Assess, BookkeepingFails, LookUp, table, world, EInv, Typed, PerOp
<1>1. CASE Deny(o)
  <2>1. row[o].writes = {}
    BY <1>0, <1>1 DEF Deny, OpOK
  <2>2. mem'[o] = [mem[o] EXCEPT !.at = "returned", !.obs = Obs("denied", "not_dispatched", {}, NoCert)]
    BY <1>1 DEF Deny, EInv, Typed
  <2>3. mem'[o].obs = Obs("denied", "not_dispatched", {}, NoCert)
    BY <1>0, <2>2 DEF Frame
  <2>4. mem'[o].obs.cert \in Certs
    BY <2>3, NoWrites DEF Obs
  <2> QED
    BY <1>0, <2>1, <2>4, FramesKeepValidity
<1>2. CASE Pin(o)
  <2>1. mem'[o] = [mem[o] EXCEPT !.at = "pinned", !.pins = pins]
    BY <1>2 DEF Pin, EInv, Typed
  <2>2. mem'[o].at = "pinned" /\ mem'[o].obs = mem[o].obs
    BY <1>0, <2>1 DEF Frame
  <2> QED
    BY <1>0, <2>2, FramesKeepValidity
<1>3. CASE AcceptCheck(o)
  <2>1. Kind(o) = "apply" /\ Action[o].check \in Ops
    BY <1>0, <1>3, Constant DEF AcceptCheck, OpOK
  <2>2. mem'[o] = [mem[o] EXCEPT !.at = "checked", !.obs.cert = CertificateOf(Action[o].check)]
    BY <1>3 DEF AcceptCheck, EInv, Typed
  <2>3. mem'[o].at = "checked" /\ mem'[o].obs.cert = row[Action[o].check].obs.cert
    BY <1>0, <2>2 DEF Frame, Observation, CertificateOf
  <2>4. mem'[o].obs.cert \in Certs
    BY <2>1, <2>3 DEF Certs
  <2> QED
    BY <1>0, <2>3, <2>4, FramesKeepValidity
<1>4. CASE Assess(o)
  <2> DEFINE kept == [p \in Paths |-> IF Transferable(o) /\ p \in Targets(o) THEN Assessed(p) ELSE {}]
  <2>1. mem'[o] = [mem[o] EXCEPT !.at = "assessed", !.valid = Transferable(o), !.kept = kept]
    BY <1>4 DEF Assess, EInv, Typed
  <2> HIDE DEF kept
  <2>2. mem'[o].at = "assessed" /\ mem'[o].obs = mem[o].obs
    BY <1>0, <2>1 DEF Frame
  <2> QED
    BY <1>0, <2>2, FramesKeepValidity
<1>5. CASE BookkeepingFails(o)
  <2>1. mem'[o] = NoMem
    BY <1>5 DEF BookkeepingFails, EInv, Typed
  <2>2. mem'[o].at = "idle" /\ mem'[o].obs.cert \in Certs
    BY <2>1, NoWrites DEF NoMem, NoObs, Obs
  <2> QED
    BY <1>0, <2>2, FramesKeepValidity
<1>6. CASE LookUp(o)
  <2>1. mem'[o] = [mem[o] EXCEPT !.at = "lookup"]
    BY <1>6 DEF LookUp, EInv, Typed
  <2>2. mem'[o].at = "lookup" /\ mem'[o].obs = mem[o].obs
    BY <1>0, <2>1 DEF Frame
  <2> QED
    BY <1>0, <2>2, FramesKeepValidity
<1> QED
  BY <1>1, <1>2, <1>3, <1>4, <1>5, <1>6, ZenonT(60)

\* An intent says nothing yet, and its id may be new only.
LEMMA IntentIsSilent ==
  ASSUME NEW o, NEW r
  PROVE  /\ Intent(o, r).phase = "prepared" /\ Intent(o, r).gen = 0
         /\ Intent(o, r).obs.cert = NoCert
<1>1. NoRow.gen = 0 /\ NoRow.obs.cert = NoCert
  BY DEF NoRow, NoObs, Obs
<1> QED
  BY <1>1 DEF Intent, NoRow

\* Rows gain an intent or a dispatch marker, frames move on.
LEMMA RowsBegin ==
  ASSUME EInv, VInv, NEW o \in Ops, NEW c \in Ops,
         UNCHANGED <<wrote, stamp, clock, inval, stale, proofs, orphans>>,
         \A x \in Ops : mem'[x].obs = mem[x].obs /\ (mem'[x].at = "returned" => mem[x].at = "returned"),
         \A x \in Ops : x # c => row'[x] = row[x],
         \/ row'[c] = row[c]
         \/ /\ row[c].phase \in {"none", "prepared"}
            /\ mem'[c].at # "returned"
            /\ row'[c].phase \in {"prepared", "dispatching"}
            /\ row'[c].phase = "dispatching" => row'[c].writes = LiveWrites(c)
            /\ row'[c].gen \in {0, clock} /\ row'[c].obs.cert \in {row[c].obs.cert, NoCert}
  PROVE  VInv'
<1>0. OpOK(c) /\ clock \in Nat
  BY DEF EInv, PerOp, Typed
<1>1. ASSUME NEW x \in Ops, row'[x] = row[x] PROVE WritesOK(x)'
  <2>1. WritesOK(x) /\ mem'[x].obs = mem[x].obs /\ (mem'[x].at = "returned" => mem[x].at = "returned")
    BY DEF VInv
  <2> QED
    BY <1>1, <2>1 DEF WritesOK, LiveWrites, OnLive, Kind
<1>2. row'[c] # row[c] => WritesOK(c)'
  BY <1>0 DEF OpOK, WritesOK, LiveWrites, OnLive, Kind
<1>3. \A x \in Certs' : x \in Certs
  BY DEF Certs
<1>4. \A x \in Ops : Unsettled(x) => row'[x].writes = row[x].writes /\ Unsettled(x)'
  BY DEF Unsettled
<1> QED
  BY <1>1, <1>2, <1>3, <1>4, ValidityStays DEF EInv, VInv

LEMMA BeginningSteps ==
  ASSUME EInv, VInv, NEW o \in Ops,
         StartDispatch(o) \/ RunCheck(o) \/ \E r \in Runs : Execute(r, o)
  PROVE  VInv'
<1>0. /\ mem[o] \in Frame /\ row[o] \in Row /\ OpOK(o)
      /\ mem \in [Ops -> Frame] /\ row \in [Ops -> Row]
  BY DEF EInv, Typed, PerOp
<1>1. CASE StartDispatch(o)
  <2> DEFINE r == [row[o] EXCEPT !.phase = "dispatching", !.writes = LiveWrites(o), !.gen = clock]
             f == [mem[o] EXCEPT !.at = "acting",
                                 !.pins = IF Kind(o) = "apply" THEN mem[o].pins ELSE pins]
  <2>1. /\ row' = [row EXCEPT ![o] = r] /\ mem' = [mem EXCEPT ![o] = f]
        /\ row[o].phase = "prepared"
        /\ UNCHANGED <<wrote, stamp, clock, inval, stale, proofs, orphans>>
    BY <1>0, <1>1 DEF StartDispatch, world
  <2>2. /\ r.phase = "dispatching" /\ r.writes = LiveWrites(o) /\ r.gen = clock /\ r.obs = row[o].obs
        /\ f.at = "acting" /\ f.obs = mem[o].obs
    BY <1>0 DEF Row, Frame
  <2> HIDE DEF r, f
  <2>3. /\ row'[o] = r /\ mem'[o] = f
        /\ \A x \in Ops : x # o => row'[x] = row[x] /\ mem'[x] = mem[x]
    BY <1>0, <2>1
  <2> QED
    BY <2>1, <2>2, <2>3, RowsBegin
<1>2. CASE RunCheck(o)
  <2> DEFINE c == Action[o].check
  <2>1. c \in Ops /\ c # o
    BY <1>0, <1>2, Constant DEF RunCheck, OpOK
  <2>2. UNCHANGED <<wrote, stamp, clock, inval, stale, proofs, orphans>>
    BY <1>2 DEF RunCheck, world
  <2> HIDE DEF c
  <2>3. mem'[o] = [mem[o] EXCEPT !.at = "checking"]
    BY <1>0, <1>2, <2>1 DEF RunCheck, c
  <2>4. mem'[o].at = "checking" /\ mem'[o].obs = mem[o].obs
    BY <1>0, <2>3 DEF Frame
  <2>5. \A x \in Ops : x # o /\ x # c => mem'[x] = mem[x]
    BY <1>0, <1>2, <2>1 DEF RunCheck, c
  <2>6. \A x \in Ops : x # c => row'[x] = row[x]
    BY <1>0, <1>2, <2>1 DEF RunCheck, c
  <2>7. \/ mem'[c] = mem[c] /\ row'[c] = row[c]
        \/ /\ mem'[c] = [mem[c] EXCEPT !.at = IF row[c].phase = "none" THEN "intent" ELSE "lookup"]
           /\ IF row[c].phase = "none" THEN row'[c] = Intent(c, row[o].run) ELSE row'[c] = row[c]
    BY <1>0, <1>2, <2>1 DEF RunCheck, c
  <2>8. mem[c] \in Frame
    BY <1>0, <2>1
  <2>9. \/ mem'[c] = mem[c] /\ row'[c] = row[c]
        \/ /\ mem'[c].obs = mem[c].obs /\ mem'[c].at # "returned"
           /\ \/ row'[c] = row[c]
              \/ row[c].phase = "none" /\ row'[c] = Intent(c, row[o].run)
    <3>1. \A s \in {"intent", "lookup"} : [mem[c] EXCEPT !.at = s].at = s
                                          /\ [mem[c] EXCEPT !.at = s].obs = mem[c].obs
      BY <2>8 DEF Frame
    <3> QED
      BY <2>7, <3>1
  <2> QED
    BY <2>1, <2>2, <2>4, <2>5, <2>6, <2>9, IntentIsSilent, RowsBegin
<1>3. ASSUME NEW r \in Runs, Execute(r, o) PROVE VInv'
  <2>1. CASE LookUp(o)
    BY <2>1, FrameSteps
  <2>2. CASE ~LookUp(o)
    <3>1. /\ row[o].phase = "none"
          /\ row' = [row EXCEPT ![o] = Intent(o, r)]
          /\ mem' = [mem EXCEPT ![o].at = "intent"]
          /\ UNCHANGED <<wrote, stamp, clock, inval, stale, proofs, orphans>>
      BY <1>3, <2>2 DEF Execute, Known, world
    <3>2. mem'[o] = [mem[o] EXCEPT !.at = "intent"] /\ row'[o] = Intent(o, r)
      BY <1>0, <3>1
    <3>3. mem'[o].at = "intent" /\ mem'[o].obs = mem[o].obs
      BY <1>0, <3>2 DEF Frame
    <3>4. \A x \in Ops : x # o => row'[x] = row[x] /\ mem'[x] = mem[x]
      BY <1>0, <3>1
    <3> QED
      BY <3>1, <3>2, <3>3, <3>4, IntentIsSilent, RowsBegin
  <2> QED
    BY <2>1, <2>2
<1> QED
  BY <1>1, <1>2, <1>3

-----------------------------------------------------------------------------
(* What a step writes to the live workspace was announced in its row.      *)

Touches(o) ==
    /\ \A q \in Paths : q \in row[o].writes \/ (live'[q] = live[q] /\ wrote'[q] = wrote[q])
    /\ \A q \in Paths : wrote'[q] <= stamp'

LEMMA WriteTouches ==
  ASSUME Typed, VInv, NEW o \in Ops, NEW W \in SUBSET Paths, W \subseteq row[o].writes, NEW content,
         WriteLive(W, content)
  PROVE  Touches(o)
<1>1. stamp \in Nat /\ \A q \in Paths : wrote[q] \in Nat /\ wrote[q] <= stamp
  BY DEF Typed, VInv
<1>2. \A q \in Paths : wrote'[q] = IF q \in W THEN stamp + 1 ELSE wrote[q]
  BY DEF WriteLive
<1>3. \A q \in Paths : q \notin W => live'[q] = live[q]
  BY DEF WriteLive
<1>4. stamp' = IF W = {} THEN stamp ELSE stamp + 1
  BY DEF WriteLive
<1>5. \A q \in Paths : wrote'[q] <= stamp'
  BY <1>1, <1>2, <1>4
<1> QED
  BY <1>2, <1>3, <1>5 DEF Touches

LEMMA StillTouches ==
  ASSUME VInv, NEW o \in Ops, UNCHANGED <<live, wrote, stamp>>
  PROVE  Touches(o)
  BY DEF VInv, Touches

LEMMA EditTouches ==
  ASSUME EInv, VInv, NEW o \in Ops, ActEdit(o)
  PROVE  Touches(o)
<1>1. mem[o].at = "acting" /\ Kind(o) \in {"edit", "apply"}
  BY DEF ActEdit, Acting
<1>2. row[o].writes = LiveWrites(o)
  BY <1>1 DEF EInv, PerOp, OpOK, VInv, WritesOK
<1>3. \/ UNCHANGED <<live, wrote, stamp>>
      \/ LiveWrites(o) # {} /\ WriteLive({Action[o].path}, NewValue(o))
  BY DEF ActEdit
<1>4. ASSUME LiveWrites(o) # {} PROVE {Action[o].path} \subseteq row[o].writes
  BY <1>1, <1>2, <1>4 DEF LiveWrites
<1>5. {Action[o].path} \in SUBSET Paths
  BY RequestFields
<1> QED
  BY <1>3, <1>4, <1>5, WriteTouches, StillTouches DEF EInv

LEMMA ToolTouches ==
  ASSUME EInv, VInv, NEW o \in Ops, ActTool(o)
  PROVE  Touches(o)
<1>1. mem[o].at = "acting" /\ Kind(o) \in {"check", "execute"}
  BY DEF ActTool, Acting
<1>2. row[o].writes = LiveWrites(o)
  BY <1>1 DEF EInv, PerOp, OpOK, VInv, WritesOK
<1>3. \/ UNCHANGED <<live, wrote, stamp>>
      \/ OnLive(o) /\ \E content : WriteLive(Action[o].writes, content)
  BY DEF ActTool
<1>4. ASSUME OnLive(o) PROVE Action[o].writes \subseteq row[o].writes
  BY <1>1, <1>2, <1>4 DEF LiveWrites
<1>5. Action[o].writes \in SUBSET Paths
  BY RequestFields
<1> QED
  BY <1>3, <1>4, <1>5, WriteTouches, StillTouches DEF EInv

LEMMA OrphanTouches ==
  ASSUME EInv, VInv, NEW o \in Ops, OrphanWrites(o)
  PROVE  Touches(o) /\ Unsettled(o) /\ Kind(o) = "execute"
<1>1. o \in orphans
  BY DEF OrphanWrites
<1>2. row[o].writes = LiveWrites(o) /\ Kind(o) = "execute"
  BY <1>1 DEF VInv, WritesOK
<1>3. Unsettled(o)
  BY <1>1 DEF EInv, Typed, Row, PerOp, OpOK, Unsettled
<1>4. PICK p \in Action[o].writes, v \in Versions :
         IF OnLive(o) THEN WriteLive({p}, [q \in Paths |-> v])
                      ELSE UNCHANGED <<live, wrote, stamp>>
  BY DEF OrphanWrites
<1>5. {p} \in SUBSET Paths
  BY RequestFields
<1>6. OnLive(o) => {p} \subseteq row[o].writes
  BY <1>2 DEF LiveWrites
<1> QED
  BY <1>2, <1>3, <1>4, <1>5, <1>6, WriteTouches, StillTouches DEF EInv

\* A write of an operation that has no receipt yet is pending.
LEMMA TouchKeepsValidity ==
  ASSUME EInv, VInv, NEW o \in Ops, Touches(o), Unsettled(o),
         UNCHANGED <<row, orphans, clock, inval, stale, proofs>>,
         \A x \in Ops : x # o => mem'[x] = mem[x],
         \/ mem'[o] = mem[o]
         \/ /\ mem'[o].obs.writes = row[o].writes
            /\ \E c : c = mem'[o].obs.cert /\ (c \in Certs \/ Fresh(c.gen, c.asof)')
  PROVE  VInv'
<1>1. Unsettled(o)'
  BY DEF Unsettled
<1>2. \A q \in Paths : wrote'[q] = wrote[q] \/ Pending(q)'
  BY <1>1 DEF Touches, Pending
<1>3. ASSUME NEW x \in Ops PROVE WritesOK(x)'
  <2>1. WritesOK(x)
    BY DEF VInv
  <2> QED
    BY <2>1 DEF WritesOK, LiveWrites, OnLive, Kind
<1>4. \A c \in Certs' : c \in Certs \/ Fresh(c.gen, c.asof)'
  <2>1. Certs \subseteq Certs /\ \A x \in Ops : row[x].obs.cert \in Certs /\ mem[x].obs.cert \in Certs
    BY DEF Certs
  <2>2. ASSUME NEW c \in Certs'
        PROVE  c \in Certs \/ c = mem'[o].obs.cert
    BY <2>1 DEF Certs
  <2>3. PICK c : c = mem'[o].obs.cert /\ (c \in Certs \/ Fresh(c.gen, c.asof)')
    <3>1. CASE mem'[o] = mem[o]
      BY <2>1, <3>1
    <3> QED
      BY <3>1
  <2> QED
    BY <2>2, <2>3
<1>5. \A x \in Ops : Unsettled(x) => row'[x].writes = row[x].writes /\ Unsettled(x)'
  BY DEF Unsettled
<1> QED
  BY <1>2, <1>3, <1>4, <1>5, ValidityStays DEF EInv, Touches

LEMMA ReturnedFrame ==
  ASSUME EInv, NEW o \in Ops, NEW obs, Returned(o, obs), mem[o].at = "acting"
  PROVE  /\ mem'[o].obs = obs /\ mem'[o].at = "returned"
         /\ \A x \in Ops : x # o => mem'[x] = mem[x]
         /\ Unsettled(o)
<1>1. mem[o] \in Frame /\ OpOK(o)
  BY DEF EInv, Typed, PerOp
<1>2. mem'[o] = [mem[o] EXCEPT !.at = "returned", !.obs = obs]
  BY DEF Returned, EInv, Typed
<1>3. mem'[o].obs = obs /\ mem'[o].at = "returned"
  BY <1>1, <1>2 DEF Frame
<1>4. \A x \in Ops : x # o => mem'[x] = mem[x]
  BY DEF Returned, EInv, Typed
<1>5. Unsettled(o)
  BY <1>1 DEF OpOK, Unsettled
<1> QED
  BY <1>3, <1>4, <1>5

LEMMA OutcomeFields ==
  ASSUME NEW o \in Ops, NEW cert
  PROVE  /\ Unresolved(o).writes = row[o].writes /\ Unresolved(o).cert = NoCert
         /\ Established(o, cert).writes = row[o].writes /\ Established(o, cert).cert = cert
         /\ [Established(o, cert) EXCEPT !.status = "failed"].writes = row[o].writes
         /\ [Established(o, cert) EXCEPT !.status = "failed"].cert = cert
  BY DEF Unresolved, Established, Obs

\* A certificate covers every write that was closed when its checker was called.
LEMMA CertificateFresh ==
  ASSUME EInv, VInv, NEW o \in Ops, Touches(o), Unsettled(o), UNCHANGED <<row, clock, inval>>,
         NEW pass, NEW after, NEW c, c = Certificate(o, pass, after)
  PROVE  Fresh(c.gen, c.asof)'
<1>1. c.gen = row[o].gen /\ c.asof = stamp
  BY DEF Certificate
<1>2. row[o].gen <= clock /\ \A q \in Paths : wrote[q] <= stamp
  BY DEF VInv, WritesOK
<1>3. \A q \in Paths : ~Pending(q)' => wrote'[q] = wrote[q]
  BY DEF Pending, Unsettled, Touches
<1> QED
  BY <1>1, <1>2, <1>3 DEF Fresh

LEMMA CallsKeepValidity ==
  ASSUME EInv, VInv, NEW o \in Ops, ActEdit(o) \/ ActBranch(o) \/ ActTool(o)
  PROVE  VInv'
<1>0. /\ mem[o].at = "acting"
      /\ UNCHANGED <<row, orphans, clock, inval, stale, proofs>>
  BY DEF ActEdit, ActBranch, ActTool, Acting
<1>1. Touches(o)
  BY EditTouches, ToolTouches, StillTouches DEF ActBranch
<1>2. mem[o].obs.cert \in Certs /\ NoCert \in Certs
  BY DEF Certs
<1>3. \E obs : /\ Returned(o, obs) /\ obs.writes = row[o].writes
               /\ \E c : c = obs.cert /\ (c \in Certs \/ Fresh(c.gen, c.asof)')
  <2>1. CASE ActEdit(o) \/ ActBranch(o)
    <3>1. \/ Returned(o, Unresolved(o)) \/ Returned(o, Established(o, NoCert))
          \/ Returned(o, Established(o, mem[o].obs.cert))
      BY <2>1 DEF ActEdit, ActBranch
    <3> QED
      BY <1>2, <3>1, OutcomeFields
  <2>2. CASE ActTool(o)
    <3>1. \/ Returned(o, Unresolved(o))
          \/ \E pass, after :
               LET cert == Certificate(o, pass, after) IN
               \/ Returned(o, Established(o, cert))
               \/ Returned(o, [Established(o, cert) EXCEPT !.status = "failed"])
      BY <2>2 DEF ActTool
    <3>2. CASE Returned(o, Unresolved(o))
      BY <1>2, <3>2, OutcomeFields
    <3>3. ASSUME NEW pass, NEW after,
                 LET cert == Certificate(o, pass, after) IN
                 \/ Returned(o, Established(o, cert))
                 \/ Returned(o, [Established(o, cert) EXCEPT !.status = "failed"])
          PROVE  \E obs : /\ Returned(o, obs) /\ obs.writes = row[o].writes
                          /\ \E c : c = obs.cert /\ (c \in Certs \/ Fresh(c.gen, c.asof)')
      <4>0. PICK cert : cert = Certificate(o, pass, after)
        OBVIOUS
      <4>1. Unsettled(o)
        BY <1>0, ReturnedFrame, <3>3
      <4>2. Fresh(cert.gen, cert.asof)'
        BY <1>0, <1>1, <4>0, <4>1, CertificateFresh
      <4>3. Returned(o, Established(o, cert)) \/ Returned(o, [Established(o, cert) EXCEPT !.status = "failed"])
        BY <3>3, <4>0
      <4>4. CASE Returned(o, Established(o, cert))
        <5>1. Established(o, cert).writes = row[o].writes /\ Established(o, cert).cert = cert
          BY OutcomeFields
        <5> QED
          BY <4>2, <4>4, <5>1
      <4>5. CASE Returned(o, [Established(o, cert) EXCEPT !.status = "failed"])
        <5> DEFINE failed == [Established(o, cert) EXCEPT !.status = "failed"]
        <5>1. failed.writes = row[o].writes /\ failed.cert = cert
          BY OutcomeFields
        <5> HIDE DEF failed
        <5>2. Returned(o, failed)
          BY <4>5 DEF failed
        <5> QED
          BY <4>2, <5>1, <5>2
      <4> QED
        BY <4>3, <4>4, <4>5
    <3> QED
      BY <3>1, <3>2, <3>3
  <2> QED
    BY <2>1, <2>2
<1>4. PICK obs : /\ Returned(o, obs) /\ obs.writes = row[o].writes
                 /\ \E c : c = obs.cert /\ (c \in Certs \/ Fresh(c.gen, c.asof)')
  BY <1>3
<1>5. /\ mem'[o].obs = obs /\ mem'[o].at = "returned" /\ Unsettled(o)
      /\ \A x \in Ops : x # o => mem'[x] = mem[x]
  BY <1>0, <1>4, ReturnedFrame
<1> QED
  BY <1>0, <1>1, <1>4, <1>5, TouchKeepsValidity, Zenon

LEMMA ObservedKeepsValidity ==
  ASSUME EInv, VInv, NEW o \in Ops, row[o].phase \in {"prepared", "dispatching"},
         row'[o].phase = "observed", row'[o].writes = row[o].writes, row'[o].gen = row[o].gen,
         row[o].writes \subseteq row'[o].obs.writes, row'[o].obs.cert \in Certs,
         mem'[o].at # "returned", mem'[o].obs = mem[o].obs,
         \A x \in Ops : x # o => row'[x] = row[x] /\ mem'[x] = mem[x],
         UNCHANGED <<wrote, stamp, clock, inval, stale, proofs, orphans>>
  PROVE  VInv'
<1>1. ASSUME NEW x \in Ops PROVE WritesOK(x)'
  <2>1. WritesOK(x)
    BY DEF VInv
  <2>2. CASE x = o
    BY <2>1, <2>2 DEF WritesOK, LiveWrites, OnLive, Kind
  <2>3. CASE x # o
    BY <2>1, <2>3 DEF WritesOK, LiveWrites, OnLive, Kind
  <2> QED
    BY <2>2, <2>3
<1>2. \A c \in Certs' : c \in Certs
  <2>1. \A x \in Ops : row'[x].obs.cert \in Certs /\ mem'[x].obs.cert \in Certs
    BY DEF Certs
  <2> QED
    BY <2>1 DEF Certs
<1>3. \A x \in Ops : Unsettled(x) => row'[x].writes = row[x].writes /\ Unsettled(x)'
  BY DEF Unsettled
<1> QED
  BY <1>1, <1>2, <1>3, ValidityStays DEF EInv, VInv

LEMMA ObservingSteps ==
  ASSUME EInv, VInv, NEW o \in Ops, Capture(o) \/ Reconcile(o)
  PROVE  VInv'
<1> DEFINE f == [mem[o] EXCEPT !.at = "captured"]
           r(obs) == [row[o] EXCEPT !.phase = "observed", !.obs = obs]
<1>0. /\ mem[o] \in Frame /\ row[o] \in Row /\ OpOK(o)
      /\ mem \in [Ops -> Frame] /\ row \in [Ops -> Row]
  BY DEF EInv, Typed, PerOp
<1>1. \E obs : /\ row' = [row EXCEPT ![o] = r(obs)]
               /\ row[o].writes \subseteq obs.writes /\ obs.cert \in Certs
  <2>1. CASE Capture(o)
    <3>1. row' = [row EXCEPT ![o] = r(mem[o].obs)] /\ mem[o].at = "returned"
      BY <1>0, <2>1 DEF Capture
    <3>2. row[o].writes \subseteq mem[o].obs.writes /\ mem[o].obs.cert \in Certs
      BY <3>1 DEF VInv, WritesOK, Certs
    <3> QED
      BY <3>1, <3>2
  <2>2. CASE Reconcile(o)
    <3> DEFINE outcome == ReconciledOutcome(o)
               found == Obs(outcome[1], outcome[2], RecoveredWrites(o), NoCert)
    <3>1. row' = [row EXCEPT ![o] = r(found)]
      BY <1>0, <2>2 DEF Reconcile
    <3>2. found.writes = RecoveredWrites(o) /\ found.cert = NoCert
      BY DEF Obs
    <3>3. row[o].writes \subseteq RecoveredWrites(o) /\ NoCert \in Certs
      BY NoWrites DEF RecoveredWrites
    <3> HIDE DEF found
    <3> QED
      BY <3>1, <3>2, <3>3
  <2> QED
    BY <2>1, <2>2, Zenon
<1>2. PICK obs : /\ row' = [row EXCEPT ![o] = r(obs)]
                 /\ row[o].writes \subseteq obs.writes /\ obs.cert \in Certs
  BY <1>1
<1>3. /\ r(obs).phase = "observed" /\ r(obs).writes = row[o].writes
      /\ r(obs).gen = row[o].gen /\ r(obs).obs = obs
      /\ f.at = "captured" /\ f.obs = mem[o].obs
  BY <1>0 DEF Row, Frame
<1>4. /\ mem' = [mem EXCEPT ![o] = f] /\ row[o].phase \in {"prepared", "dispatching"}
      /\ UNCHANGED <<wrote, stamp, clock, inval, stale, proofs, orphans>>
  BY <1>0 DEF Capture, Reconcile, world
<1> HIDE DEF r, f
<1>5. /\ row'[o] = r(obs) /\ mem'[o] = f
      /\ \A x \in Ops : x # o => row'[x] = row[x] /\ mem'[x] = mem[x]
  BY <1>0, <1>2, <1>4
<1> QED
  BY <1>2, <1>3, <1>4, <1>5, ObservedKeepsValidity

\* The host dies: a tool that outlives it had announced its writes.
LEMMA CrashKeepsValidity ==
  ASSUME EInv, VInv, CrashAndRecover
  PROVE  VInv'
<1>1. PICK S \in SUBSET {o \in Ops : Acting(o, "execute")} : orphans' = orphans \cup S
  BY DEF CrashAndRecover
<1>2. /\ UNCHANGED <<row, clock, inval, stale, proofs, wrote, stamp>>
      /\ \A x \in Ops : mem'[x] = NoMem
  BY DEF CrashAndRecover, table
<1>3. NoMem.at = "idle" /\ NoMem.obs.cert = NoCert
  BY DEF NoMem, NoObs, Obs
<1>4. \A x \in S : Kind(x) = "execute" /\ row[x].phase = "dispatching"
  BY DEF Acting, EInv, PerOp, OpOK
<1>5. ASSUME NEW x \in Ops PROVE WritesOK(x)'
  <2>1. WritesOK(x)
    BY DEF VInv
  <2> QED
    BY <1>1, <1>2, <1>3, <1>4, <2>1 DEF WritesOK, LiveWrites, OnLive, Kind
<1>6. \A c \in Certs' : c \in Certs
  BY <1>2, <1>3 DEF Certs
<1>7. \A x \in Ops : Unsettled(x) => row'[x].writes = row[x].writes /\ Unsettled(x)'
  BY <1>2 DEF Unsettled
<1> QED
  BY <1>2, <1>5, <1>6, <1>7, ValidityStays DEF EInv, VInv

LEMMA OrphansKeepValidity ==
  ASSUME EInv, VInv, NEW o \in Ops, OrphanWrites(o) \/ OrphanStops(o)
  PROVE  VInv'
<1>1. CASE OrphanWrites(o)
  BY <1>1, OrphanTouches, TouchKeepsValidity, Zenon DEF OrphanWrites, process
<1>2. CASE OrphanStops(o)
  BY <1>2, FramesKeepValidity DEF OrphanStops, table, process
<1> QED
  BY <1>1, <1>2

LEMMA OthersKeepValidity ==
  ASSUME EInv, VInv,
         \/ \E r \in Runs : Resume(r) \/ Continue(r) \/ EndSession(r) \/ Cancel(r)
         \/ PinsChange \/ DeadlinePasses \/ UNCHANGED vars
  PROVE  VInv'
<1>1. UNCHANGED <<row, mem, wrote, stamp, clock, inval, stale, proofs, orphans>>
  BY DEF Resume, Continue, EndSession, Cancel, PinsChange, DeadlinePasses, vars, table, world, process
<1> QED
  BY <1>1, FramesKeepValidity

-----------------------------------------------------------------------------
(* Finalization and settlement.                                            *)

\* The receipt of o closes: its paths are no longer pending, and everything that depends
\* on them is marked with a generation that no check has.
LEMMA Withdraws ==
  ASSUME EInv, VInv, NEW o \in Ops, row[o].phase \in {"observed", "finalized"},
         NEW W, W = row[o].obs.writes, NEW M \in SUBSET Paths,
         DependentsOf(W) \subseteq M, W = {} => M = {},
         clock' = IF W = {} THEN clock ELSE clock + 1,
         inval' = [p \in Paths |-> IF p \in M THEN clock' ELSE inval[p]],
         \A x \in Ops : x # o => row'[x] = row[x],
         wrote' = wrote
  PROVE  /\ \A g \in Nat : \A a : Fresh(g, a) => Fresh(g, a)'
         /\ \A p, q \in Paths : p \in DependentsOf({q}) /\ p \notin M /\ ~Pending(q)' => ~Pending(q)
<1>1. row[o].writes \subseteq W /\ W \in SUBSET Paths
  BY DEF VInv, WritesOK, EInv, Typed, Row, Observation
<1>2. ASSUME NEW p \in Paths, NEW q \in Paths, p \in DependentsOf({q}), p \notin M, ~Pending(q)'
      PROVE  ~Pending(q)
  <2>1. q \notin row[o].writes
    BY <1>1, <1>2, Dependents
  <2> QED
    BY <1>2, <2>1 DEF Pending, Unsettled
<1>3. ASSUME NEW g \in Nat, NEW a, Fresh(g, a) PROVE Fresh(g, a)'
  <2>1. clock \in Nat /\ clock <= clock' /\ (W # {} => clock' = clock + 1) /\ g <= clock
    BY <1>3 DEF EInv, Typed, Fresh
  <2>2. g <= clock'
    <3>1. CASE clock' = clock
      BY <2>1, <3>1
    <3>2. CASE clock' = clock + 1
      BY <2>1, <3>2
    <3> QED
      BY <3>1, <3>2
  <2>3. ASSUME NEW p \in Paths, NEW q \in Paths, p \in DependentsOf({q}), wrote[q] > 0,
               ~Pending(q)', g >= inval'[p]
        PROVE  a >= wrote[q]
    <3>1. p \notin M
      <4>1. ASSUME p \in M PROVE FALSE
        <5>1. inval'[p] = clock' /\ W # {}
          BY <4>1
        <5>2. g >= clock + 1
          BY <2>1, <2>3, <5>1
        <5> QED
          BY <2>1, <5>2
      <4> QED
        BY <4>1
    <3>2. inval'[p] = inval[p]
      BY <3>1
    <3> QED
      BY <1>2, <1>3, <2>3, <3>1, <3>2 DEF Fresh
  <2> QED
    BY <2>2, <2>3 DEF Fresh, DependentsOf
<1> QED
  BY <1>2, <1>3

LEMMA RecordedGenerations ==
  ASSUME Typed
  PROVE  /\ \A c \in Certs : c \in Cert /\ c.gen \in Nat
         /\ \A p \in Paths, b \in Obligations : proofs[p][b] \in Fact /\ proofs[p][b].gen \in Nat
<1>1. \A c \in Certs : c \in Cert
  BY FrameFields, Empty DEF Typed, Certs, Row, Observation
<1> QED
  BY <1>1 DEF Typed, Cert, Fact

\* The rows of a withdrawal keep what their receipts say.
LEMMA WithdrawalRows ==
  ASSUME EInv, VInv, NEW o \in Ops, row[o].phase \in {"observed", "finalized"},
         row'[o].phase = "finalized", row'[o].writes = row[o].writes, row'[o].gen = row[o].gen,
         row'[o].obs = row[o].obs,
         \A x \in Ops : x # o => row'[x] = row[x] /\ mem'[x] = mem[x],
         mem'[o] \in {mem[o], NoMem}, orphans' = orphans, clock' \in {clock, clock + 1}
  PROVE  (\A x \in Ops : WritesOK(x)') /\ Certs' \subseteq Certs
<1>1. NoMem.at = "idle" /\ NoMem.obs.cert = NoCert
  BY DEF NoMem, NoObs, Obs
<1>2. ASSUME NEW x \in Ops PROVE WritesOK(x)'
  <2>1. WritesOK(x) /\ row[x] \in Row /\ clock \in Nat
    BY DEF VInv, EInv, Typed
  <2>2. row'[x].gen <= clock'
    BY <2>1 DEF WritesOK, Row
  <2> QED
    BY <1>1, <2>1, <2>2 DEF WritesOK, LiveWrites, OnLive, Kind
<1>3. Certs' \subseteq Certs
  BY <1>1 DEF Certs
<1> QED
  BY <1>2, <1>3

LEMMA SettlingKeepsValidity ==
  ASSUME EInv, VInv, NEW o \in Ops, SettleEffect(o)
  PROVE  VInv'
<1> DEFINE W == row[o].obs.writes
           M == SettledWrites(o)
           r == [row[o] EXCEPT !.settled = TRUE]
<1>1. /\ row[o] \in Row /\ row[o].phase = "finalized" /\ W \subseteq Paths
  BY DEF SettleEffect, EInv, Typed, Row, Observation
<1>2. /\ row' = [row EXCEPT ![o] = r]
      /\ clock' = IF W = {} THEN clock ELSE clock + 1
      /\ inval' = [p \in Paths |-> IF p \in M THEN clock' ELSE inval[p]]
      /\ stale' = stale \cup M
      /\ UNCHANGED <<proofs, orphans, wrote, stamp, mem>>
  BY DEF SettleEffect, EInv, Typed, world, process
<1>3. /\ r.phase = "finalized" /\ r.writes = row[o].writes /\ r.gen = row[o].gen
      /\ r.obs = row[o].obs
  BY <1>1 DEF Row
<1> HIDE DEF r
<1>4. row'[o] = r /\ \A x \in Ops : x # o => row'[x] = row[x]
  BY <1>2 DEF EInv, Typed
<1>5. M \in SUBSET Paths /\ DependentsOf(W) \subseteq M /\ (W = {} => M = {})
  BY <1>1, Dependents DEF SettledWrites, DependentsOf
<1>6. (\A x \in Ops : WritesOK(x)') /\ Certs' \subseteq Certs
  BY <1>1, <1>2, <1>3, <1>4, WithdrawalRows
<1> HIDE DEF M
<1>8. /\ \A g \in Nat : \A a : Fresh(g, a) => Fresh(g, a)'
      /\ \A p, q \in Paths : p \in DependentsOf({q}) /\ p \notin M /\ ~Pending(q)' => ~Pending(q)
  BY <1>1, <1>2, <1>4, <1>5, Withdraws, Zenon
<1>9. \A c \in Certs' : Fresh(c.gen, c.asof)'
  BY <1>6, <1>8, RecordedGenerations DEF VInv, EInv
<1>10. FactsFresh'
  <2>1. ASSUME NEW p \in Paths, NEW b \in Obligations PROVE Fresh(proofs[p][b].gen, proofs[p][b].asof)'
    <3>1. PICK f : f = proofs[p][b] /\ f = proofs'[p][b]
      BY <1>2
    <3>2. f.gen \in Nat /\ Fresh(f.gen, f.asof)
      BY <3>1, RecordedGenerations DEF VInv, EInv, FactsFresh
    <3>3. Fresh(f.gen, f.asof)'
      BY <1>8, <3>2
    <3> QED
      BY <3>1, <3>3 DEF Fresh
  <2> QED
    BY <2>1 DEF FactsFresh
<1>11. Marked'
  BY <1>2, <1>8 DEF VInv, Marked, DependentsOf
<1>12. \A q \in Paths : wrote'[q] <= stamp'
  BY <1>2 DEF VInv
<1> QED
  BY <1>6, <1>9, <1>10, <1>11, <1>12 DEF VInv

\* Finalize restores a path only on a check that saw every closed write of its sources.
LEMMA FinalizeKeepsValidity ==
  ASSUME EInv, VInv, NEW o \in Ops, Finalize(o)
  PROVE  VInv'
<1> DEFINE W == row[o].obs.writes
           cert == row[o].obs.cert
           M == DependentsOf(W)
           now == IF W = {} THEN clock ELSE clock + 1
           marks == [p \in Paths |-> IF p \in M THEN now ELSE inval[p]]
           restored == {p \in Targets(o) : mem[o].valid /\ marks[p] <= cert.gen}
           shown(p) == IF cert.pins.duties = pins.duties
                       THEN CheckOf(o).proves \cap About[p] ELSE {}
           Proof(p) == [op |-> o, version |-> cert.after[p], duties |-> pins.duties,
                        gen |-> cert.gen, asof |-> cert.asof]
           known == [p \in Paths |-> [b \in Obligations |->
                       IF p \in restored /\ b \in shown(p) /\ proofs[p][b].gen <= cert.gen
                       THEN Proof(p) ELSE proofs[p][b]]]
           covered(p) == /\ About[p] # {}
                         /\ \A b \in About[p] :
                              /\ b \in shown(p) \cup mem[o].kept[p]
                              /\ known[p][b].op # NoOp /\ known[p][b].duties = pins.duties
                              /\ known[p][b].version = cert.after[p]
                              /\ known[p][b].gen >= marks[p]
           r == [row[o] EXCEPT !.phase = "finalized"]
<1>1. /\ row[o] \in Row /\ row[o].phase = "observed" /\ W \subseteq Paths /\ cert \in Certs
  BY Zenon DEF Finalize, EInv, Typed, Row, Observation, Certs
<1>2. /\ row' = [row EXCEPT ![o] = r] /\ mem' = [mem EXCEPT ![o] = NoMem]
      /\ clock' = now /\ inval' = marks /\ proofs' = known
      /\ stale' = (stale \cup M) \ {p \in restored : covered(p)}
      /\ UNCHANGED <<wrote, stamp, orphans>>
  BY Zenon DEF Finalize, EInv, Typed, world
<1> HIDE DEF M, now, marks, restored, shown, Proof, known, covered, r
<1>3. /\ r.phase = "finalized" /\ r.writes = row[o].writes /\ r.gen = row[o].gen
      /\ r.obs = row[o].obs
  BY <1>1 DEF Row, r
<1>4. /\ row'[o] = r /\ mem'[o] = NoMem
      /\ \A x \in Ops : x # o => row'[x] = row[x] /\ mem'[x] = mem[x]
  BY <1>2 DEF EInv, Typed
<1>5. M \in SUBSET Paths /\ DependentsOf(W) \subseteq M /\ (W = {} => M = {})
  BY <1>1, Dependents DEF DependentsOf, M
<1>6. /\ clock' = IF W = {} THEN clock ELSE clock + 1
      /\ inval' = [p \in Paths |-> IF p \in M THEN clock' ELSE inval[p]]
      /\ wrote' = wrote /\ row[o].phase \in {"observed", "finalized"}
      /\ \A x \in Ops : x # o => row'[x] = row[x]
  BY <1>1, <1>2, <1>4 DEF marks, now
<1>7. (\A x \in Ops : WritesOK(x)') /\ Certs' \subseteq Certs
  BY <1>1, <1>2, <1>3, <1>4, <1>6, WithdrawalRows
<1>8. \A p \in Paths, b \in Obligations :
         proofs'[p][b] = IF p \in restored /\ b \in shown(p) /\ proofs[p][b].gen <= cert.gen
                         THEN Proof(p) ELSE proofs[p][b]
  BY <1>2 DEF known
<1>9. \A p \in Paths : Proof(p).gen = cert.gen /\ Proof(p).asof = cert.asof
  BY DEF Proof
<1>10. \A p \in Paths : p \in restored => inval'[p] <= cert.gen
  BY <1>2 DEF restored
<1>11. \A p \in Paths : p \notin stale' /\ (p \in stale \/ p \in M) =>
          About[p] # {} /\ \A b \in About[p] : proofs'[p][b].gen >= inval'[p]
  BY <1>2 DEF covered
<1>13. /\ \A g \in Nat : \A a : Fresh(g, a) => Fresh(g, a)'
       /\ \A p, q \in Paths : p \in DependentsOf({q}) /\ p \notin M /\ ~Pending(q)' => ~Pending(q)
  BY <1>5, <1>6, Withdraws
<1>14. \A c \in Certs : c.gen \in Nat /\ Fresh(c.gen, c.asof)'
  BY <1>13, RecordedGenerations DEF VInv, EInv
<1>15. \A c \in Certs' : Fresh(c.gen, c.asof)'
  BY <1>7, <1>14
<1>16. PICK C : C = cert
  OBVIOUS
<1>17. ASSUME NEW p \in Paths, NEW b \in Obligations
       PROVE  Fresh(proofs[p][b].gen, proofs[p][b].asof)'
  <2>1. PICK f : f = proofs'[p][b]
    OBVIOUS
  <2>2. Fresh(f.gen, f.asof)'
    <3>1. CASE f = Proof(p)
      BY <1>1, <1>9, <1>14, <1>16, <3>1
    <3>2. CASE f = proofs[p][b]
      <4>1. f.gen \in Nat /\ Fresh(f.gen, f.asof)
        BY <3>2, RecordedGenerations DEF VInv, EInv, FactsFresh
      <4> QED
        BY <1>13, <4>1
    <3> QED
      BY <1>8, <2>1, <3>1, <3>2
  <2> QED
    BY <2>1, <2>2 DEF Fresh
<1>18. FactsFresh'
  BY <1>17 DEF FactsFresh
<1>19. ASSUME NEW p \in Paths, p \notin stale', NEW q \in Paths,
              p \in DependentsOf({q}), wrote[q] > 0, ~Pending(q)'
       PROVE  About[p] # {} /\ \A b \in About[p] : proofs'[p][b].asof >= wrote[q]
  <2>1. CASE p \in stale \/ p \in M
    <3>1. ASSUME NEW b \in About[p] PROVE proofs'[p][b].asof >= wrote[q]
      <4>1. b \in Obligations /\ proofs'[p][b].gen >= inval'[p]
        BY <1>11, <1>19, <2>1 DEF Obligations
      <4>2. Fresh(proofs[p][b].gen, proofs[p][b].asof)'
        BY <1>17, <4>1
      <4> QED
        BY <1>2, <1>19, <4>1, <4>2 DEF Fresh, DependentsOf
    <3> QED
      BY <1>11, <1>19, <2>1, <3>1
  <2>2. CASE p \notin stale /\ p \notin M
    <3>1. ~Pending(q)
      BY <1>13, <1>19, <2>2
    <3>2. About[p] # {} /\ \A b \in About[p] : proofs[p][b].asof >= wrote[q]
      BY <1>19, <2>2, <3>1 DEF VInv, Marked
    <3>3. ASSUME NEW b \in About[p] PROVE proofs'[p][b].asof >= wrote[q]
      <4>0. b \in Obligations
        BY DEF Obligations
      <4>1. CASE proofs'[p][b] = proofs[p][b]
        BY <3>2, <4>1
      <4>2. CASE p \in restored /\ proofs'[p][b] = Proof(p)
        <5>1. Fresh(C.gen, C.asof)' /\ C.gen >= inval'[p] /\ C.gen \in Nat
          BY <1>1, <1>10, <1>14, <1>16, <4>2 DEF EInv, Typed
        <5>2. C.asof >= wrote[q]
          BY <1>2, <1>19, <5>1 DEF Fresh, DependentsOf
        <5> QED
          BY <1>9, <1>16, <4>2, <5>2
      <4> QED
        BY <1>8, <4>0, <4>1, <4>2
    <3> QED
      BY <3>2, <3>3
  <2> QED
    BY <2>1, <2>2
<1>20. Marked'
  BY <1>2, <1>19 DEF Marked, DependentsOf
<1>21. \A q \in Paths : wrote'[q] <= stamp'
  BY <1>2 DEF VInv
<1> QED
  BY <1>7, <1>15, <1>18, <1>20, <1>21 DEF VInv

LEMMA NextVInv == EInv /\ VInv /\ [Next]_vars => VInv'
<1> SUFFICES ASSUME EInv, VInv, [Next]_vars PROVE VInv'
  OBVIOUS
<1>1. ASSUME NEW o \in Ops, ExecutorStep(o) PROVE VInv'
  BY <1>1, FrameSteps, BeginningSteps, CallsKeepValidity, ObservingSteps, FinalizeKeepsValidity
  DEF ExecutorStep
<1>2. ASSUME NEW o \in Ops, InspectEffect(o) \/ SettleEffect(o) PROVE VInv'
  BY <1>2, FrameSteps, SettlingKeepsValidity DEF InspectEffect
<1>3. ASSUME NEW r \in Runs, RunStep(r) PROVE VInv'
  <2>1. ASSUME ReconcileRun(r) PROVE VInv'
    BY <2>1, FrameSteps DEF ReconcileRun, OwnedBy
  <2> QED
    BY <1>3, <2>1, OthersKeepValidity, BeginningSteps DEF RunStep
<1>4. ASSUME NEW o \in Ops, OrphanWrites(o) \/ OrphanStops(o) PROVE VInv'
  BY <1>4, OrphansKeepValidity
<1> QED
  BY <1>1, <1>2, <1>3, <1>4, CrashKeepsValidity, OthersKeepValidity DEF Next

\* The invariant of validity: what a receipt does not close is pending, every recorded
\* check saw the closed writes of the sources of what it still supports, and so did the
\* checks of every path that carries no mark.
THEOREM ValidityInvariance == Spec => []VInv
  BY VInvInit, NextVInv, EffectInvariance, PTL DEF Spec

LEMMA QuietIsClosed ==
  ASSUME Typed, Quiet
  PROVE  \A q : ~Pending(q)
<1>1. \A x \in Ops : ~Unsettled(x)
  BY DEF Typed, Row, Quiet, Requires, Unsettled
<1> QED
  BY <1>1 DEF Pending

\* No order of captures, crashes, delayed finalizations, stray writes and settlements
\* loses the mark of an artifact whose source was written and that was not checked
\* since (finalize_effect, settle_effect).
THEOREM MarksAreKept == Spec => []UnmarkedIsChecked
<1>1. EInv /\ VInv => UnmarkedIsChecked
  <2> SUFFICES ASSUME EInv, VInv PROVE UnmarkedIsChecked
    OBVIOUS
  <2> QED
    BY QuietIsClosed DEF EInv, VInv, Marked, UnmarkedIsChecked, WrittenUpstream
<1> QED
  BY <1>1, EffectInvariance, ValidityInvariance, PTL

\* What is reported as validated was checked after the last write of every source
\* (assess_properties).
THEOREM ValidatedMeansChecked == Spec => []ValidatedIsChecked
<1>1. EInv /\ VInv => ValidatedIsChecked
  <2> SUFFICES ASSUME EInv, VInv, Quiet, NEW p \in Paths, NEW b \in Assessed(p),
                      NEW q \in WrittenUpstream(p)
               PROVE  proofs[p][b].asof >= wrote[q]
    BY DEF ValidatedIsChecked
  <2>1. b \in Obligations /\ proofs[p][b].gen >= inval[p]
    BY DEF Assessed, Obligations
  <2>2. Fresh(proofs[p][b].gen, proofs[p][b].asof)
    BY <2>1 DEF VInv, FactsFresh
  <2>3. ~Pending(q)
    BY QuietIsClosed DEF EInv
  <2> QED
    BY <2>1, <2>2, <2>3 DEF Fresh, WrittenUpstream
<1> QED
  BY <1>1, EffectInvariance, ValidityInvariance, PTL

-----------------------------------------------------------------------------
(* Applications.                                                           *)

\* Between the acceptance of its check and its return, an application holds the
\* certificate of a closed check, and once dispatched the live dependencies are the
\* checked ones.
Accepted(o) ==
    LET c == Action[o].check
        cert == row[c].obs.cert
        p == Action[o].path IN
    Kind(o) = "apply" /\ mem[o].at \in {"checked", "acting"} =>
        /\ row[c].phase = "finalized" /\ row[c].obs.status = "succeeded"
        /\ row[c].obs.basis = "established" /\ cert.pass /\ mem[o].obs.cert = cert
        /\ mem[o].at = "acting" =>
              /\ cert.after[p] = Action[o].value
              /\ \A q \in Action[c].reads \ {p} : cert.before[q] = live[q]

AInv == \A o \in Ops : Accepted(o)

\* Finalization works on rows, frames and marks only.
LEMMA FinalizeMoves ==
  ASSUME NEW o \in Ops, Finalize(o)
  PROVE  /\ row[o].phase = "observed" /\ row' = [row EXCEPT ![o].phase = "finalized"]
         /\ mem' = [mem EXCEPT ![o] = NoMem]
         /\ UNCHANGED world
  BY Zenon DEF Finalize

\* A conclusive receipt is final.
LEMMA ReceiptStays ==
  ASSUME EInv, [Next]_vars, NEW c \in Ops, row[c].phase = "finalized",
         row[c].obs.status = "succeeded"
  PROVE  row'[c] = row[c]
<1>0. row \in [Ops -> Row]
  BY DEF EInv, Typed
<1>1. ASSUME NEW o \in Ops, ExecutorStep(o) PROVE row'[c] = row[c]
  <2>1. CASE StartDispatch(o) \/ Capture(o) \/ Reconcile(o) \/ Finalize(o)
    <3>1. row[o].phase # "finalized"
      BY <2>1, FinalizeMoves DEF StartDispatch, Capture, Reconcile
    <3> QED
      BY <1>0, <2>1, <3>1, FinalizeMoves DEF StartDispatch, Capture, Reconcile
  <2>2. CASE RunCheck(o)
    BY <1>0, <2>2, ZenonT(60) DEF RunCheck
  <2>3. CASE Deny(o) \/ Pin(o) \/ AcceptCheck(o) \/ Assess(o) \/ BookkeepingFails(o)
    BY <2>3, Zenon DEF Deny, Pin, AcceptCheck, Assess, BookkeepingFails, table
  <2>4. CASE ActEdit(o) \/ ActBranch(o) \/ ActTool(o)
    BY <2>4 DEF ActEdit, ActBranch, ActTool
  <2> QED
    BY <1>1, <2>1, <2>2, <2>3, <2>4 DEF ExecutorStep
<1>2. ASSUME NEW o \in Ops, LookUp(o) PROVE row'[c] = row[c]
  BY <1>2 DEF LookUp, table
<1>3. ASSUME NEW o \in Ops, SettleEffect(o) PROVE row'[c] = row[c]
  <2>1. row[o].obs.status = "unknown" /\ row' = [row EXCEPT ![o].settled = TRUE]
    BY <1>3 DEF SettleEffect
  <2> QED
    BY <1>0, <2>1
<1>4. ASSUME NEW r \in Runs, RunStep(r) PROVE row'[c] = row[c]
  <2>1. ASSUME NEW o \in Ops, Execute(r, o) PROVE row'[c] = row[c]
    BY <1>0, <1>2, <2>1 DEF Execute, Known
  <2>2. ASSUME ReconcileRun(r) PROVE row'[c] = row[c]
    BY <1>2, <2>2 DEF ReconcileRun, OwnedBy
  <2> QED
    BY <1>4, <2>1, <2>2 DEF RunStep, Resume, Continue, EndSession, Cancel, table
<1>5. CASE \/ \E o \in Ops : OrphanWrites(o) \/ OrphanStops(o)
           \/ CrashAndRecover \/ PinsChange \/ DeadlinePasses \/ UNCHANGED vars
  BY <1>5 DEF OrphanWrites, OrphanStops, CrashAndRecover, PinsChange, DeadlinePasses, vars, table
<1> QED
  BY <1>1, <1>2, <1>3, <1>4, <1>5 DEF Next, InspectEffect

\* While an application is at the adapter nobody else writes the live workspace.
LEMMA WorkspaceIsHeld ==
  ASSUME EInv, VInv, [Next]_vars, NEW o \in Ops, Kind(o) = "apply", mem[o].at = "acting",
         mem'[o] = mem[o]
  PROVE  live' = live
<1>0. live \in [Paths -> Versions] /\ live' \in [Paths -> Versions]
  BY NextEInv DEF EInv, Typed
<1>1. MayStillWrite(o)
  BY Zenon DEF EInv, PerOp, OpOK, VInv, WritesOK, LiveWrites, MayStillWrite
<1>2. ASSUME NEW x \in Ops, x # o PROVE row[x].writes = {} \/ (row[x].phase # "dispatching" /\ x \notin orphans)
  BY <1>1, <1>2 DEF EInv, SingleLiveWriter, MayStillWrite
<1>3. ASSUME NEW x \in Ops, Touches(x), x # o, row[x].phase = "dispatching" \/ x \in orphans
      PROVE  live' = live
  <2>1. \A q \in Paths : live'[q] = live[q]
    BY <1>2, <1>3 DEF Touches
  <2> QED
    BY <1>0, <2>1
<1>4. ASSUME NEW x \in Ops, ActEdit(x) \/ ActTool(x) PROVE live' = live
  <2>1. mem[x].at = "acting" /\ row[x].phase = "dispatching"
    BY <1>4, Zenon DEF ActEdit, ActTool, Acting, EInv, PerOp, OpOK
  <2>2. \E obs : Returned(x, obs)
    BY <1>4, Zenon DEF ActEdit, ActTool
  <2>3. x # o
    BY <2>1, <2>2, ReturnedFrame
  <2> QED
    BY <1>3, <1>4, <2>1, <2>3, EditTouches, ToolTouches, ZenonT(60)
<1>5. ASSUME NEW x \in Ops, OrphanWrites(x) PROVE live' = live
  BY <1>3, <1>5, OrphanTouches DEF OrphanWrites
<1>6. ASSUME NEW x \in Ops, ExecutorStep(x) PROVE live' = live
  BY <1>4, <1>6, FinalizeMoves, Zenon
  DEF ExecutorStep, Deny, Pin, RunCheck, AcceptCheck, StartDispatch, ActBranch, Capture, Reconcile,
      Assess, BookkeepingFails, world
<1>7. ASSUME NEW r \in Runs, RunStep(r) PROVE live' = live
  BY <1>7 DEF RunStep, Resume, ReconcileRun, Continue, EndSession, Cancel, Execute, LookUp, world
<1> QED
  BY <1>5, <1>6, <1>7
  DEF Next, InspectEffect, SettleEffect, LookUp, OrphanStops, CrashAndRecover, PinsChange,
      DeadlinePasses, vars, world

LEMMA FrameComes ==
  ASSUME EInv, [Next]_vars, NEW o \in Ops, mem'[o] # mem[o], mem'[o].at \in {"checked", "acting"}
  PROVE  AcceptCheck(o) \/ StartDispatch(o)
<1>0. mem \in [Ops -> Frame] /\ mem[o] \in Frame /\ NoMem.at = "idle"
  BY DEF EInv, Typed, NoMem
<1>1. \A s \in Places : [mem[o] EXCEPT !.at = s].at = s
  BY <1>0, FrameAt
<1>2. ASSUME NEW x \in Ops, LookUp(x) PROVE FALSE
  <2>1. mem' = [mem EXCEPT ![x].at = "lookup"]
    BY <1>2 DEF LookUp
  <2>2. mem'[o] = [mem[o] EXCEPT !.at = "lookup"]
    BY <1>0, <2>1
  <2> QED
    BY <1>1, <2>2 DEF Places
<1>3. ASSUME NEW x \in Ops, ExecutorStep(x) PROVE AcceptCheck(o) \/ StartDispatch(o)
  <2>1. CASE AcceptCheck(x) \/ StartDispatch(x)
    <3>1. x = o
      BY <1>0, <2>1 DEF AcceptCheck, StartDispatch
    <3> QED
      BY <2>1, <3>1
  <2>2. CASE RunCheck(x)
    <3> DEFINE c == Action[x].check
    <3>1. c # x /\ c \in Ops
      BY <2>2, Constant DEF RunCheck, EInv, PerOp, OpOK
    <3> HIDE DEF c
    <3>2. \E s \in {"checking", "intent", "lookup"} : mem'[o] = [mem[o] EXCEPT !.at = s]
      BY <1>0, <2>2, <3>1 DEF RunCheck, c
    <3> QED
      BY <1>1, <3>2 DEF Places
  <2>3. CASE ActEdit(x) \/ ActBranch(x) \/ ActTool(x)
    <3>1. mem[x].at = "acting" /\ \E obs : Returned(x, obs)
      BY <2>3, Zenon DEF ActEdit, ActBranch, ActTool, Acting
    <3>2. x = o => mem'[o].at = "returned"
      BY <3>1, ReturnedFrame
    <3>3. x # o => mem'[o] = mem[o]
      BY <3>1, ReturnedFrame
    <3> QED
      BY <3>2, <3>3
  <2>4. CASE Finalize(x) \/ BookkeepingFails(x)
    <3>1. mem'[o] = NoMem
      BY <1>0, <2>4, FinalizeMoves DEF BookkeepingFails
    <3> QED
      BY <1>0, <3>1
  <2>5. CASE Capture(x) \/ Reconcile(x)
    <3>1. mem'[o] = [mem[o] EXCEPT !.at = "captured"]
      BY <1>0, <2>5 DEF Capture, Reconcile
    <3> QED
      BY <1>1, <3>1 DEF Places
  <2>6. CASE Pin(x)
    <3>1. mem'[o] = [mem[o] EXCEPT !.at = "pinned", !.pins = pins]
      BY <1>0, <2>6 DEF Pin
    <3>2. mem'[o].at = "pinned"
      BY <1>0, <3>1 DEF Frame
    <3> QED
      BY <3>2
  <2>7. CASE Deny(x)
    <3> DEFINE denial == Obs("denied", "not_dispatched", {}, NoCert)
    <3>1. mem'[o] = [mem[o] EXCEPT !.at = "returned", !.obs = denial]
      BY <1>0, <2>7 DEF Deny
    <3> HIDE DEF denial
    <3>2. mem'[o].at = "returned"
      BY <1>0, <3>1 DEF Frame
    <3> QED
      BY <3>2
  <2>8. CASE Assess(x)
    <3>1. \E v, k : mem'[o] = [mem[o] EXCEPT !.at = "assessed", !.valid = v, !.kept = k]
      BY <1>0, <2>8 DEF Assess
    <3>2. mem'[o].at = "assessed"
      BY <1>0, <3>1 DEF Frame
    <3> QED
      BY <3>2
  <2> QED
    BY <1>3, <2>1, <2>2, <2>3, <2>4, <2>5, <2>6, <2>7, <2>8 DEF ExecutorStep
<1>4. ASSUME NEW r \in Runs, RunStep(r) PROVE FALSE
  <2>1. ASSUME NEW x \in Ops, Execute(r, x) PROVE FALSE
    <3>1. CASE LookUp(x)
      BY <1>2, <3>1
    <3>2. CASE mem' = [mem EXCEPT ![x].at = "intent"]
      <4>1. mem'[o] = [mem[o] EXCEPT !.at = "intent"]
        BY <1>0, <3>2
      <4> QED
        BY <1>1, <4>1 DEF Places
    <3> QED
      BY <2>1, <3>1, <3>2 DEF Execute
  <2>2. ASSUME ReconcileRun(r) PROVE FALSE
    BY <1>2, <2>2 DEF ReconcileRun, OwnedBy
  <2> QED
    BY <1>4, <2>1, <2>2 DEF RunStep, Resume, Continue, EndSession, Cancel
<1>5. CASE CrashAndRecover
  <2>1. mem'[o] = NoMem
    BY <1>5 DEF CrashAndRecover
  <2> QED
    BY <1>0, <2>1
<1> QED
  BY <1>2, <1>3, <1>4, <1>5
  DEF Next, InspectEffect, SettleEffect, OrphanWrites, OrphanStops, PinsChange, DeadlinePasses,
      vars, process

LEMMA InitAInv == Init => AInv
<1>1. NoMem.at = "idle"
  BY DEF NoMem
<1> QED
  BY <1>1 DEF Init, AInv, Accepted

LEMMA NextAInv == EInv /\ VInv /\ AInv /\ [Next]_vars => AInv'
<1> SUFFICES ASSUME EInv, VInv, AInv, [Next]_vars, NEW o \in Ops, Kind(o) = "apply",
                    mem'[o].at \in {"checked", "acting"}
             PROVE  Accepted(o)'
  BY Zenon DEF AInv, Accepted, Kind
<1> DEFINE c == Action[o].check
           p == Action[o].path
<1>0. c \in Ops /\ c # o /\ p \in Paths
  BY Constant, RequestFields
<1>1. mem[o] \in Frame /\ live \in [Paths -> Versions]
  BY ZenonT(60) DEF EInv, Typed
<1>2. CASE mem'[o] = mem[o]
  <2>1. row'[c] = row[c]
    BY <1>0, <1>2, ReceiptStays DEF AInv, Accepted
  <2>2. mem[o].at = "acting" => live' = live
    BY <1>2, WorkspaceIsHeld
  <2>3. mem[o].at \in {"checked", "acting"} /\ Accepted(o)
    BY <1>2, Zenon DEF AInv
  <2> QED
    BY <1>2, <2>1, <2>2, <2>3, ZenonT(60) DEF Accepted
<1>3. CASE AcceptCheck(o)
  <2>1. mem'[o] = [mem[o] EXCEPT !.at = "checked", !.obs.cert = CertificateOf(c)]
    BY <1>3 DEF AcceptCheck, EInv, Typed
  <2>2. mem'[o].at = "checked" /\ mem'[o].obs.cert = row[c].obs.cert
    BY <1>1, <2>1 DEF Frame, Observation, CertificateOf
  <2>3. row' = row
    BY <1>3 DEF AcceptCheck, table
  <2>4. /\ row[c].phase = "finalized" /\ row[c].obs.status = "succeeded"
        /\ row[c].obs.basis = "established" /\ row[c].obs.cert.pass
    BY <1>3, Zenon DEF AcceptCheck
  <2> QED
    BY <2>2, <2>3, <2>4 DEF Accepted
<1>4. CASE StartDispatch(o)
  <2>1. mem'[o] = [mem[o] EXCEPT !.at = "acting", !.pins = mem[o].pins]
    BY <1>4 DEF StartDispatch, EInv, Typed
  <2>2. mem'[o].at = "acting" /\ mem'[o].obs = mem[o].obs
    BY <1>1, <2>1 DEF Frame
  <2>3. Applicable(o)
    BY <1>4 DEF StartDispatch, MayDispatch
  <2>4. mem[o].at = "checked" /\ CheckOf(o) = Action[c]
    BY <2>3, Zenon DEF Applicable, CheckOf
  <2>5. /\ row[c].phase = "finalized" /\ row[c].obs.status = "succeeded"
        /\ row[c].obs.basis = "established" /\ row[c].obs.cert.pass
        /\ mem[o].obs.cert = row[c].obs.cert
    BY <2>4 DEF AInv, Accepted
  <2>6. row'[c] = row[c] /\ live' = live
    BY <1>0, <1>4, <2>5, ReceiptStays, Zenon DEF StartDispatch, world
  <2>7. mem[o].obs.cert.after[p] = Action[o].value
    BY <2>3, <2>4 DEF Applicable, UnchangedSince
  <2>8. /\ row'[c].phase = "finalized" /\ row'[c].obs.status = "succeeded"
        /\ row'[c].obs.basis = "established" /\ row'[c].obs.cert.pass
    BY <2>5, <2>6, Zenon
  <2>9. mem'[o].obs.cert = row'[c].obs.cert
    BY <2>2, <2>5, <2>6, Zenon
  <2>10. row'[c].obs.cert.after[p] = Action[o].value
    BY <2>5, <2>6, <2>7, Zenon
  <2>11. ASSUME NEW q \in Action[c].reads \ {p}
         PROVE  row'[c].obs.cert.before[q] = live'[q]
    <3>1. live[q] = mem[o].obs.cert.before[q]
      BY <2>3, <2>4, <2>11 DEF Applicable
    <3> QED
      BY <2>5, <2>6, <3>1, Zenon
  <2> QED
    BY <2>8, <2>9, <2>10, <2>11, Zenon DEF Accepted
<1> QED
  BY <1>2, <1>3, <1>4, FrameComes, ZenonT(60)

\* An application holds the certificate of its check from the moment it accepts it, and
\* the workspace it was accepted against until its call returns.
THEOREM ApplicationsAreAccepted == Spec => []AInv
  BY InitAInv, NextAInv, EffectInvariance, ValidityInvariance, PTL DEF Spec

\* Only its own adapter call counts as a call of an application.
LEMMA ApplicationCalls ==
  ASSUME EInv, [Next]_vars, NEW o \in Ops, Kind(o) = "apply", calls'[o] # calls[o]
  PROVE  ActEdit(o)
<1>0. calls \in [Ops -> 0..1]
  BY DEF EInv, Typed
<1>1. ASSUME NEW x \in Ops, ExecutorStep(x) PROVE ActEdit(o)
  <2>1. CASE ActEdit(x) \/ ActBranch(x) \/ ActTool(x)
    <3>1. \E obs : Returned(x, obs)
      BY <2>1, Zenon DEF ActEdit, ActBranch, ActTool
    <3>2. x = o
      BY <1>0, <3>1 DEF Returned
    <3> QED
      BY <2>1, <3>2 DEF ActBranch, ActTool, Acting
  <2> QED
    BY <1>1, <2>1, FinalizeMoves, Zenon
    DEF ExecutorStep, Deny, Pin, RunCheck, AcceptCheck, StartDispatch, Capture, Reconcile,
        Assess, BookkeepingFails, world
<1>2. CASE CrashAndRecover
  <2>1. PICK S \in SUBSET {x \in Ops : Acting(x, "execute")} :
           calls' = [x \in Ops |-> IF x \in S THEN calls[x] + 1 ELSE calls[x]]
    BY <1>2 DEF CrashAndRecover
  <2>2. o \notin S
    BY DEF Acting
  <2> QED
    BY <2>1, <2>2
<1>3. ASSUME NEW r \in Runs, RunStep(r) PROVE calls' = calls
  BY <1>3 DEF RunStep, Resume, ReconcileRun, Continue, EndSession, Cancel, Execute, LookUp, world
<1> QED
  BY <1>1, <1>2, <1>3
  DEF Next, InspectEffect, SettleEffect, LookUp, OrphanWrites, OrphanStops, PinsChange,
      DeadlinePasses, vars, world

\* An application changes the live artifact only to content on which its acceptance
\* check passed, against the dependencies that are live (dispatch, Apply).
THEOREM ApplicationsAreChecked == Spec => AppliedIsChecked
<1> DEFINE A == \A o \in Ops : Kind(o) = "apply" /\ calls'[o] # calls[o] /\ live' # live =>
                   LET c == Action[o].check
                       cert == row[c].obs.cert IN
                   /\ calls[c] = 1 /\ row[c].phase = "finalized" /\ cert.pass
                   /\ cert.after[Action[o].path] = live'[Action[o].path]
                   /\ \A q \in Action[c].reads \ {Action[o].path} : cert.before[q] = live[q]
<1>1. EInv /\ AInv /\ [Next]_vars => A
  <2> SUFFICES ASSUME EInv, AInv, [Next]_vars, NEW o \in Ops, Kind(o) = "apply",
                      calls'[o] # calls[o], live' # live
               PROVE  LET c == Action[o].check
                          cert == row[c].obs.cert IN
                      /\ calls[c] = 1 /\ row[c].phase = "finalized" /\ cert.pass
                      /\ cert.after[Action[o].path] = live'[Action[o].path]
                      /\ \A q \in Action[c].reads \ {Action[o].path} : cert.before[q] = live[q]
    OBVIOUS
  <2> DEFINE c == Action[o].check
             p == Action[o].path
  <2>1. ActEdit(o) /\ mem[o].at = "acting"
    BY ApplicationCalls DEF ActEdit, Acting
  <2>2. c \in Ops /\ p \in Paths
    BY Constant, RequestFields
  <2>3. WriteLive({p}, NewValue(o))
    BY <2>1 DEF ActEdit, LiveWrites
  <2>4. live'[p] = Action[o].value
    BY <2>2, <2>3 DEF WriteLive, NewValue
  <2>0. Accepted(o)
    BY DEF AInv
  <2>5. /\ row[c].phase = "finalized" /\ row[c].obs.basis = "established"
        /\ row[c].obs.cert.pass /\ row[c].obs.cert.after[p] = Action[o].value
        /\ \A q \in Action[c].reads \ {p} : row[c].obs.cert.before[q] = live[q]
    BY <2>0, <2>1, ZenonT(60) DEF Accepted
  <2>6. calls[c] = 1
    BY <2>2, <2>5, Zenon DEF EInv, PerOp, OpOK, Tells
  <2>7. row[c].obs.cert.after[p] = live'[p]
    BY <2>4, <2>5, Zenon
  <2> QED
    BY <2>5, <2>6, <2>7, ZenonT(60)
<1> HIDE DEF A
<1>2. Spec => [][A]_vars
  BY <1>1, EffectInvariance, ApplicationsAreAccepted, PTL DEF Spec
<1> QED
  BY <1>2, PTL DEF A, AppliedIsChecked
=============================================================================
