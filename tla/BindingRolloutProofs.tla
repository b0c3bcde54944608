------------------------ MODULE BindingRolloutProofs ------------------------
(***************************************************************************)
(* Proofs for BindingRollout: types, the hold that only operators lift,    *)
(* the evaluation before the first live state, and the bound on writes     *)
(* that follow a hold.                                                     *)
(***************************************************************************)
EXTENDS BindingRollout, TLAPS

LEMMA RowTypes ==
    ASSUME TypeOK
    PROVE  /\ row \in RowType
           /\ NoRow \in RowType
           /\ NoRec \in [rollout : RowType, apply : BOOLEAN, ok : BOOLEAN, n : Nat]
           /\ \A s \in States : Entered(s) \in [mode : Modes, state : States, period : Nat]
<1>1. row \in [mode : Modes, state : States, period : Nat]
  BY DEF TypeOK
<1>2. row \in RowType
  BY <1>1 DEF RowType
<1>3. NoRow \in RowType
  BY DEF NoRow, RowType
<1>4. NoRec \in [rollout : RowType, apply : BOOLEAN, ok : BOOLEAN, n : Nat]
  BY <1>3 DEF NoRec
<1>5. \A s \in States : Entered(s) \in [mode : Modes, state : States, period : Nat]
  <2> SUFFICES ASSUME NEW s \in States
               PROVE  Entered(s) \in [mode : Modes, state : States, period : Nat]
    OBVIOUS
  <2>1. row.period \in Nat /\ row.period + 1 \in Nat
    BY <1>1
  <2>2. PICK p \in Nat : Entered(s) = [row EXCEPT !.state = s, !.period = p]
    BY <2>1 DEF Entered
  <2> QED BY <1>1, <2>2
<1> QED BY <1>2, <1>3, <1>4, <1>5

\* An operator's update leaves the row in the state it asked for.
LEMMA UpdatedState ==
    ASSUME TypeOK, NEW o \in Operators, UpdateRollout(o)
    PROVE  row'.state = RequestedState(req[o])
<1>1. RequestedState(req[o]) \in States
  BY DEF RequestedState, States
<1>2. /\ Entered(RequestedState(req[o])) \in [mode : Modes, state : States, period : Nat]
      /\ row \in [mode : Modes, state : States, period : Nat]
  BY <1>1, RowTypes DEF TypeOK
<1>3. Entered(RequestedState(req[o])).state = RequestedState(req[o])
  BY <1>2 DEF Entered
<1>4. row' = [Entered(RequestedState(req[o])) EXCEPT !.mode = req[o].mode]
  BY DEF UpdateRollout
<1> QED BY <1>2, <1>3, <1>4

LEMMA InitType == Init => TypeOK
<1> SUFFICES ASSUME Init PROVE TypeOK
  OBVIOUS
<1>1. NoRec \in [rollout : RowType, apply : BOOLEAN, ok : BOOLEAN, n : Nat]
  BY DEF NoRec, NoRow, RowType
<1>2. NoReq \in [mode : Modes \cup {"none"}, hold : BOOLEAN, state : States \cup {"none"}]
  BY DEF NoReq
<1>3. row \in [mode : Modes, state : States, period : Nat]
  BY DEF Init, States
<1> QED BY <1>1, <1>2, <1>3 DEF Init, TypeOK

LEMMA NextType == ASSUME TypeOK, [Next]_vars PROVE TypeOK'
<1> USE DEF TypeOK
<1>1. /\ row \in RowType /\ NoRow \in RowType
      /\ NoRec \in [rollout : RowType, apply : BOOLEAN, ok : BOOLEAN, n : Nat]
      /\ \A s \in States : Entered(s) \in [mode : Modes, state : States, period : Nat]
  BY RowTypes
<1>2. "shadow_validating" \in States /\ "blocked" \in States /\ "live" \in States
      /\ "manual_hold" \in States
  BY DEF States
<1>3. CASE UNCHANGED vars
  BY <1>3 DEF vars
<1>4. ASSUME NEW w \in Workers, WorkerStep(w) PROVE TypeOK'
  <2>1. CASE EnsureRollout(w)
    BY <1>1, <2>1 DEF EnsureRollout, GotoW
  <2>2. CASE Unblock(w)
    BY <1>1, <1>2, <2>2 DEF Unblock, GotoW, SetSystemState, Fault
  <2>3. CASE Reread(w)
    <3>1. PICK r \in RowType : rec' = [rec EXCEPT ![w].rollout = r]
      BY <1>1, <2>3 DEF Reread
    <3>2. rec' \in [Workers -> [rollout : RowType, apply : BOOLEAN, ok : BOOLEAN, n : Nat]]
      BY <3>1
    <3>3. faults' \in Nat
      BY <2>3 DEF Reread, Fault
    <3> QED BY <2>3, <3>2, <3>3 DEF Reread, GotoW
  <2>4. CASE \E allowed \in BOOLEAN : CreateRun(w, allowed)
    <3>1. PICK allowed \in BOOLEAN, ok \in BOOLEAN :
            rec' = [rec EXCEPT ![w] =
                      [@ EXCEPT !.apply = MayApply(allowed, rec[w].rollout), !.ok = ok]]
      BY <2>4 DEF CreateRun
    <3>2. PICK a \in BOOLEAN : a = MayApply(allowed, rec[w].rollout)
      BY DEF MayApply
    <3>3. rec[w] \in [rollout : RowType, apply : BOOLEAN, ok : BOOLEAN, n : Nat]
      OBVIOUS
    <3>4. rec' \in [Workers -> [rollout : RowType, apply : BOOLEAN, ok : BOOLEAN, n : Nat]]
      <4>1. [rec[w] EXCEPT !.apply = a]
               \in [rollout : RowType, apply : BOOLEAN, ok : BOOLEAN, n : Nat]
        BY <3>2, <3>3
      <4>2. [[rec[w] EXCEPT !.apply = a] EXCEPT !.ok = ok]
               \in [rollout : RowType, apply : BOOLEAN, ok : BOOLEAN, n : Nat]
        BY <4>1
      <4>3. rec' = [rec EXCEPT ![w] = [[rec[w] EXCEPT !.apply = a] EXCEPT !.ok = ok]]
        BY <3>1, <3>2
      <4> QED BY <4>2, <4>3
    <3>5. faults' \in Nat
      BY <2>4 DEF CreateRun, Fault
    <3> QED BY <2>4, <3>4, <3>5 DEF CreateRun, GotoW
  <2>5. CASE \E mark \in BOOLEAN : Block(w, mark)
    BY <1>1, <1>2, <2>5 DEF Block, EndEvaluation, GotoW, SetSystemState
  <2>6. CASE Confirm(w)
    <3>1. rec[w].rollout.period \in Nat
      BY DEF RowType
    <3>2. runs' \subseteq Nat /\ evaluated' \subseteq Nat
      BY <2>6, <3>1 DEF Confirm
    <3>3. faults' \in Nat
      BY <2>6 DEF Confirm, Fault
    <3> QED BY <2>6, <3>2, <3>3 DEF Confirm, GotoW
  <2>7. CASE Promote(w)
    BY <1>1, <1>2, <2>7 DEF Promote, EndEvaluation, GotoW, SetSystemState, Fault
  <2>8. CASE WriteBid(w)
    BY <2>8 DEF WriteBid
  <2>9. CASE FinishWrites(w)
    BY <1>1, <2>9 DEF FinishWrites, EndEvaluation, GotoW
  <2>10. CASE Crash(w)
    BY <1>1, <2>10 DEF Crash, EndEvaluation, GotoW, Fault
  <2> QED BY <1>4, <2>1, <2>2, <2>3, <2>4, <2>5, <2>6, <2>7, <2>8, <2>9, <2>10 DEF WorkerStep
<1>5. ASSUME NEW o \in Operators, OperatorStep(o) PROVE TypeOK'
  <2>1. CASE \E mode \in Modes, hold \in BOOLEAN : ReadCurrent(o, mode, hold)
    BY <2>1 DEF ReadCurrent
  <2>2. CASE UpdateRollout(o)
    <3>1. req[o].mode \in Modes
      BY <2>2 DEF UpdateRollout
    <3>2. RequestedState(req[o]) \in States
      BY DEF RequestedState, States
    <3>3. row' \in [mode : Modes, state : States, period : Nat]
      BY <1>1, <2>2, <3>1, <3>2 DEF UpdateRollout
    <3>4. req' \in [Operators -> [mode : Modes \cup {"none"}, hold : BOOLEAN,
                                  state : States \cup {"none"}]]
      BY <2>2 DEF UpdateRollout, NoReq
    <3> QED BY <2>2, <3>3, <3>4 DEF UpdateRollout
  <2> QED BY <1>5, <2>1, <2>2 DEF OperatorStep
<1> QED BY <1>3, <1>4, <1>5 DEF Next

\* The row, the evaluations and the requests keep their types.
THEOREM TypeCorrect == Spec => []TypeOK
BY InitType, NextType, PTL DEF Spec

-----------------------------------------------------------------------------
\* Every step but an operator's update leaves a manual hold alone.
LEMMA HoldStep ==
    ASSUME [Next]_vars, row.state = "manual_hold", row'.state # "manual_hold"
    PROVE  \E o \in Operators : UpdateRollout(o)
<1>1. ~UNCHANGED row
  OBVIOUS
<1>2. ASSUME NEW w \in Workers, WorkerStep(w) PROVE UNCHANGED row
  BY <1>2 DEF WorkerStep, EnsureRollout, Unblock, Reread, CreateRun, Block, Confirm,
     Promote, WriteBid, FinishWrites, Crash, SetSystemState
<1>3. ASSUME NEW o \in Operators, NEW mode, NEW hold, ReadCurrent(o, mode, hold)
      PROVE  UNCHANGED row
  BY <1>3 DEF ReadCurrent
<1>4. ~UNCHANGED vars
  BY <1>1 DEF vars
<1> QED BY <1>1, <1>2, <1>3, <1>4 DEF Next, OperatorStep

\* A manual hold is ended by an operator's update only: the system statements
\* exclude held rows, so late blocks and promotions pass it by.
THEOREM HoldIsKept == Spec => HoldSticks
<1>1. ASSUME TypeOK, [Next]_vars
      PROVE  [row.state = "manual_hold" /\ row'.state # "manual_hold"
                => \E o \in Operators : opc[o] = "write" /\ opc'[o] = "idle"]_vars
  <2> SUFFICES ASSUME row.state = "manual_hold", row'.state # "manual_hold"
               PROVE  \E o \in Operators : opc[o] = "write" /\ opc'[o] = "idle"
    OBVIOUS
  <2>1. PICK o \in Operators : UpdateRollout(o)
    BY <1>1, HoldStep
  <2>2. opc[o] = "write" /\ opc' = [opc EXCEPT ![o] = "idle"]
    BY <2>1 DEF UpdateRollout
  <2>3. opc'[o] = "idle"
    BY <1>1, <2>2 DEF TypeOK
  <2> QED BY <2>2, <2>3
<1> QED BY <1>1, TypeCorrect, PTL DEF Spec, HoldSticks

-----------------------------------------------------------------------------
\* What NeverLiveUntested needs to be inductive: a request that saw the live
\* state, and a worker about to promote, come after an evaluation.
TestedInv ==
    /\ TypeOK
    /\ NeverLiveUntested
    /\ \A o \in Operators : opc[o] = "write" /\ req[o].state = "live" => evaluated # {}
    /\ \A w \in Workers : wpc[w] = "promote" /\ EarnsLive(rec[w]) => evaluated # {}

LEMMA InitTested == Init => TestedInv
<1> SUFFICES ASSUME Init PROVE TestedInv
  OBVIOUS
<1> QED BY InitType DEF TestedInv, NeverLiveUntested, Init

LEMMA NextTested == ASSUME TestedInv, [Next]_vars PROVE TestedInv'
<1>1. TypeOK /\ TypeOK'
  BY NextType DEF TestedInv
<1>2. CASE evaluated # {}
  <2>1. evaluated \subseteq evaluated'
    BY DEF Next, vars, WorkerStep, OperatorStep, EnsureRollout, Unblock, Reread, CreateRun,
       Block, Confirm, Promote, WriteBid, FinishWrites, Crash, ReadCurrent, UpdateRollout
  <2> QED BY <1>1, <1>2, <2>1 DEF TestedInv, NeverLiveUntested
<1>3. CASE evaluated = {}
  <2>0. /\ row.state # "live"
        /\ \A o \in Operators : opc[o] = "write" => req[o].state # "live"
        /\ \A w \in Workers : wpc[w] = "promote" => ~EarnsLive(rec[w])
    BY <1>3 DEF TestedInv, NeverLiveUntested
  <2>1. CASE UNCHANGED vars
    BY <1>1, <2>0, <2>1 DEF vars, TestedInv, NeverLiveUntested, EarnsLive
  <2>2. ASSUME NEW w \in Workers, WorkerStep(w), evaluated' = {} PROVE TestedInv'
    <3>1. row'.state # "live"
      BY <1>1, <2>0, <2>2 DEF WorkerStep, EnsureRollout, Unblock, Reread, CreateRun, Block,
         Confirm, Promote, WriteBid, FinishWrites, Crash, SetSystemState, Entered, TypeOK
    <3>2. UNCHANGED <<opc, req>>
      BY <2>2 DEF WorkerStep, EnsureRollout, Unblock, Reread, CreateRun, Block, Confirm,
         Promote, WriteBid, FinishWrites, Crash
    <3>3. ASSUME NEW v \in Workers, wpc'[v] = "promote" PROVE ~EarnsLive(rec'[v])
      <4>1. CASE v # w
        <5>1. wpc'[v] = wpc[v] /\ rec'[v] = rec[v]
          BY <1>1, <2>2, <4>1 DEF WorkerStep, EnsureRollout, Unblock, Reread, CreateRun, Block,
             Confirm, Promote, WriteBid, FinishWrites, Crash, EndEvaluation, GotoW, TypeOK
        <5> QED BY <2>0, <3>3, <5>1
      <4>2. CASE v = w
        <5>1. Confirm(w)
          BY <1>1, <2>2, <3>3, <4>2 DEF WorkerStep, EnsureRollout, Unblock, Reread, CreateRun,
             Block, Promote, WriteBid, FinishWrites, Crash, EndEvaluation, GotoW, TypeOK
        <5>2. rec' = rec
          BY <5>1 DEF Confirm
        <5>3. ~(rec[w].ok /\ rec[w].rollout.state = "shadow_validating")
          BY <2>2, <5>1 DEF Confirm
        <5> QED BY <4>2, <5>2, <5>3 DEF EarnsLive
      <4> QED BY <4>1, <4>2
    <3> QED BY <1>1, <2>0, <3>1, <3>2, <3>3 DEF TestedInv, NeverLiveUntested
  <2>3. ASSUME NEW o \in Operators, OperatorStep(o) PROVE TestedInv'
    <3>1. UNCHANGED <<wpc, rec>>
      BY <2>3 DEF OperatorStep, ReadCurrent, UpdateRollout
    <3>2. row'.state # "live"
      <4>1. CASE \E mode \in Modes, hold \in BOOLEAN : ReadCurrent(o, mode, hold)
        BY <2>0, <4>1 DEF ReadCurrent
      <4>2. CASE UpdateRollout(o)
        <5>1. RequestedState(req[o]) # "live"
          BY <2>0, <4>2 DEF UpdateRollout, RequestedState
        <5> QED BY <1>1, <4>2, <5>1, UpdatedState
      <4> QED BY <2>3, <4>1, <4>2 DEF OperatorStep
    <3>3. \A p \in Operators : opc'[p] = "write" => req'[p].state # "live"
      BY <1>1, <2>0, <2>3 DEF OperatorStep, ReadCurrent, UpdateRollout, NoReq, TypeOK
    <3> QED BY <1>1, <2>0, <3>1, <3>2, <3>3 DEF TestedInv, NeverLiveUntested
  <2>4. CASE evaluated' # {}
    BY <1>1, <2>4 DEF TestedInv, NeverLiveUntested
  <2> QED BY <2>1, <2>2, <2>3, <2>4 DEF Next
<1> QED BY <1>2, <1>3

\* No binding is live before an evaluation of it went through in shadow.
THEOREM TestedBeforeLive == Spec => []NeverLiveUntested
<1>1. TestedInv => NeverLiveUntested
  BY DEF TestedInv
<1> QED BY <1>1, InitTested, NextTested, PTL DEF Spec

-----------------------------------------------------------------------------
\* The room a worker has left for late writes: none were made by one that read
\* the live state and has not begun to write, and one that writes made at most
\* as many late writes as it made writes.
LateRoom(w) ==
    /\ late[w] <= Targets
    /\ wpc[w] = "create" /\ rec[w].rollout.state = "live" => late[w] = 0
    /\ wpc[w] = "evaluate" /\ rec[w].apply => late[w] <= rec[w].n

LateInv ==
    /\ TypeOK
    /\ \A w \in Workers : rec[w].n <= Targets
    /\ row.state = "manual_hold" => \A w \in Workers : LateRoom(w)

LEMMA InitLate == Init => LateInv
<1> SUFFICES ASSUME Init PROVE LateInv
  OBVIOUS
<1>1. Targets \in Nat
  BY CountsAssumption
<1> QED BY <1>1, InitType DEF LateInv, Init, NoRec

\* A worker neither sets a hold nor changes another worker's locals.
LEMMA WorkerLocal ==
    ASSUME TypeOK, NEW w \in Workers, WorkerStep(w)
    PROVE  /\ row'.state = "manual_hold" => row.state = "manual_hold"
           /\ \A v \in Workers \ {w} :
                wpc'[v] = wpc[v] /\ rec'[v] = rec[v] /\ late'[v] = late[v]
<1>1. row'.state = "manual_hold" => row.state = "manual_hold"
  BY DEF WorkerStep, EnsureRollout, Unblock, Reread, CreateRun, Block, Confirm, Promote,
     WriteBid, FinishWrites, Crash, SetSystemState, Entered, TypeOK
<1>2. ASSUME NEW v \in Workers \ {w}
      PROVE  wpc'[v] = wpc[v] /\ rec'[v] = rec[v] /\ late'[v] = late[v]
  BY DEF WorkerStep, EnsureRollout, Unblock, Reread, CreateRun, Block, Confirm, Promote,
     WriteBid, FinishWrites, Crash, EndEvaluation, GotoW, TypeOK
<1> QED BY <1>1, <1>2

LEMMA NextLate == ASSUME LateInv, [Next]_vars PROVE LateInv'
<1>1. TypeOK /\ TypeOK' /\ Targets \in Nat
  BY NextType, CountsAssumption DEF LateInv
<1>2. CASE UNCHANGED vars
  BY <1>1, <1>2 DEF vars, LateInv, LateRoom
<1>3. ASSUME NEW w \in Workers, WorkerStep(w) PROVE LateInv'
  <2>1. /\ row'.state = "manual_hold" => row.state = "manual_hold"
        /\ \A v \in Workers \ {w} :
             wpc'[v] = wpc[v] /\ rec'[v] = rec[v] /\ late'[v] = late[v]
    BY <1>1, <1>3, WorkerLocal
  <2>2. /\ rec[w].n <= Targets /\ rec[w].n \in Nat /\ late[w] \in Nat
        /\ row.state = "manual_hold" => LateRoom(w)
    BY <1>1 DEF LateInv, TypeOK
  <2>3. rec'[w].n <= Targets /\ (row.state = "manual_hold" => LateRoom(w)')
    <3> USE <1>1, <2>2 DEF LateRoom, TypeOK
    <3>1. CASE EnsureRollout(w)
      BY <3>1 DEF EnsureRollout, GotoW
    <3>2. CASE Unblock(w)
      BY <3>2 DEF Unblock, GotoW
    <3>3. CASE Reread(w)
      <4>1. PICK r \in {row, NoRow} : rec' = [rec EXCEPT ![w].rollout = r]
        BY <3>3 DEF Reread
      <4>2. rec'[w].n = rec[w].n /\ rec'[w].rollout = r
        BY <4>1
      <4>3. row.state = "manual_hold" => r.state # "live"
        BY DEF NoRow
      <4>4. wpc'[w] = "create" /\ late' = late
        BY <3>3 DEF Reread, GotoW
      <4> QED BY <4>2, <4>3, <4>4
    <3>4. CASE \E allowed \in BOOLEAN : CreateRun(w, allowed)
      <4>1. /\ rec'[w].n = rec[w].n
            /\ rec'[w].apply => rec[w].rollout.state = "live"
        <5>1. PICK allowed \in BOOLEAN, ok \in BOOLEAN :
                rec' = [rec EXCEPT ![w] =
                          [@ EXCEPT !.apply = MayApply(allowed, rec[w].rollout), !.ok = ok]]
          BY <3>4 DEF CreateRun
        <5>2. rec'[w] = [rec[w] EXCEPT !.apply = MayApply(allowed, rec[w].rollout), !.ok = ok]
          BY <5>1
        <5>3. rec'[w].n = rec[w].n /\ rec'[w].apply = MayApply(allowed, rec[w].rollout)
          BY <5>2
        <5> QED BY <5>3 DEF MayApply
      <4>2. wpc[w] = "create" /\ wpc'[w] = "evaluate" /\ late' = late
        BY <3>4 DEF CreateRun, GotoW
      <4> QED BY <4>1, <4>2
    <3>5. CASE \E mark \in BOOLEAN : Block(w, mark)
      BY <3>5 DEF Block, EndEvaluation, GotoW, NoRec
    <3>6. CASE Confirm(w)
      BY <3>6 DEF Confirm, GotoW
    <3>7. CASE Promote(w)
      BY <3>7 DEF Promote, EndEvaluation, GotoW, NoRec
    <3>8. CASE WriteBid(w)
      BY <3>8 DEF WriteBid
    <3>9. CASE FinishWrites(w)
      BY <3>9 DEF FinishWrites, EndEvaluation, GotoW, NoRec
    <3>10. CASE Crash(w)
      BY <3>10 DEF Crash, EndEvaluation, GotoW, NoRec
    <3> QED BY <1>3, <3>1, <3>2, <3>3, <3>4, <3>5, <3>6, <3>7, <3>8, <3>9, <3>10 DEF WorkerStep
  <2> QED BY <1>1, <2>1, <2>3 DEF LateInv, LateRoom
<1>4. ASSUME NEW o \in Operators, OperatorStep(o) PROVE LateInv'
  <2>1. CASE \E mode \in Modes, hold \in BOOLEAN : ReadCurrent(o, mode, hold)
    BY <1>1, <2>1 DEF ReadCurrent, LateInv, LateRoom
  <2>2. CASE UpdateRollout(o)
    <3>1. UNCHANGED <<wpc, rec>>
      BY <2>2 DEF UpdateRollout
    <3>2. CASE row'.state = "manual_hold" /\ row.state # "manual_hold"
      <4>1. \A v \in Workers : late'[v] = 0 /\ rec[v].n \in Nat
        BY <1>1, <2>2, <3>2 DEF UpdateRollout, TypeOK
      <4> QED BY <1>1, <3>1, <4>1 DEF LateInv, LateRoom
    <3>3. CASE ~(row'.state = "manual_hold" /\ row.state # "manual_hold")
      <4>1. late' = late
        BY <2>2, <3>3 DEF UpdateRollout
      <4> QED BY <1>1, <3>1, <3>3, <4>1 DEF LateInv, LateRoom
    <3> QED BY <3>2, <3>3
  <2> QED BY <1>4, <2>1, <2>2 DEF OperatorStep
<1> QED BY <1>2, <1>3, <1>4 DEF Next

\* A hold does not stop an evaluation that has read the live state; it writes
\* at most the targets of its binding once, however the steps interleave.
THEOREM LateWritesAreBounded == Spec => []LateWritesBounded
<1>1. LateInv => LateWritesBounded
  BY DEF LateInv, LateRoom, LateWritesBounded
<1> QED BY <1>1, InitLate, NextLate, PTL DEF Spec
=============================================================================
