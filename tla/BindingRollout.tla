--------------------------- MODULE BindingRollout ---------------------------
(***************************************************************************)
(* The rollout of one strategy binding: may automation write bids for it,  *)
(* or does it only record what it would do?  A row of                      *)
(* strategy_binding_rollouts holds the mode the operator wants and the     *)
(* state the binding is in.  Operators change the row through the API,     *)
(* workers through the evaluation recorder, each with several statements   *)
(* that no transaction holds together.                                     *)
(*                                                                         *)
(* One binding is modelled: every statement, also those of                 *)
(* UpdateStrategyRollout's loop, touches the row of one binding only.      *)
(***************************************************************************)
EXTENDS Naturals, FiniteSets

CONSTANTS
    Workers,        \* worker processes evaluating the binding
    Operators,      \* API requests under way at the same time
    Targets,        \* bid targets of the binding: 1, or its clusters
    MaxRequests,    \* bound: rollout updates requested
    MaxPeriods,     \* bound: validation periods started
    MaxFaults       \* bound: crashes and failed statements

ASSUME CountsAssumption ==
    {Targets, MaxRequests, MaxPeriods, MaxFaults} \subseteq Nat

VARIABLES
    row,         \* the rollout row; period stands for validation_started_at
    wpc,         \* control state of every worker
    rec,         \* locals of a worker's binding evaluation
    opc,         \* control state of every API request
    req,         \* its input, and the state it has read
    runs,        \* completed shadow evaluations stored: the periods they saw
    requests,    \* updates written so far
    faults,
    evaluated,   \* history: periods in which a shadow cycle was confirmed
    late         \* history: writes of a worker since the hold was set

vars == <<row, wpc, rec, opc, req, runs, requests, faults, evaluated, late>>

Modes  == {"live", "shadow"}
States == {"shadow_validating", "live", "blocked", "manual_hold"}

\* What rolloutFromRow makes of a row that could not be read.
NoRow == [mode |-> "none", state |-> "none", period |-> 0]

\* rollout: the row as read; apply: may the evaluation write; ok: the
\* evaluation run was stored (otherwise the recorder is nil); n: writes made.
NoRec == [rollout |-> NoRow, apply |-> FALSE, ok |-> FALSE, n |-> 0]
NoReq == [mode |-> "none", hold |-> FALSE, state |-> "none"]

Init ==
    /\ row \in [mode : Modes, state : {"shadow_validating"}, period : {1}]
    /\ wpc = [w \in Workers |-> "idle"]
    /\ rec = [w \in Workers |-> NoRec]
    /\ opc = [o \in Operators |-> "idle"]
    /\ req = [o \in Operators |-> NoReq]
    /\ runs = {}
    /\ requests = 0
    /\ faults = 0
    /\ evaluated = {}
    /\ late = [w \in Workers |-> 0]

\* state := s; entering shadow_validating starts a new validation period.
Entered(s) ==
    [row EXCEPT !.state = s,
                !.period = IF s = "shadow_validating" /\ row.state # s
                           THEN @ + 1 ELSE @]

\* Slip: the WHERE clause does not protect a manual hold.
SetSystemStateAlways(s) == row' = Entered(s)

\* SetStrategyBindingRolloutSystemState: WHERE state <> 'manual_hold'
SetSystemState(s) ==
    row' = IF row.state = "manual_hold" THEN row ELSE Entered(s)

Fault == faults < MaxFaults /\ faults' = faults + 1

GotoW(w, to) == wpc' = [wpc EXCEPT ![w] = to]

EndEvaluation(w) ==
    /\ GotoW(w, "idle")
    /\ rec' = [rec EXCEPT ![w] = NoRec]

-----------------------------------------------------------------------------
(* A worker: beginBindingEvaluation, then the evaluation.                  *)

\* Slip: a blocked binding stays blocked.
NeedsUnblockNever(rollout) == FALSE

\* A blocked binding is evaluated again when live is wanted.
NeedsUnblock(rollout) == rollout.state = "blocked" /\ rollout.mode = "live"

\* A failed read leaves neither a recorder nor apply: no effect on the row.
EnsureRollout(w) ==
    /\ wpc[w] = "idle"
    /\ row.period < MaxPeriods
    /\ rec' = [rec EXCEPT ![w].rollout = row]
    /\ GotoW(w, IF NeedsUnblock(row) THEN "unblock" ELSE "create")
    /\ UNCHANGED <<row, opc, req, runs, requests, faults, evaluated, late>>

\* Its error is ignored.
Unblock(w) ==
    /\ wpc[w] = "unblock"
    /\ \/ SetSystemState("shadow_validating") /\ UNCHANGED faults
       \/ Fault /\ UNCHANGED row
    /\ GotoW(w, "reread")
    /\ UNCHANGED <<rec, opc, req, runs, requests, evaluated, late>>

Reread(w) ==
    /\ wpc[w] = "reread"
    /\ \/ rec' = [rec EXCEPT ![w].rollout = row] /\ UNCHANGED faults
       \/ Fault /\ rec' = [rec EXCEPT ![w].rollout = NoRow]
    /\ GotoW(w, "create")
    /\ UNCHANGED <<row, opc, req, runs, requests, evaluated, late>>

\* Slip: a live strategy is enough to write.
MayApplyAlways(allowed, rollout) == allowed

MayApply(allowed, rollout) == allowed /\ rollout.state = "live"

\* An evaluation run that cannot be stored leaves no recorder, but apply stays.
CreateRun(w, allowed) ==
    /\ wpc[w] = "create"
    /\ \E ok \in BOOLEAN :
         /\ IF ok THEN UNCHANGED faults ELSE Fault
         /\ rec' = [rec EXCEPT ![w] =
                       [@ EXCEPT !.apply = MayApply(allowed, rec[w].rollout), !.ok = ok]]
    /\ GotoW(w, "evaluate")
    /\ UNCHANGED <<row, opc, req, runs, requests, evaluated, late>>

\* block(..., markRollout): the rollout state of a binding that shall go live
\* becomes blocked; other bindings keep it, and so do refusals that do not
\* mark, a failed statement (its error is ignored), and the guards that leave
\* the loop without closing the run.
Block(w, mark) ==
    /\ wpc[w] = "evaluate"
    /\ IF /\ mark
          /\ rec[w].ok
          /\ rec[w].rollout.mode = "live"
          /\ rec[w].rollout.state # "manual_hold"
       THEN SetSystemState("blocked") ELSE UNCHANGED row
    /\ EndEvaluation(w)
    /\ UNCHANGED <<opc, req, runs, requests, faults, evaluated, late>>

\* readyNoChange / shadowDecision: finish the run (an error is only logged),
\* then go on to promoteAfterValidation.
Confirm(w) ==
    LET seen == IF rec[w].ok /\ rec[w].rollout.state = "shadow_validating"
                THEN {rec[w].rollout.period} ELSE {}
    IN  /\ wpc[w] = "evaluate"
        /\ rec[w].n = 0
        /\ evaluated' = evaluated \cup seen
        /\ \/ runs' = runs \cup seen /\ UNCHANGED faults
           \/ Fault /\ UNCHANGED runs
        /\ GotoW(w, "promote")
        /\ UNCHANGED <<row, rec, opc, req, requests, late>>

EarnsLive(r) == /\ r.ok
                /\ r.rollout.mode = "live"
                /\ r.rollout.state = "shadow_validating"

Promote(w) ==
    /\ wpc[w] = "promote"
    /\ IF EarnsLive(rec[w])
       THEN \/ SetSystemState("live") /\ UNCHANGED faults
            \/ Fault /\ UNCHANGED row
       ELSE UNCHANGED <<row, faults>>
    /\ EndEvaluation(w)
    /\ UNCHANGED <<opc, req, runs, requests, evaluated, late>>

\* One bid write; the rollout is not read again before it.
WriteBid(w) ==
    /\ wpc[w] = "evaluate"
    /\ rec[w].apply
    /\ rec[w].n < Targets
    /\ rec' = [rec EXCEPT ![w].n = @ + 1]
    /\ late' = IF row.state = "manual_hold" THEN [late EXCEPT ![w] = @ + 1] ELSE late
    /\ UNCHANGED <<row, wpc, opc, req, runs, requests, faults, evaluated>>

\* finish(applied | failed | unknown)
FinishWrites(w) ==
    /\ wpc[w] = "evaluate"
    /\ rec[w].n > 0
    /\ EndEvaluation(w)
    /\ UNCHANGED <<row, opc, req, runs, requests, faults, evaluated, late>>

Crash(w) ==
    /\ wpc[w] # "idle"
    /\ Fault
    /\ EndEvaluation(w)
    /\ UNCHANGED <<row, opc, req, runs, requests, evaluated, late>>

-----------------------------------------------------------------------------
(* An operator: UpdateBindingRollout reads the row, then writes it.        *)

ReadCurrent(o, mode, hold) ==
    /\ opc[o] = "idle"
    /\ requests < MaxRequests
    /\ requests' = requests + 1
    /\ row.period < MaxPeriods
    /\ opc' = [opc EXCEPT ![o] = "write"]
    /\ req' = [req EXCEPT ![o] = [mode |-> mode, hold |-> hold, state |-> row.state]]
    /\ UNCHANGED <<row, wpc, rec, runs, faults, evaluated, late>>

\* Slip: a requested live rollout is live at once.
RequestedStateAtOnce(r) ==
    CASE r.hold          -> "manual_hold"
      [] r.mode = "live" -> "live"
      [] OTHER           -> "shadow_validating"

\* validateStrategyRolloutUpdate, and the idempotent re-save of a live one.
RequestedState(r) ==
    CASE r.hold                                -> "manual_hold"
      [] r.mode = "live" /\ r.state = "live"   -> "live"
      [] OTHER                                 -> "shadow_validating"

UpdateRollout(o) ==
    /\ opc[o] = "write"
    /\ opc' = [opc EXCEPT ![o] = "idle"]
    /\ req' = [req EXCEPT ![o] = NoReq]
    /\ row' = [Entered(RequestedState(req[o])) EXCEPT !.mode = req[o].mode]
    /\ late' = IF row'.state = "manual_hold" /\ row.state # "manual_hold"
               THEN [w \in Workers |-> 0] ELSE late
    /\ UNCHANGED <<wpc, rec, runs, requests, faults, evaluated>>

-----------------------------------------------------------------------------
WorkerStep(w) ==
    \/ EnsureRollout(w) \/ Unblock(w) \/ Reread(w)
    \/ \E allowed \in BOOLEAN : CreateRun(w, allowed)
    \/ \E mark \in BOOLEAN : Block(w, mark)
    \/ Confirm(w) \/ Promote(w) \/ WriteBid(w) \/ FinishWrites(w)
    \/ Crash(w)

OperatorStep(o) ==
    \/ \E mode \in Modes, hold \in BOOLEAN : ReadCurrent(o, mode, hold)
    \/ UpdateRollout(o)

Next == \/ \E w \in Workers : WorkerStep(w)
        \/ \E o \in Operators : OperatorStep(o)

Spec == Init /\ [][Next]_vars

\* Bid runs are scheduled again and again and a started one goes on; a request
\* is answered; and the data of the binding is not for ever such that every
\* evaluation in shadow is refused.
Fairness ==
    /\ \A w \in Workers :
         /\ WF_vars(EnsureRollout(w)) /\ WF_vars(Unblock(w)) /\ WF_vars(Reread(w))
         /\ WF_vars(\E allowed \in BOOLEAN : CreateRun(w, allowed))
         /\ WF_vars(Block(w, FALSE)) /\ WF_vars(Promote(w)) /\ WF_vars(FinishWrites(w))
         /\ SF_vars(Confirm(w) /\ rec[w].rollout.state = "shadow_validating")
    /\ \A o \in Operators : WF_vars(UpdateRollout(o))

FairSpec == Spec /\ Fairness

-----------------------------------------------------------------------------
RowType == [mode : Modes \cup {"none"}, state : States \cup {"none"}, period : Nat]

\* Type invariant of the row, the evaluations and the requests.
TypeOK ==
    /\ row \in [mode : Modes, state : States, period : Nat]
    /\ wpc \in [Workers -> {"idle", "unblock", "reread", "create", "evaluate", "promote"}]
    /\ rec \in [Workers -> [rollout : RowType, apply : BOOLEAN, ok : BOOLEAN, n : Nat]]
    /\ opc \in [Operators -> {"idle", "write"}]
    /\ req \in [Operators -> [mode : Modes \cup {"none"}, hold : BOOLEAN,
                              state : States \cup {"none"}]]
    /\ \A o \in Operators : opc[o] = "write" => req[o].mode \in Modes
    /\ runs \subseteq Nat /\ evaluated \subseteq Nat
    /\ requests \in Nat /\ faults \in Nat
    /\ late \in [Workers -> Nat]

\* A manual hold ends only by an operator's update: no evaluation that began
\* before it, however late its block or promotion arrives, takes it away.
HoldSticks ==
    [][row.state = "manual_hold" /\ row'.state # "manual_hold"
         => \E o \in Operators : opc[o] = "write" /\ opc'[o] = "idle"]_vars

\* No binding is live before one evaluation of it went through in shadow,
\* whatever the order of requests and of late workers.
NeverLiveUntested == row.state = "live" => evaluated # {}

\* A hold lets every worker finish the evaluation it is in, no more: at most
\* the targets of one binding are written after it.
LateWritesBounded ==
    row.state = "manual_hold" => \A w \in Workers : late[w] <= Targets

\* A binding that shall be live, and is not held, is live again and again:
\* blocks of earlier evaluations do not wedge it.
LiveInTheEnd ==
    <>[](row.mode = "live" /\ row.state # "manual_hold" /\ row.period < MaxPeriods)
        => []<>(row.state = "live")
=============================================================================
