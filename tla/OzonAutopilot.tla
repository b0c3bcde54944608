---------------------------- MODULE OzonAutopilot ----------------------------
(***************************************************************************)
(* The AI autopilot of one Ozon cabinet.  A run asks a language model for  *)
(* a plan and executes it at the level of the strategy: level 1 only       *)
(* records the steps, level 2 leaves them as proposals for a person, level *)
(* 3 writes them to Ozon.  People approve and reject proposals and switch  *)
(* campaigns by hand.  Everything that writes to Ozon holds the advisory   *)
(* lock of the cabinet; the rows it stores are committed on their own, so  *)
(* a process that dies leaves them as they are.  Strategies are edited,    *)
(* proposals expire and campaigns are synchronised without the lock.       *)
(*                                                                         *)
(* The clock is abstract: rows and events grow old, and a new day begins,  *)
(* at any time.                                                            *)
(***************************************************************************)
EXTENDS Naturals, Sequences, FiniteSets

CONSTANTS
    Workers,          \* processes that execute ozon:ai_run tasks
    Users,            \* API requests running at the same time
    Camps,            \* campaigns (and goods) a step can be about
    None,
    Levels,           \* automation levels a strategy may have, 0 when none is active
    Plans,            \* what the language model may submit: sequences of steps
    MaxRuns,          \* bound: rows of ai_runs
    MaxSteps,         \* bound: steps of a plan
    MaxDecisions,     \* bound: rows of ai_decisions
    MaxStrategies,    \* bound: strategies that replace one another
    MaxMishaps,       \* bound: deaths, lost answers, failed statements, edits of the strategy
    MaxActionsPerDay, \* strategy parameter, 0 for no limit
    MaxChangesPerDay  \* strategy parameter, 0 for no limit

Procs == Workers \cup Users
RunIds == 1 .. MaxRuns
Ids == RunIds \X (1 .. MaxSteps)

StateKinds == {"campaign_pause", "campaign_activate"}
CPOKinds == {"cpo_enable", "cpo_disable"}
\* Writes Ozon meters: a 429 on one of them is a QuotaError.
MeteredKinds == {"bid_change", "budget_change"}
Kinds == StateKinds \cup CPOKinds \cup MeteredKinds

Steps == [kind : Kinds, camp : Camps]

ASSUME NamesAssumption ==
    /\ Workers \cap Users = {}
    /\ None \notin Procs

ASSUME BoundsAssumption ==
    /\ {MaxRuns, MaxSteps, MaxDecisions, MaxStrategies, MaxMishaps, MaxActionsPerDay, MaxChangesPerDay} \subseteq Nat
    /\ MaxStrategies > 0

ASSUME LevelsAssumption == Levels \subseteq 0 .. 3

ASSUME PlansAssumption ==
    \A plan \in Plans : plan \in Seq(Steps) /\ Len(plan) <= MaxSteps

VARIABLES
    strategy, \* the active strategy: [id, level]
    runs,     \* ai_runs: [status, strategy]; completed, failed, skipped and running for more
              \* than an hour are one status, "finished": no step tells them apart
    rows,     \* ai_decisions; the identifier is the run and the place in its execution order
    ozon,     \* campaigns running on Ozon
    mirror,   \* campaigns running in the mirror of the service
    listed,   \* campaigns running in the list a sync in progress has read
    aiPause,  \* the newest state event of a campaign is a pause by the AI: "no", "fresh", or
              \* "repaired", observed long enough and followed by a change of a bid or budget
    lock,     \* holder of the execution lock
    pc, loc,  \* control state and locals of every process
    mishaps,  \* how much of MaxMishaps is used
    held,     \* history: campaigns a person paused, was told so, and nobody switched on again;
              \* without those a sync has since mirrored from an older list
    overtaken \* history: the strategy changed while the lock was held

site == <<ozon, mirror, listed, aiPause, held>>
vars == <<strategy, runs, rows, site, lock, pc, loc, mishaps, overtaken>>

\* Statuses nothing leaves again, and statuses that count as a write.
Applied == {"applied", "auto_applied"}
Final == Applied \cup {"shadow", "rejected_by_guardrail", "rejected_by_user", "failed", "expired"}
Counted == Applied \cup {"approved"}

NoStep == [kind |-> "none", camp |-> None]

\* own: its guard rejected the step; auto: inserted as a claim of the autopilot;
\* today: it was applied, or else proposed, today;
\* History: writes, how often Ozon carried it out; masked, how often it did and a
\* quota error hid it.
NoRow == [step |-> NoStep, status |-> "none", own |-> FALSE, auto |-> FALSE, today |-> FALSE,
          writes |-> 0, masked |-> 0]

\* The locals of a process: job; run, its run; plan, steps still to be executed, with the verdict of their guard; bad, the
\* plan is not to be executed; stopped, a step failed; level, of the reloaded
\* strategy; row, the decision in hand; step, the command for Ozon; result, its
\* outcome.
Idle == [job |-> "none", run |-> 0, plan |-> <<>>, bad |-> FALSE, stopped |-> FALSE,
         level |-> 0, row |-> <<0, 0>>, step |-> NoStep, result |-> "none"]

Goto(p, l, new) ==
    /\ pc' = [pc EXCEPT ![p] = l]
    /\ loc' = [loc EXCEPT ![p] = new]

Mishap == mishaps < MaxMishaps /\ mishaps' = mishaps + 1

\* The deferred rollback of WithOzonAIExecutionLock.
Release == lock' = None /\ overtaken' = FALSE

Init ==
    /\ strategy \in [id : {1}, level : Levels \ {0}]
    /\ runs = [r \in RunIds |-> [status |-> "none", strategy |-> 0]]
    /\ rows = [d \in Ids |-> NoRow]
    /\ ozon \in SUBSET Camps /\ mirror = ozon /\ listed = ozon
    /\ aiPause = [c \in Camps |-> "no"]
    /\ held = {}
    /\ lock = None
    /\ pc = [p \in Procs |-> "idle"]
    /\ loc = [p \in Procs |-> Idle]
    /\ mishaps = 0
    /\ overtaken = FALSE

-----------------------------------------------------------------------------
(* Guards.                                                                 *)

\* aiProposalTargetKey: opposite state changes have one target.
Class(kind) ==
    IF kind \in StateKinds THEN "campaign_state" ELSE IF kind \in CPOKinds THEN "cpo_state" ELSE kind

SameTarget(s, t) == Class(s.kind) = Class(t.kind) /\ s.camp = t.camp

\* GetAIDecisionExecutionGuardState: claimed and applied decisions of the
\* target, without the one under review.
History(s, self) ==
    {d \in Ids \ {self} : rows[d].status \in Counted /\ SameTarget(rows[d].step, s)}

\* COALESCE(applied_at, created_at): a claimed row counts for the day it was
\* proposed.
LimitReached(s, self) ==
    /\ MaxChangesPerDay > 0
    /\ Cardinality({d \in History(s, self) : rows[d].today}) >= MaxChangesPerDay

\* activationObservationReason: the newest state change known to the service is
\* a pause by the AI, it was observed long enough and something was repaired.
MayReactivate(c) == aiPause[c] = "repaired"

\* Guards that depend on what is modelled: the state of the campaign and, on
\* level 3, whose pause it was.
StateForbids(s, level) ==
    \/ s.kind = "campaign_pause" /\ s.camp \notin mirror
    \/ s.kind = "campaign_activate" /\ (s.camp \in mirror \/ (level >= 3 /\ ~MayReactivate(s.camp)))

\* What evaluateProposal may answer: "" for a pass, "final" for a reason that
\* ends a proposal and "transient" for the daily limit and the cooldown.  Prices,
\* statistics and economics may reject anything; the cooldown needs a change of
\* the target, for bids also one of another strategy.
Verdicts(s, self, level) ==
    IF StateForbids(s, level) THEN {"final"}
    ELSE {"final"}
         \cup (IF History(s, self) # {} \/ s.kind = "bid_change" THEN {"transient"} ELSE {})
         \cup (IF LimitReached(s, self) THEN {} ELSE {""})

\* CountAppliedAIActionsToday
AppliedToday == {d \in Ids : rows[d].status \in Applied /\ rows[d].today}

\* Slip: the comparison is off by one.
CapReachedLate(extra) ==
    MaxActionsPerDay > 0 /\ Cardinality(AppliedToday) > MaxActionsPerDay

CapReached(extra) ==
    MaxActionsPerDay > 0 /\ Cardinality(AppliedToday) + extra > MaxActionsPerDay

-----------------------------------------------------------------------------
(* A run: planning.                                                        *)

\* RunForCabinet finds no live run of the cabinet and inserts its own.  The two
\* statements are one step here: a second run that starts beside a live one is also
\* what ExpireRun allows.  The gap of two hours between runs does not bind the ones
\* started by hand, so it is left out.
StartRun(w) ==
    /\ pc[w] = "idle"
    /\ strategy.level > 0
    /\ \A r \in RunIds : runs[r].status # "running"
    /\ \E r \in RunIds :
         /\ runs[r].status = "none" /\ \A q \in RunIds : q < r => runs[q].status # "none"
         /\ runs' = [runs EXCEPT ![r] = [status |-> "running", strategy |-> strategy.id]]
         /\ Goto(w, "plan", [Idle EXCEPT !.job = "run", !.run = r, !.row = <<r, 0>>])
    /\ UNCHANGED <<strategy, rows, site, lock, mishaps, overtaken>>

\* FinishAIRun does not look at the status it overwrites.
FinishRun(w) ==
    /\ runs' = [runs EXCEPT ![loc[w].run].status = "finished"]
    /\ Goto(w, "idle", Idle)

\* execute: the model answers with an error.
PlanFails(w) ==
    /\ pc[w] = "plan"
    /\ FinishRun(w)
    /\ UNCHANGED <<strategy, rows, site, lock, mishaps, overtaken>>

-----------------------------------------------------------------------------
(* A run: executing the plan under the lock.                               *)

aiExecutionStage(s) ==
    IF s.kind \in StateKinds THEN 2 ELSE IF s.kind = "cpo_enable" THEN 1 ELSE 0

\* The order of execution: by stage, and within a stage as the plan has it.
InOrder(plan, order) ==
    \A i, j \in DOMAIN plan :
        i < j => LET a == aiExecutionStage(plan[order[i]])
                     b == aiExecutionStage(plan[order[j]])
                 IN  a < b \/ (a = b /\ order[i] < order[j])

\* A second step for a target is rejected without being evaluated.
Repeats(plan, i) == \E j \in 1 .. i - 1 : SameTarget(plan[j], plan[i])

\* The plan in its order, with the verdict of every guard.
Judged(plan, verdict, order) ==
    [i \in 1 .. Len(plan) |-> [kind |-> plan[order[i]].kind, camp |-> plan[order[i]].camp,
                               own |-> verdict[order[i]] # ""]]

\* executeAISubmission: the lock is free, the strategy is gone or another one.
PlanVoid(w) ==
    /\ pc[w] = "plan" /\ lock = None
    /\ strategy.level = 0 \/ strategy.id # runs[loc[w].run].strategy
    /\ FinishRun(w)
    /\ UNCHANGED <<strategy, rows, site, lock, mishaps, overtaken>>

Room == MaxDecisions - Cardinality({d \in Ids : rows[d].status # "none"})

\* The model has answered with a plan: the run takes the lock, reads the strategy
\* again and evaluates the whole plan before its first step.
Execute(w) ==
    /\ pc[w] = "plan" /\ lock = None
    /\ strategy.level > 0 /\ strategy.id = runs[loc[w].run].strategy
    /\ lock' = w
    /\ \E plan \in Plans :
       \E verdict \in [1 .. Len(plan) -> {"", "final", "transient"}], order \in [1 .. Len(plan) -> 1 .. Len(plan)] :
         /\ Len(plan) <= Room /\ InOrder(plan, order)
         /\ \A i \in 1 .. Len(plan) :
              verdict[i] \in IF Repeats(plan, i) THEN {"final"}
                             ELSE Verdicts(plan[i], <<0, 0>>, strategy.level)
         /\ Goto(w, "step", [loc[w] EXCEPT
                !.plan = Judged(plan, verdict, order),
                !.bad = \/ \E i \in 1 .. Len(plan) : verdict[i] # ""
                        \/ strategy.level >= 3 /\ CapReached(Len(plan)),
                !.level = strategy.level])
    /\ UNCHANGED <<strategy, runs, rows, site, mishaps, overtaken>>

\* aiDecisionStatusFor, with the claim a level 3 step is inserted as.
InsertStatus(rejected, level) ==
    IF level <= 1 THEN "shadow"
    ELSE IF rejected THEN "rejected_by_guardrail"
    ELSE IF level = 2 THEN "proposed" ELSE "approved"

\* What applyProposal may find before it calls Ozon: the cap of the cabinet, the
\* share of the quota, the minimum bid, the live price of CPO, a failed lookup.
BeforeCall(s) ==
    IF CapReached(1) THEN {"transient"}
    ELSE {"call", "error"}
         \cup (IF s.kind \in MeteredKinds THEN {"transient"} ELSE {})
         \cup (IF s.kind \in {"bid_change", "cpo_enable"} THEN {"final"} ELSE {})

\* The process has claimed d for the command s and enters applyProposal.
Apply(p, d, s, new) ==
    \E res \in BeforeCall(s) :
        Goto(p, IF res = "call" THEN "call" ELSE "record", [new EXCEPT !.row = d, !.step = s, !.result = res])

\* processProposalWithVerdict, up to the first call of Ozon.
Step(w) ==
    LET s == Head(loc[w].plan)
        step == [kind |-> s.kind, camp |-> s.camp]
        d == <<loc[w].run, loc[w].row[2] + 1>>
        status == InsertStatus(s.own \/ loc[w].bad \/ loc[w].stopped, loc[w].level)
        new == [loc[w] EXCEPT !.plan = Tail(loc[w].plan)]
    IN  /\ pc[w] = "step" /\ loc[w].plan # <<>>
        /\ rows' = [rows EXCEPT ![d] = [NoRow EXCEPT !.step = step, !.status = status, !.own = s.own,
                                                     !.auto = status = "approved", !.today = status \in {"proposed", "approved"}]]
        /\ IF status = "approved" THEN Apply(w, d, step, new)
           ELSE Goto(w, "step", [new EXCEPT !.row = d,
                                            !.stopped = loc[w].stopped \/ status = "rejected_by_guardrail"])
        /\ UNCHANGED <<strategy, runs, site, lock, mishaps, overtaken>>

EndPlan(w) ==
    /\ pc[w] = "step" /\ loc[w].plan = <<>>
    /\ Release
    /\ FinishRun(w)
    /\ UNCHANGED <<strategy, rows, site, mishaps>>

-----------------------------------------------------------------------------
(* Requests of people: what they ask for is settled when they get the lock. *)

\* Slip: the update does not ask for the status it expects.
TransitionBlind(d, from, to) ==
    rows' = [rows EXCEPT ![d].status = to, ![d].today = IF to \in Final THEN to \in Applied ELSE @]

\* TransitionAIDecision
Transition(d, from, to) ==
    rows' = IF rows[d].status = from
            THEN [rows EXCEPT ![d].status = to,
                              ![d].today = IF to \in Final THEN to \in Applied ELSE @]
            ELSE rows

Leave(u) == Release /\ Goto(u, "idle", Idle)

\* rejectReviewedDecision: a cooldown, a limit or a quota keeps the proposal.
AfterVerdict(verdict) == IF verdict = "transient" THEN "proposed" ELSE "rejected_by_guardrail"

\* Slip: the strategy that made the proposal is not asked for.
ApproveUnderAny(u, d) ==
    /\ pc[u] = "idle" /\ lock = None
    /\ rows[d].status = "proposed" /\ strategy.level >= 2
    /\ \E verdict \in Verdicts(rows[d].step, d, strategy.level) :
         IF verdict = ""
         THEN /\ lock' = u /\ Goto(u, "claim", [Idle EXCEPT !.job = "approve", !.row = d])
              /\ UNCHANGED rows
         ELSE /\ Transition(d, "proposed", AfterVerdict(verdict))
              /\ UNCHANGED <<lock, pc, loc>>
    /\ UNCHANGED <<strategy, runs, site, mishaps, overtaken>>

\* ApproveDecision up to the claim: the proposal is still open, the strategy
\* that made it is active, and the guards are asked again.
Approve(u, d) ==
    /\ pc[u] = "idle" /\ lock = None
    /\ rows[d].status = "proposed"
    /\ strategy.id = runs[d[1]].strategy /\ strategy.level >= 2
    /\ \E verdict \in Verdicts(rows[d].step, d, strategy.level) :
         IF verdict = ""
         THEN /\ lock' = u /\ Goto(u, "claim", [Idle EXCEPT !.job = "approve", !.row = d])
              /\ UNCHANGED rows
         ELSE /\ Transition(d, "proposed", AfterVerdict(verdict))
              /\ UNCHANGED <<lock, pc, loc>>
    /\ UNCHANGED <<strategy, runs, site, mishaps, overtaken>>

\* The claim is committed before the write; a proposal that expired in between
\* is not claimed.
Claim(u) ==
    LET d == loc[u].row IN
    /\ pc[u] = "claim"
    /\ Transition(d, "proposed", "approved")
    /\ IF rows[d].status = "proposed"
       THEN Apply(u, d, rows[d].step, loc[u]) /\ UNCHANGED <<lock, overtaken>>
       ELSE Leave(u)
    /\ UNCHANGED <<strategy, runs, site, mishaps>>

\* RejectDecision
Reject(u, d) ==
    /\ pc[u] = "idle" /\ lock = None
    /\ rows[d].status = "proposed"
    /\ Transition(d, "proposed", "rejected_by_user")
    /\ UNCHANGED <<strategy, runs, site, lock, pc, loc, mishaps, overtaken>>

\* setCampaignState: a person switches a campaign.
Switch(u, s) ==
    /\ pc[u] = "idle" /\ lock = None
    /\ lock' = u
    /\ Goto(u, "call", [Idle EXCEPT !.job = "manual", !.step = s])
    /\ UNCHANGED <<strategy, runs, rows, site, mishaps, overtaken>>

-----------------------------------------------------------------------------
(* A command for Ozon.                                                     *)

\* What a campaign is after the command.
Effect(p) ==
    LET s == loc[p].step IN
    /\ ozon' = CASE s.kind = "campaign_pause" -> ozon \ {s.camp}
                 [] s.kind = "campaign_activate" -> ozon \cup {s.camp}
                 [] OTHER -> ozon
    /\ held' = IF s.kind = "campaign_activate" THEN held \ {s.camp} ELSE held

Written(p, hidden) ==
    rows' = IF loc[p].job = "manual" THEN rows
            ELSE [rows EXCEPT ![loc[p].row].writes = @ + 1, ![loc[p].row].masked = @ + hidden]

\* Ozon carries the command out and the answer arrives.
CallAccepted(p) ==
    /\ pc[p] = "call"
    /\ Effect(p) /\ Written(p, 0)
    /\ Goto(p, IF loc[p].step.kind \in StateKinds THEN "audit" ELSE "record", [loc[p] EXCEPT !.result = "ok"])
    /\ UNCHANGED <<strategy, runs, mirror, listed, aiPause, lock, mishaps, overtaken>>

\* An error, and Ozon has done nothing.
CallRefused(p) ==
    /\ pc[p] = "call"
    /\ Goto(p, "record", [loc[p] EXCEPT !.result = "error"])
    /\ UNCHANGED <<strategy, runs, rows, site, lock, mishaps, overtaken>>

\* doJSON answers a 429 on a metered write with a QuotaError.
CallOverQuota(p) ==
    /\ pc[p] = "call" /\ loc[p].step.kind \in MeteredKinds
    /\ Goto(p, "record", [loc[p] EXCEPT !.result = "transient"])
    /\ UNCHANGED <<strategy, runs, rows, site, lock, mishaps, overtaken>>

\* The command is carried out and every answer is lost; or the first one is, and
\* the retry of doJSON meets the quota.
CallLost(p) ==
    /\ pc[p] = "call" /\ Mishap
    /\ Effect(p)
    /\ \/ Written(p, 0) /\ Goto(p, "record", [loc[p] EXCEPT !.result = "error"])
       \/ /\ loc[p].step.kind \in MeteredKinds
          /\ Written(p, 1) /\ Goto(p, "record", [loc[p] EXCEPT !.result = "transient"])
    /\ UNCHANGED <<strategy, runs, mirror, listed, aiPause, lock, overtaken>>

\* The newest state event is now s, with its source.
StateEvent(s, source) ==
    aiPause' = [aiPause EXCEPT ![s.camp] =
                   IF s.kind = "campaign_pause" /\ source = "ai" THEN "fresh" ELSE "no"]

\* Slip: what a person does is recorded as the AI's.
SourceAlwaysAI(p) == "ai"

\* The callers of SetCampaignStateWithSource: an approved proposal is the AI's.
Source(p) == IF loc[p].job = "manual" THEN "manual" ELSE "ai"

\* The rest of SetCampaignStateWithSource: the audit row, then the mirror; a
\* failure of either is an error of the command.
Audit(p) ==
    LET s == loc[p].step IN
    /\ pc[p] = "audit"
    /\ \/ /\ StateEvent(s, Source(p))
          /\ mirror' = IF s.kind = "campaign_pause" THEN mirror \ {s.camp} ELSE mirror \cup {s.camp}
          /\ held' = IF s.kind = "campaign_pause" /\ loc[p].job = "manual" THEN held \cup {s.camp} ELSE held
          /\ Goto(p, "record", loc[p])
          /\ UNCHANGED mishaps
       \/ /\ Mishap
          /\ StateEvent(s, Source(p)) \/ UNCHANGED aiPause
          /\ Goto(p, "record", [loc[p] EXCEPT !.result = "error"])
          /\ UNCHANGED <<mirror, held>>
    /\ UNCHANGED <<strategy, runs, rows, ozon, listed, lock, overtaken>>

\* An applied decision about the state is a state event of its own.
Applies(s) == IF s.kind \in StateKinds THEN StateEvent(s, "ai") ELSE UNCHANGED aiPause

\* Slip: the plan goes on after a step that failed.
RecordStepGoesOn(w) ==
    LET to == CASE loc[w].result = "ok" -> "auto_applied"
                [] loc[w].result = "error" -> "failed"
                [] OTHER -> "rejected_by_guardrail"
    IN  /\ pc[w] = "record" /\ loc[w].job = "run"
        /\ Transition(loc[w].row, "approved", to)
        /\ IF to = "auto_applied" THEN Applies(loc[w].step) ELSE UNCHANGED aiPause
        /\ Goto(w, "step", [loc[w] EXCEPT !.step = NoStep, !.result = "none"])
        /\ UNCHANGED <<strategy, runs, ozon, mirror, listed, held, lock, mishaps, overtaken>>

\* The outcome of a step of the autopilot; a failure stops the rest of the plan.
RecordStep(w) ==
    LET to == CASE loc[w].result = "ok" -> "auto_applied"
                [] loc[w].result = "error" -> "failed"
                [] OTHER -> "rejected_by_guardrail"
    IN  /\ pc[w] = "record" /\ loc[w].job = "run"
        /\ Transition(loc[w].row, "approved", to)
        /\ IF to = "auto_applied" THEN Applies(loc[w].step) ELSE UNCHANGED aiPause
        /\ Goto(w, "step", [loc[w] EXCEPT !.step = NoStep, !.result = "none",
                                          !.stopped = loc[w].stopped \/ to # "auto_applied"])
        /\ UNCHANGED <<strategy, runs, ozon, mirror, listed, held, lock, mishaps, overtaken>>

\* Slip: an error is taken for temporary, whatever Ozon did.
RecordApprovalReopens(u) ==
    /\ pc[u] = "record" /\ loc[u].job = "approve"
    /\ Transition(loc[u].row, "approved", IF loc[u].result = "ok" THEN "applied" ELSE "proposed")
    /\ IF loc[u].result = "ok" THEN Applies(loc[u].step) ELSE UNCHANGED aiPause
    /\ Leave(u)
    /\ UNCHANGED <<strategy, runs, ozon, mirror, listed, held, mishaps>>

\* The outcome of an approved decision.
RecordApproval(u) ==
    LET to == CASE loc[u].result = "ok" -> "applied"
                [] loc[u].result = "error" -> "failed"
                [] OTHER -> AfterVerdict(loc[u].result)
    IN  /\ pc[u] = "record" /\ loc[u].job = "approve"
        /\ Transition(loc[u].row, "approved", to)
        /\ IF to = "applied" THEN Applies(loc[u].step) ELSE UNCHANGED aiPause
        /\ Leave(u)
        /\ UNCHANGED <<strategy, runs, ozon, mirror, listed, held, mishaps>>

EndSwitch(u) ==
    /\ pc[u] = "record" /\ loc[u].job = "manual"
    /\ Leave(u)
    /\ UNCHANGED <<strategy, runs, rows, site, mishaps>>

-----------------------------------------------------------------------------
(* Failures, and everything that happens without the lock.                 *)

\* A statement fails, or the deadline of the request or task passes: the lock is
\* released, what was committed stays, and a run is recorded as failed.
Fail(p) ==
    /\ lock = p /\ Mishap
    /\ Release
    /\ IF p \in Workers THEN FinishRun(p) ELSE Goto(p, "idle", Idle) /\ UNCHANGED runs
    /\ UNCHANGED <<strategy, rows, site>>

\* The process dies; a run it worked on stays running.
Crash(p) ==
    /\ pc[p] # "idle" /\ Mishap
    /\ IF lock = p THEN Release ELSE UNCHANGED <<lock, overtaken>>
    /\ Goto(p, "idle", Idle)
    /\ UNCHANGED <<strategy, runs, rows, site>>

\* The strategy is edited, switched off or on, or replaced by another one.
EditStrategy ==
    /\ Mishap
    /\ strategy' \in [id : strategy.id .. MaxStrategies, level : Levels] \ {strategy}
    /\ overtaken' = (lock # None)
    /\ UNCHANGED <<runs, rows, site, lock, pc, loc>>

\* SyncCampaigns reads the list of campaigns and, between many other calls, writes
\* them to the mirror one after the other.
SyncRead ==
    /\ listed # ozon /\ listed' = ozon
    /\ UNCHANGED <<strategy, runs, rows, ozon, mirror, aiPause, held, lock, pc, loc, mishaps, overtaken>>

SyncWrite(c) ==
    /\ mirror' = IF c \in listed THEN mirror \cup {c} ELSE mirror \ {c}
    /\ mirror' # mirror
    /\ held' = held \ listed
    /\ UNCHANGED <<strategy, runs, rows, ozon, listed, aiPause, lock, pc, loc, mishaps, overtaken>>

\* The observation after a pause by the AI ends, and a bid or a budget has changed
\* since, by the AI, by hand or by another strategy.
Repair(c) ==
    /\ aiPause[c] = "fresh"
    /\ aiPause' = [aiPause EXCEPT ![c] = "repaired"]
    /\ UNCHANGED <<strategy, runs, rows, ozon, mirror, listed, held, lock, pc, loc, mishaps, overtaken>>

\* ExpireStaleAIRuns, or GetRunningAIRun, which does not look at a run that is an
\* hour old; its worker may still be alive.
ExpireRun(r) ==
    /\ runs[r].status = "running"
    /\ runs' = [runs EXCEPT ![r].status = "finished"]
    /\ UNCHANGED <<strategy, rows, site, lock, pc, loc, mishaps, overtaken>>

\* A day is over.
NewDay ==
    /\ \E d \in Ids : rows[d].today
    /\ rows' = [d \in Ids |-> [rows[d] EXCEPT !.today = FALSE]]
    /\ UNCHANGED <<strategy, runs, site, lock, pc, loc, mishaps, overtaken>>

\* ExpireStaleProposals, from every sweep: d is 72 hours old.
Expire(d) ==
    /\ rows[d].status = "proposed"
    /\ Transition(d, "proposed", "expired")
    /\ UNCHANGED <<strategy, runs, site, lock, pc, loc, mishaps, overtaken>>

-----------------------------------------------------------------------------
Work(p) ==
    \/ CallAccepted(p) \/ CallRefused(p) \/ CallOverQuota(p) \/ CallLost(p)
    \/ Audit(p)

RunWork(w) ==
    \/ Step(w) \/ EndPlan(w) \/ RecordStep(w)
    \/ Work(w)

UserWork(u) ==
    \/ Claim(u) \/ RecordApproval(u) \/ EndSwitch(u)
    \/ Work(u)

Next ==
    \/ \E w \in Workers : StartRun(w) \/ PlanFails(w) \/ PlanVoid(w) \/ Execute(w) \/ RunWork(w)
    \/ \E u \in Users : \/ \E d \in Ids : Approve(u, d) \/ Reject(u, d)
                        \/ \E s \in [kind : StateKinds, camp : Camps] : Switch(u, s)
                        \/ UserWork(u)
    \/ \E p \in Procs : Fail(p) \/ Crash(p)
    \/ EditStrategy \/ SyncRead \/ (\E c \in Camps : SyncWrite(c) \/ Repair(c))
    \/ (\E r \in RunIds : ExpireRun(r)) \/ (\E d \in Ids : Expire(d)) \/ NewDay

Spec == Init /\ [][Next]_vars

-----------------------------------------------------------------------------
TypeOK ==
    /\ strategy \in [id : 1 .. MaxStrategies, level : Levels]
    /\ runs \in [RunIds -> [status : {"none", "running", "finished"},
                            strategy : 0 .. MaxStrategies]]
    /\ rows \in [Ids -> [step : Steps \cup {NoStep},
                         status : Final \cup {"none", "proposed", "approved"}, own : BOOLEAN,
                         auto : BOOLEAN, today : BOOLEAN, writes : Nat, masked : Nat]]
    /\ {ozon, mirror, listed, held} \subseteq SUBSET Camps
    /\ aiPause \in [Camps -> {"no", "fresh", "repaired"}]
    /\ lock \in Procs \cup {None}
    /\ pc \in [Procs -> {"idle", "plan", "claim", "step", "call", "audit", "record"}]
    /\ mishaps \in 0 .. MaxMishaps
    /\ overtaken \in BOOLEAN

\* However approvals, rejections, runs and crashes interleave, Ozon carries a
\* decision out once.  The exception: when the answer to a metered write is lost
\* and its retry meets the quota, the approved decision is a proposal again.
WriteOnce == \A d \in Ids : rows[d].writes <= 1 + rows[d].masked

\* A plan with a step its guards reject is not executed at all, and what follows
\* a step of the autopilot that failed, or whose outcome is not recorded, is not
\* sent (executeAISubmission, processProposalWithVerdict).
PlanStops ==
    \A d, e \in Ids :
        d[1] = e[1] =>
            /\ rows[d].own => rows[e].writes = 0
            /\ rows[d].auto /\ rows[d].status # "auto_applied" /\ d[2] < e[2] => rows[e].writes = 0

\* Runs and approvals side by side never apply more decisions in a day than the
\* cabinet is allowed: the cap is asked when a plan is evaluated and again before
\* every call (cabinetActionCapReason).
WithinCap == MaxActionsPerDay > 0 => Cardinality(AppliedToday) <= MaxActionsPerDay

\* A decision that expired, was rejected, failed or was applied stays so, and is
\* never sent to Ozon afterwards: the claim of an approval meets the sweep, other
\* reviewers and runs (TransitionAIDecision).
FinalStays ==
    [][\A d \in Ids : rows[d].status \in Final =>
          rows'[d].status = rows[d].status /\ rows'[d].writes = rows[d].writes]_vars

\* A campaign a person has paused in the service is not switched on by the
\* autopilot, whatever was paused and resumed before and whatever failed on the
\* way.  The exception: a sync that started before the pause mirrors the campaign
\* as running, and the autopilot takes it for its own by pausing it once more
\* (activationObservationReason).
HumanPauseStays ==
    [][\A c \in Camps : c \in ozon' \ ozon /\ lock \in Workers => c \notin held]_vars

\* A decision is sent only under the strategy it was made for, at a level that
\* allows it.  A strategy changed while a process holds the lock is overtaken by
\* what that process still sends.
StopTakesHold ==
    [][\A d \in Ids : rows'[d].writes > rows[d].writes =>
          \/ overtaken
          \/ /\ runs[d[1]].strategy = strategy.id
             /\ strategy.level >= IF rows[d].auto THEN 3 ELSE 2]_vars

=============================================================================
