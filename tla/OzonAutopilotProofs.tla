------------------------ MODULE OzonAutopilotProofs ------------------------
(***************************************************************************)
(* Type correctness and the safety properties of OzonAutopilot, for any    *)
(* number of workers, people and campaigns, any plans the language model   *)
(* may submit and any bounds.                                              *)
(***************************************************************************)
EXTENDS OzonAutopilot, FiniteSetTheorems, TLAPS

Labels  == {"idle", "plan", "claim", "step", "call", "audit", "record"}
Working == {"claim", "step", "call", "audit", "record"}
Sending == {"call", "audit", "record"}
Jobs    == {"none", "run", "approve", "manual"}
Results == {"none", "call", "ok", "error", "transient", "final"}

Planned == [kind : Kinds, camp : Camps, own : BOOLEAN]

Local == [job : Jobs, run : Nat, plan : Seq(Planned), bad : BOOLEAN, stopped : BOOLEAN, level : 0 .. 3,
          row : Nat \X Nat, step : Steps \cup {NoStep}, result : Results]

\* What a label says about the locals of a process.
RunsInv ==
    \A p \in Procs :
        /\ pc[p] = "idle" => loc[p] = Idle
        /\ pc[p] \in {"plan", "step"} => p \in Workers
        /\ pc[p] = "plan" => loc[p].row[2] = 0
        /\ pc[p] = "claim" => p \in Users
        /\ pc[p] # "idle" =>
             IF p \in Workers
             THEN /\ loc[p].job = "run" /\ loc[p].run \in RunIds /\ loc[p].row[1] = loc[p].run
                  /\ loc[p].row[2] + Len(loc[p].plan) <= MaxSteps
             ELSE loc[p].job \in {"approve", "manual"}

RowInv ==
    \A p \in Procs :
        /\ pc[p] \in Sending => loc[p].step \in Steps
        /\ pc[p] \in Sending \cup {"claim"} /\ loc[p].job # "manual" => loc[p].row \in Ids
        /\ pc[p] = "audit" \/ (loc[p].job = "manual" /\ pc[p] # "idle") => loc[p].step.kind \in StateKinds
        /\ pc[p] = "claim" => loc[p].job = "approve"

\* Only the holder of the lock is past its checks.
LockInv == \A p \in Procs : pc[p] \in Working => lock = p

\* A run is of one worker, and the rows of its remaining steps do not exist yet.
FreshInv ==
    /\ \A d \in Ids : rows[d].status # "none" => rows[d].step \in Steps /\ runs[d[1]].status # "none"
    /\ \A w \in Workers : pc[w] # "idle" =>
         /\ runs[loc[w].run].status # "none"
         /\ \A d \in Ids : d[1] = loc[w].run /\ d[2] > loc[w].row[2] => rows[d].status = "none"
    /\ \A w, v \in Workers : pc[w] # "idle" /\ pc[v] # "idle" /\ loc[w].run = loc[v].run => w = v

Typed == TypeOK /\ loc \in [Procs -> Local] /\ RunsInv /\ RowInv /\ LockInv /\ FreshInv

\* A decision that is being sent is claimed; nobody has sent it without the
\* quota hiding it, unless it is claimed and sent or settled.
OnceInv ==
    /\ WriteOnce
    /\ \A d \in Ids : rows[d].status \in {"none", "proposed"} => rows[d].writes <= rows[d].masked
    /\ \A p \in Procs : pc[p] = "claim" => rows[loc[p].row].status # "none"
    /\ \A p \in Procs : pc[p] \in Sending /\ loc[p].job # "manual" =>
         LET d == loc[p].row IN
         /\ rows[d].status = "approved"
         /\ pc[p] = "call" \/ loc[p].result = "transient" => rows[d].writes <= rows[d].masked

\* While nothing has overtaken it, the holder of the lock works under the
\* strategy it has checked.
StopInv ==
    /\ \A d \in Ids : rows[d].status = "proposed" => ~rows[d].auto
    /\ \A p \in Procs : pc[p] \in Working =>
         /\ loc[p].job = "approve" => ~rows[loc[p].row].auto
         /\ loc[p].job = "run" /\ pc[p] \in Sending => loc[p].level >= 3
         /\ ~overtaken =>
              /\ loc[p].job = "approve" => /\ runs[loc[p].row[1]].strategy = strategy.id
                                           /\ strategy.level >= 2
              /\ loc[p].job = "run" => /\ runs[loc[p].run].strategy = strategy.id
                                       /\ strategy.level = loc[p].level

\* A decision that is not sent, and cannot be any more.
Unsent(d) == rows[d].writes = 0 /\ rows[d].status \notin {"proposed", "approved"}

\* Why e is not to be sent: d, of the same plan, was rejected by its guard, or comes
\* before e and did not succeed.
Ends(d, e) ==
    /\ d[1] = e[1]
    /\ rows[d].own \/ (rows[d].auto /\ rows[d].status # "auto_applied" /\ d[2] < e[2])

\* Of a plan that ends at d nothing else is open.  A worker knows it: its plan is
\* bad if a guard rejected any step of it, stored or still to come, and only the
\* command in hand has not succeeded unless it has stopped.
PlanInv ==
    /\ \A d \in Ids : rows[d].status = "none" => rows[d].writes = 0 /\ ~rows[d].own /\ ~rows[d].auto
    /\ \A d, e \in Ids : Ends(d, e) => Unsent(e)
    /\ \A w \in Workers : pc[w] \in Working =>
         /\ \A i \in 1 .. Len(loc[w].plan) : loc[w].plan[i].own => loc[w].bad
         /\ \A d \in Ids : d[1] = loc[w].run =>
              /\ rows[d].own => loc[w].bad
              /\ loc[w].bad => Unsent(d)
              /\ rows[d].auto /\ rows[d].status # "auto_applied" =>
                     loc[w].stopped \/ (pc[w] \in Sending /\ d = loc[w].row)

\* A campaign a person holds is off in the mirror, its newest event is theirs, and
\* no command is on its way that would change either.
HeldInv ==
    /\ \A c \in held : c \notin mirror /\ aiPause[c] = "no"
    /\ \A p \in Procs :
         /\ pc[p] = "claim" => LET s == rows[loc[p].row].step IN s.kind = "campaign_pause" => s.camp \notin held
         /\ p \in Workers /\ pc[p] \in Working /\ ~loc[p].bad /\ loc[p].level >= 3 =>
              \A i \in 1 .. Len(loc[p].plan) :
                  loc[p].plan[i].kind \in StateKinds => loc[p].plan[i].camp \notin held
         /\ pc[p] \in Sending =>
              LET s == loc[p].step IN
              /\ loc[p].job = "run" /\ s.kind \in StateKinds => s.camp \notin held
              /\ loc[p].job = "approve" /\ s.kind = "campaign_pause" => s.camp \notin held
              /\ s.kind = "campaign_activate" /\ (pc[p] = "audit" \/ loc[p].result = "ok") => s.camp \notin held

\* Whoever is past the last look at the cap still fits in.
CapInv ==
    /\ WithinCap
    /\ \A p \in Procs :
         pc[p] \in Sending /\ loc[p].job # "manual" /\ (pc[p] # "record" \/ loc[p].result = "ok") /\ MaxActionsPerDay > 0 =>
             Cardinality(AppliedToday) < MaxActionsPerDay

-----------------------------------------------------------------------------
(* Lemmas.                                                                 *)

USE DEF Labels, Working, Sending, Jobs, Results

LEMMA Bounds ==
    {MaxRuns, MaxSteps, MaxDecisions, MaxMishaps, MaxActionsPerDay} \subseteq Nat /\ MaxSteps \in Nat
BY BoundsAssumption

\* The locals of a process that does nothing.
LEMMA IdleLocal == Idle \in Local
BY DEF Idle, Local, NoStep, Steps

\* Goto moves one process and leaves the others where they are.
LEMMA Moves ==
    ASSUME TypeOK, loc \in [Procs -> Local], NEW p \in Procs, NEW l \in Labels, NEW new \in Local, Goto(p, l, new)
    PROVE  /\ pc' \in [Procs -> Labels] /\ loc' \in [Procs -> Local]
           /\ pc'[p] = l /\ loc'[p] = new
           /\ \A q \in Procs \ {p} : pc'[q] = pc[q] /\ loc'[q] = loc[q]
BY DEF TypeOK, Goto

Row == [step : Steps \cup {NoStep}, status : Final \cup {"none", "proposed", "approved"}, own : BOOLEAN,
        auto : BOOLEAN, today : BOOLEAN, writes : Nat, masked : Nat]

\* TransitionAIDecision changes the status of one row, if it is the expected one.
LEMMA Transitions ==
    ASSUME rows \in [Ids -> Row], NEW d \in Ids, NEW from,
           NEW to \in Final \cup {"proposed", "approved"}, Transition(d, from, to)
    PROVE  /\ rows' \in [Ids -> Row]
           /\ \A e \in Ids :
                /\ rows'[e].step = rows[e].step /\ rows'[e].auto = rows[e].auto /\ rows'[e].own = rows[e].own
                /\ rows'[e].writes = rows[e].writes /\ rows'[e].masked = rows[e].masked
                /\ rows'[e].status = IF e = d /\ rows[d].status = from THEN to ELSE rows[e].status
<1> DEFINE today == IF to \in Final THEN to \in Applied ELSE rows[d].today
           new   == [rows[d] EXCEPT !.status = to, !.today = today]
<1>1. rows[d] \in Row /\ today \in BOOLEAN
  <2>1. rows[d] \in Row /\ rows[d].today \in BOOLEAN
    BY DEF Row
  <2>2. CASE to \in Final
    BY <2>1, <2>2
  <2>3. CASE to \notin Final
    BY <2>1, <2>3
  <2> QED BY <2>2, <2>3
<1>2. new \in Row /\ new.status = to /\ new.step = rows[d].step /\ new.auto = rows[d].auto
      /\ new.own = rows[d].own /\ new.writes = rows[d].writes /\ new.masked = rows[d].masked
  <2> HIDE DEF today
  <2> QED BY <1>1 DEF Row
<1>3. CASE rows[d].status = from
  <2>1. rows' = [rows EXCEPT ![d] = new]
    BY <1>3 DEF Transition
  <2> HIDE DEF new
  <2> QED BY <1>2, <1>3, <2>1
<1>4. CASE rows[d].status # from
  BY <1>4 DEF Transition
<1> QED BY <1>3, <1>4

\* What a command finds before it is sent is a result.
LEMMA BeforeResults == \A s : BeforeCall(s) \subseteq {"call", "error", "transient", "final"}
BY DEF BeforeCall

\* The first step of a plan, and what is left of it.
LEMMA PlanParts ==
    ASSUME NEW plan \in Seq(Planned), plan # <<>>
    PROVE  /\ Head(plan) \in Planned /\ Tail(plan) \in Seq(Planned)
           /\ Head(plan) = plan[1] /\ Len(plan) > 0 /\ Len(Tail(plan)) = Len(plan) - 1
           /\ \A i \in 1 .. Len(Tail(plan)) : Tail(plan)[i] = plan[i + 1]
OBVIOUS

\* A judged plan is a permutation of the plan, as a sequence.
LEMMA JudgedPlan ==
    ASSUME NEW plan \in Plans, NEW verdict, NEW order \in [1 .. Len(plan) -> 1 .. Len(plan)]
    PROVE  /\ plan \in Seq(Steps) /\ Len(plan) \in Nat /\ Len(plan) <= MaxSteps
           /\ Judged(plan, verdict, order) \in Seq(Planned)
           /\ Len(Judged(plan, verdict, order)) = Len(plan)
<1>1. plan \in Seq(Steps) /\ Len(plan) <= MaxSteps /\ Len(plan) \in Nat
  BY PlansAssumption
<1>2. \A i \in 1 .. Len(plan) : plan[order[i]] \in Steps
  BY <1>1
<1> QED BY <1>1, <1>2 DEF Judged, Planned, Steps

-----------------------------------------------------------------------------
(* Type correctness.                                                       *)

LEMMA TypedInit == Init => Typed
<1> SUFFICES ASSUME Init PROVE Typed
  OBVIOUS
<1>1. TypeOK
  <2>1. strategy \in [id : 1 .. MaxStrategies, level : Levels] /\ mishaps \in 0 .. MaxMishaps
    BY BoundsAssumption DEF Init
  <2>2. runs \in [RunIds -> [status : {"none", "running", "finished"}, strategy : 0 .. MaxStrategies]]
    BY BoundsAssumption DEF Init
  <2>3. NoRow \in Row
    BY DEF NoRow, Row
  <2>4. rows \in [Ids -> Row]
    BY <2>3 DEF Init
  <2>5. /\ {ozon, mirror, listed, held} \subseteq SUBSET Camps
        /\ aiPause \in [Camps -> {"no", "fresh", "repaired"}]
        /\ lock \in Procs \cup {None} /\ pc \in [Procs -> Labels] /\ overtaken \in BOOLEAN
    BY DEF Init
  <2> QED BY <2>1, <2>2, <2>4, <2>5 DEF TypeOK, Row
<1>2. loc \in [Procs -> Local] /\ RunsInv /\ RowInv /\ LockInv
  BY IdleLocal DEF Init, RunsInv, RowInv, LockInv
<1>3. FreshInv
  BY DEF Init, FreshInv, NoRow, Procs
<1> QED BY <1>1, <1>2, <1>3 DEF Typed

\* What a process may become: the parts of Typed about one process.
Fits(p, l, new) ==
    /\ new \in Local /\ l \in Labels
    /\ l = "idle" => new = Idle
    /\ l \in {"plan", "step"} => p \in Workers
    /\ l = "plan" => new.row[2] = 0
    /\ l = "claim" => p \in Users /\ new.job = "approve"
    /\ l # "idle" =>
         IF p \in Workers
         THEN /\ new.job = "run" /\ new.run \in RunIds /\ new.row[1] = new.run
              /\ new.row[2] + Len(new.plan) <= MaxSteps
         ELSE new.job \in {"approve", "manual"}
    /\ l \in Sending => new.step \in Steps
    /\ l \in Sending \cup {"claim"} /\ new.job # "manual" => new.row \in Ids
    /\ l = "audit" \/ (new.job = "manual" /\ l # "idle") => new.step.kind \in StateKinds

\* A process that moves on keeps the locals of all processes in order.
LEMMA Shift ==
    ASSUME Typed, NEW p \in Procs, NEW l, NEW new, Fits(p, l, new), Goto(p, l, new),
           l \in Working => lock' = p,
           \A q \in Procs \ {p} : lock = q => lock' = q
    PROVE  /\ pc' \in [Procs -> Labels] /\ loc' \in [Procs -> Local]
           /\ pc'[p] = l /\ loc'[p] = new
           /\ \A q \in Procs \ {p} : pc'[q] = pc[q] /\ loc'[q] = loc[q]
           /\ RunsInv' /\ RowInv' /\ LockInv'
<1>1. /\ pc' \in [Procs -> Labels] /\ loc' \in [Procs -> Local]
      /\ pc'[p] = l /\ loc'[p] = new
      /\ \A q \in Procs \ {p} : pc'[q] = pc[q] /\ loc'[q] = loc[q]
  BY Moves DEF Typed, Fits
<1>2. RunsInv'
  BY <1>1 DEF Typed, RunsInv, Fits
<1>3. RowInv'
  BY <1>1 DEF Typed, RowInv, Fits
<1>4. LockInv'
  BY <1>1 DEF Typed, LockInv
<1> QED BY <1>1, <1>2, <1>3, <1>4

\* Rows keep their identity when their status changes.
LEMMA FreshKept ==
    ASSUME Typed, NEW p \in Procs,
           loc' \in [Procs -> Local],
           \A q \in Procs \ {p} : pc'[q] = pc[q] /\ loc'[q] = loc[q],
           p \in Workers /\ pc'[p] # "idle" =>
               pc[p] # "idle" /\ loc'[p].run = loc[p].run /\ loc'[p].row[2] >= loc[p].row[2],
           \A r \in RunIds : runs[r].status # "none" => runs'[r].status # "none",
           \A d \in Ids : rows'[d].step = rows[d].step /\ (rows[d].status = "none" => rows'[d].status = "none")
    PROVE  FreshInv'
<1>1. \A d \in Ids : d[1] \in RunIds /\ d[2] \in Nat
  BY BoundsAssumption DEF Ids
<1>2. \A w \in Workers : pc'[w] # "idle" =>
        /\ pc[w] # "idle" /\ loc'[w].run = loc[w].run /\ loc[w].run \in RunIds
        /\ \A n \in Nat : n > loc'[w].row[2] => n > loc[w].row[2]
  <2> SUFFICES ASSUME NEW w \in Workers, pc'[w] # "idle"
               PROVE  /\ pc[w] # "idle" /\ loc'[w].run = loc[w].run /\ loc[w].run \in RunIds
                      /\ \A n \in Nat : n > loc'[w].row[2] => n > loc[w].row[2]
    OBVIOUS
  <2>1. w \in Procs /\ loc[w] \in Local
    BY DEF Typed, Procs
  <2>2. loc[w].row[2] \in Nat /\ loc'[w].row[2] \in Nat
    BY <2>1 DEF Local
  <2>3. pc[w] # "idle" /\ loc'[w].run = loc[w].run /\ loc'[w].row[2] >= loc[w].row[2]
    BY <2>1, <2>2
  <2> QED BY <2>1, <2>2, <2>3 DEF Typed, RunsInv
<1>3. \A d \in Ids : rows'[d].status # "none" => rows'[d].step \in Steps /\ runs'[d[1]].status # "none"
  BY <1>1 DEF Typed, FreshInv
<1>4. \A w \in Workers : pc'[w] # "idle" =>
        /\ runs'[loc'[w].run].status # "none"
        /\ \A d \in Ids : d[1] = loc'[w].run /\ d[2] > loc'[w].row[2] => rows'[d].status = "none"
  BY <1>1, <1>2 DEF Typed, FreshInv
<1>5. \A w, v \in Workers : pc'[w] # "idle" /\ pc'[v] # "idle" /\ loc'[w].run = loc'[v].run => w = v
  BY <1>2 DEF Typed, FreshInv
<1> QED BY <1>3, <1>4, <1>5 DEF FreshInv

LEMMA IdleFits == \A p \in Procs : Fits(p, "idle", Idle)
BY IdleLocal DEF Fits

\* A worker that finishes its run, whatever it held.
LEMMA TypedFinish ==
    ASSUME Typed, NEW w \in Workers, pc[w] # "idle", FinishRun(w),
           lock' = lock \/ (lock = w /\ lock' = None),
           UNCHANGED <<strategy, rows, site>>, mishaps' \in 0 .. MaxMishaps, overtaken' \in BOOLEAN
    PROVE  Typed'
<1>1. w \in Procs /\ loc[w].run \in RunIds
  BY DEF Typed, RunsInv, Procs
<1>2. Goto(w, "idle", Idle)
  BY DEF FinishRun
<1>3. \A q \in Procs \ {w} : lock = q => lock' = q
  BY NamesAssumption, <1>1
<1>4. /\ pc' \in [Procs -> Labels] /\ loc' \in [Procs -> Local]
      /\ pc'[w] = "idle" /\ loc'[w] = Idle
      /\ \A q \in Procs \ {w} : pc'[q] = pc[q] /\ loc'[q] = loc[q]
      /\ RunsInv' /\ RowInv' /\ LockInv'
  BY <1>1, <1>2, <1>3, IdleFits, Shift
<1>5. /\ runs' \in [RunIds -> [status : {"none", "running", "finished"}, strategy : 0 .. MaxStrategies]]
      /\ \A r \in RunIds : runs[r].status # "none" => runs'[r].status # "none"
  BY <1>1 DEF Typed, TypeOK, FinishRun
<1>6. TypeOK'
  BY <1>4, <1>5 DEF Typed, TypeOK, site
<1>7. FreshInv'
  BY <1>1, <1>4, <1>5, FreshKept DEF site
<1> QED BY <1>4, <1>6, <1>7 DEF Typed

LEMMA TypedStart ==
    ASSUME Typed, NEW w \in Workers, StartRun(w)
    PROVE  Typed'
<1> PICK r \in RunIds : /\ runs[r].status = "none"
                        /\ runs' = [runs EXCEPT ![r] = [status |-> "running", strategy |-> strategy.id]]
                        /\ Goto(w, "plan", [Idle EXCEPT !.job = "run", !.run = r, !.row = <<r, 0>>])
  BY DEF StartRun
<1> DEFINE new == [Idle EXCEPT !.job = "run", !.run = r, !.row = <<r, 0>>]
<1>1. w \in Procs /\ UNCHANGED <<strategy, rows, site, lock, mishaps, overtaken>> /\ pc[w] = "idle" /\ r \in Nat
      /\ Goto(w, "plan", new)
  BY BoundsAssumption DEF Procs, StartRun, RunIds
<1>2. /\ new.job = "run" /\ new.run = r /\ new.row = <<r, 0>> /\ new.plan = <<>>
      /\ new.row[1] = r /\ new.row[2] = 0 /\ Len(new.plan) = 0 /\ new \in Local
  <2>1. Idle.plan = <<>> /\ Len(<<>>) = 0
    BY DEF Idle
  <2>2. <<r, 0>> \in Nat \X Nat /\ <<r, 0>>[1] = r /\ <<r, 0>>[2] = 0
    BY <1>1
  <2>3. new \in Local /\ new.job = "run" /\ new.run = r /\ new.row = <<r, 0>> /\ new.plan = Idle.plan
    BY <1>1, <2>2, IdleLocal DEF Local
  <2> QED BY <2>1, <2>2, <2>3
<1>3. Fits(w, "plan", new)
  BY <1>2, BoundsAssumption DEF Fits
<1>4. /\ pc' \in [Procs -> Labels] /\ loc' \in [Procs -> Local]
      /\ pc'[w] = "plan" /\ loc'[w] = new
      /\ \A q \in Procs \ {w} : pc'[q] = pc[q] /\ loc'[q] = loc[q]
      /\ RunsInv' /\ RowInv' /\ LockInv'
  <2> HIDE DEF new
  <2>1. "plan" \notin Working
    OBVIOUS
  <2> QED BY <1>1, <1>3, <2>1, Shift
<1>5. TypeOK'
  <2>1. strategy.id \in 0 .. MaxStrategies
    BY DEF Typed, TypeOK
  <2>2. runs' \in [RunIds -> [status : {"none", "running", "finished"}, strategy : 0 .. MaxStrategies]]
    BY <2>1 DEF Typed, TypeOK
  <2> QED BY <1>1, <1>4, <2>2 DEF Typed, TypeOK, site
<1>6. FreshInv'
  <2> HIDE DEF new
  <2>1. \A d \in Ids : d[1] \in RunIds /\ d[2] \in Nat
    BY BoundsAssumption DEF Ids
  <2>2. rows' = rows /\ (\A q \in RunIds : runs[q].status # "none" => runs'[q] = runs[q] /\ q # r)
        /\ runs'[r].status = "running"
    BY <1>1 DEF Typed, TypeOK
  <2>3. \A d \in Ids : rows[d].status # "none" => rows[d].step \in Steps /\ d[1] # r /\ runs'[d[1]].status # "none"
    BY <2>1, <2>2 DEF Typed, FreshInv
  <2>4. \A v \in Workers \ {w} : pc'[v] # "idle" =>
          /\ pc[v] # "idle" /\ loc'[v] = loc[v] /\ loc[v].run \in RunIds /\ loc[v].run # r
          /\ runs'[loc[v].run].status # "none"
    BY <1>4, <2>2 DEF Typed, FreshInv, RunsInv, Procs
  <2>5. loc'[w].run = r
    BY <1>2, <1>4
  <2>6. \A v \in Workers : pc'[v] # "idle" =>
          /\ runs'[loc'[v].run].status # "none"
          /\ \A d \in Ids : d[1] = loc'[v].run /\ d[2] > loc'[v].row[2] => rows'[d].status = "none"
    BY <2>2, <2>3, <2>4, <2>5 DEF Typed, FreshInv
  <2>7. \A u, v \in Workers : pc'[u] # "idle" /\ pc'[v] # "idle" /\ loc'[u].run = loc'[v].run => u = v
    BY <2>4, <2>5 DEF Typed, FreshInv
  <2> QED BY <2>2, <2>3, <2>6, <2>7 DEF FreshInv
<1> QED BY <1>4, <1>5, <1>6 DEF Typed

\* The step Execute takes, without the plan it is made from: a plan that is not
\* bad has no step the state of a campaign forbids.
LEMMA Executing ==
    ASSUME Typed, NEW w \in Workers, Execute(w)
    PROVE  \E judged \in Seq(Planned), bad \in BOOLEAN :
              /\ Len(judged) \in Nat /\ Len(judged) <= MaxSteps
              /\ ~bad => \A i \in 1 .. Len(judged) : ~judged[i].own /\ ~StateForbids(judged[i], strategy.level)
              /\ Goto(w, "step", [loc[w] EXCEPT !.plan = judged, !.bad = bad, !.level = strategy.level])
<1>1. PICK plan \in Plans :
           \E verdict \in [1 .. Len(plan) -> {"", "final", "transient"}], order \in [1 .. Len(plan) -> 1 .. Len(plan)] :
             /\ \A i \in 1 .. Len(plan) :
                  verdict[i] \in IF Repeats(plan, i) THEN {"final"} ELSE Verdicts(plan[i], <<0, 0>>, strategy.level)
             /\ Goto(w, "step", [loc[w] EXCEPT
                    !.plan = Judged(plan, verdict, order),
                    !.bad = \/ \E i \in 1 .. Len(plan) : verdict[i] # ""
                            \/ strategy.level >= 3 /\ CapReached(Len(plan)),
                    !.level = strategy.level])
  BY DEF Execute
<1>2. PICK verdict \in [1 .. Len(plan) -> {"", "final", "transient"}], order \in [1 .. Len(plan) -> 1 .. Len(plan)] :
             /\ \A i \in 1 .. Len(plan) :
                  verdict[i] \in IF Repeats(plan, i) THEN {"final"} ELSE Verdicts(plan[i], <<0, 0>>, strategy.level)
             /\ Goto(w, "step", [loc[w] EXCEPT
                    !.plan = Judged(plan, verdict, order),
                    !.bad = \/ \E i \in 1 .. Len(plan) : verdict[i] # ""
                            \/ strategy.level >= 3 /\ CapReached(Len(plan)),
                    !.level = strategy.level])
  BY <1>1
<1> DEFINE judged == Judged(plan, verdict, order)
           bad    == \/ \E i \in 1 .. Len(plan) : verdict[i] # ""
                     \/ strategy.level >= 3 /\ CapReached(Len(plan))
<1>3. Goto(w, "step", [loc[w] EXCEPT !.plan = judged, !.bad = bad, !.level = strategy.level])
  BY <1>2
<1>4. judged \in Seq(Planned) /\ Len(judged) \in Nat /\ Len(judged) <= MaxSteps /\ bad \in BOOLEAN
  <2>1. judged \in Seq(Planned) /\ Len(judged) = Len(plan) /\ Len(plan) \in Nat /\ Len(plan) <= MaxSteps
    BY JudgedPlan
  <2>2. Len(judged) \in Nat /\ Len(judged) <= MaxSteps
    BY <2>1
  <2> QED BY <2>1, <2>2
<1>5. ~bad => \A i \in 1 .. Len(judged) : ~judged[i].own /\ ~StateForbids(judged[i], strategy.level)
  <2> SUFFICES ASSUME ~bad, NEW i \in 1 .. Len(judged)
               PROVE  ~judged[i].own /\ ~StateForbids(judged[i], strategy.level)
    OBVIOUS
  <2>1. i \in 1 .. Len(plan) /\ Len(judged) = Len(plan)
    BY JudgedPlan
  <2>2. order[i] \in 1 .. Len(plan) /\ verdict[order[i]] = ""
    BY <2>1
  <2>3. /\ judged[i].kind = plan[order[i]].kind /\ judged[i].camp = plan[order[i]].camp
        /\ judged[i].own <=> verdict[order[i]] # ""
    BY <2>1 DEF Judged
  <2>4. "" \in Verdicts(plan[order[i]], <<0, 0>>, strategy.level)
    BY <1>2, <2>2
  <2>5. ~StateForbids(plan[order[i]], strategy.level)
    BY <2>4 DEF Verdicts
  <2> QED BY <2>2, <2>3, <2>5 DEF StateForbids
<1> HIDE DEF judged, bad
<1> QED BY <1>3, <1>4, <1>5

LEMMA TypedExecute ==
    ASSUME Typed, NEW w \in Workers, Execute(w)
    PROVE  Typed'
<1>1. PICK judged \in Seq(Planned), bad \in BOOLEAN :
              /\ Len(judged) \in Nat /\ Len(judged) <= MaxSteps
              /\ ~bad => \A i \in 1 .. Len(judged) : ~judged[i].own /\ ~StateForbids(judged[i], strategy.level)
              /\ Goto(w, "step", [loc[w] EXCEPT !.plan = judged, !.bad = bad, !.level = strategy.level])
  BY Executing
<1> DEFINE new == [loc[w] EXCEPT !.plan = judged, !.bad = bad, !.level = strategy.level]
<1>3. /\ w \in Procs /\ UNCHANGED <<strategy, runs, rows, site, mishaps, overtaken>> /\ pc[w] = "plan"
      /\ lock = None /\ lock' = w
  BY DEF Procs, Execute
<1>6. /\ loc[w] \in Local /\ loc[w].row[2] = 0 /\ loc[w].job = "run" /\ loc[w].run \in RunIds
      /\ loc[w].row[1] = loc[w].run /\ strategy.level \in 0 .. 3
  BY <1>3, LevelsAssumption DEF Typed, RunsInv, TypeOK
<1>7. /\ new \in Local /\ new.job = "run" /\ new.run = loc[w].run /\ new.row = loc[w].row
      /\ new.plan = judged
  BY <1>6 DEF Local
<1>4. Goto(w, "step", new)
  BY <1>1
<1> HIDE DEF new
<1>8. new.row[2] + Len(new.plan) <= MaxSteps /\ new.row[1] = new.run /\ new.row[2] = 0
  <2>1. new.row[1] = new.run /\ new.row[2] = 0 /\ Len(new.plan) = Len(judged)
    BY <1>6, <1>7
  <2>2. new.row[2] + Len(new.plan) = Len(judged)
    BY <1>1, <2>1
  <2> QED BY <1>1, <2>1, <2>2
<1>9. Fits(w, "step", new)
  BY <1>3, <1>6, <1>7, <1>8 DEF Fits
<1>10. \A q \in Procs \ {w} : lock = q => lock' = q
  BY <1>3, NamesAssumption
<1>11. /\ pc' \in [Procs -> Labels] /\ loc' \in [Procs -> Local]
       /\ pc'[w] = "step" /\ loc'[w] = new
       /\ \A q \in Procs \ {w} : pc'[q] = pc[q] /\ loc'[q] = loc[q]
       /\ RunsInv' /\ RowInv' /\ LockInv'
  BY <1>3, <1>4, <1>9, <1>10, Shift
<1>12. TypeOK'
  BY <1>3, <1>11 DEF Typed, TypeOK, site
<1>13. FreshInv'
  <2>1. loc'[w].run = loc[w].run /\ loc'[w].row[2] = 0 /\ loc[w].row[2] = 0 /\ pc[w] # "idle"
    BY <1>3, <1>6, <1>7, <1>8, <1>11
  <2>2. loc'[w].row[2] >= loc[w].row[2]
    BY <2>1
  <2>3. runs' = runs /\ rows' = rows
    BY <1>3
  <2> QED BY <1>3, <1>11, <2>1, <2>2, <2>3, FreshKept
<1> QED BY <1>11, <1>12, <1>13 DEF Typed

\* What Apply leads to.
LEMMA Applying ==
    ASSUME NEW p \in Procs, NEW d \in Nat \X Nat, NEW s \in Steps, NEW new \in Local, Apply(p, d, s, new)
    PROVE  \E l \in {"call", "record"}, res \in {"call", "error", "transient", "final"}, next \in Local :
              /\ Goto(p, l, next) /\ (l = "call" => ~CapReached(1))
              /\ res # "call" => l = "record"
              /\ next.job = new.job /\ next.run = new.run /\ next.plan = new.plan /\ next.level = new.level
              /\ next.bad = new.bad /\ next.row = d /\ next.step = s /\ next.result = res
              /\ next.stopped = new.stopped
<1>1. PICK res \in BeforeCall(s) :
           Goto(p, IF res = "call" THEN "call" ELSE "record", [new EXCEPT !.row = d, !.step = s, !.result = res])
  BY DEF Apply
<1> DEFINE next == [new EXCEPT !.row = d, !.step = s, !.result = res]
           l    == IF res = "call" THEN "call" ELSE "record"
<1>2. res \in {"call", "error", "transient", "final"} /\ (res = "call" => ~CapReached(1))
  BY DEF BeforeCall
<1>3. /\ next \in Local /\ next.job = new.job /\ next.run = new.run /\ next.plan = new.plan
      /\ next.level = new.level /\ next.bad = new.bad /\ next.row = d /\ next.step = s /\ next.result = res
      /\ next.stopped = new.stopped
  BY <1>2 DEF Local
<1>4. Goto(p, l, next) /\ l \in {"call", "record"} /\ (l = "call" => res = "call") /\ (res # "call" => l = "record")
  BY <1>1, <1>2
<1> HIDE DEF next, l
<1> QED BY <1>2, <1>3, <1>4

\* The part of TypeOK that is not about rows and processes.
World ==
    /\ strategy \in [id : 1 .. MaxStrategies, level : Levels]
    /\ {ozon, mirror, listed, held} \subseteq SUBSET Camps
    /\ aiPause \in [Camps -> {"no", "fresh", "repaired"}]
    /\ lock \in Procs \cup {None}
    /\ mishaps \in 0 .. MaxMishaps
    /\ overtaken \in BOOLEAN

LEMMA TypedWorld == Typed => World /\ rows \in [Ids -> Row]
BY DEF Typed, TypeOK, World, Row

\* A process that moves on in its job, and rows that keep their identity.
LEMMA TypedMove ==
    ASSUME Typed, NEW p \in Procs, NEW l, NEW new, Fits(p, l, new), Goto(p, l, new),
           l \in Working => lock' = p,
           \A q \in Procs \ {p} : lock = q => lock' = q,
           p \in Workers /\ l # "idle" =>
               pc[p] # "idle" /\ new.run = loc[p].run /\ new.row[2] >= loc[p].row[2],
           World', runs' = runs, rows' \in [Ids -> Row],
           \A d \in Ids : rows'[d].step = rows[d].step /\ (rows[d].status = "none" => rows'[d].status = "none")
    PROVE  Typed'
<1>1. /\ pc' \in [Procs -> Labels] /\ loc' \in [Procs -> Local]
      /\ pc'[p] = l /\ loc'[p] = new
      /\ \A q \in Procs \ {p} : pc'[q] = pc[q] /\ loc'[q] = loc[q]
      /\ RunsInv' /\ RowInv' /\ LockInv'
  BY Shift
<1>2. TypeOK'
  BY <1>1 DEF Typed, TypeOK, World, Row
<1>3. FreshInv'
  BY <1>1, FreshKept
<1> QED BY <1>1, <1>2, <1>3 DEF Typed

\* Nobody moves, and rows keep their identity.
LEMMA TypedStill ==
    ASSUME Typed, UNCHANGED <<pc, loc, lock>>, World', rows' \in [Ids -> Row],
           runs' \in [RunIds -> [status : {"none", "running", "finished"}, strategy : 0 .. MaxStrategies]],
           \A r \in RunIds : runs[r].status # "none" => runs'[r].status # "none",
           \A d \in Ids : rows'[d].step = rows[d].step /\ (rows[d].status = "none" => rows'[d].status = "none")
    PROVE  Typed'
<1>1. TypeOK' /\ loc' \in [Procs -> Local] /\ RunsInv' /\ RowInv' /\ LockInv'
  BY DEF Typed, TypeOK, World, Row, RunsInv, RowInv, LockInv
<1>2. \A d \in Ids : d[1] \in RunIds /\ d[2] \in Nat
  BY BoundsAssumption DEF Ids
<1>3. FreshInv'
  BY <1>2 DEF Typed, FreshInv, RunsInv, Procs
<1> QED BY <1>1, <1>3 DEF Typed

\* The plan is executed one step further.
LEMMA TypedStep ==
    ASSUME Typed, NEW w \in Workers, Step(w)
    PROVE  Typed'
<1> DEFINE s      == Head(loc[w].plan)
           step   == [kind |-> s.kind, camp |-> s.camp]
           d      == <<loc[w].run, loc[w].row[2] + 1>>
           status == InsertStatus(s.own \/ loc[w].bad \/ loc[w].stopped, loc[w].level)
           auto   == status = "approved"
           today  == status \in {"proposed", "approved"}
           row    == [NoRow EXCEPT !.step = step, !.status = status, !.own = s.own, !.auto = auto, !.today = today]
           new    == [loc[w] EXCEPT !.plan = Tail(loc[w].plan)]
           moved  == [new EXCEPT !.row = d, !.stopped = loc[w].stopped \/ status = "rejected_by_guardrail"]
<1>1. /\ w \in Procs /\ pc[w] = "step" /\ loc[w].plan # <<>>
      /\ UNCHANGED <<strategy, runs, site, lock, mishaps, overtaken>>
      /\ rows' = [rows EXCEPT ![d] = row]
      /\ IF status = "approved" THEN Apply(w, d, step, new) ELSE Goto(w, "step", moved)
  BY DEF Step, Procs
<1>2. /\ loc[w] \in Local /\ loc[w].job = "run" /\ loc[w].run \in RunIds /\ loc[w].plan \in Seq(Planned)
      /\ loc[w].row[2] \in Nat /\ loc[w].row[2] + Len(loc[w].plan) <= MaxSteps /\ lock = w
      /\ loc[w].stopped \in BOOLEAN
  BY <1>1 DEF Typed, RunsInv, LockInv, Local
<1>3. /\ s \in Planned /\ Tail(loc[w].plan) \in Seq(Planned)
      /\ Len(loc[w].plan) > 0 /\ Len(Tail(loc[w].plan)) = Len(loc[w].plan) - 1 /\ Len(loc[w].plan) \in Nat
  BY <1>1, <1>2, PlanParts
<1>4. step \in Steps
  BY <1>3 DEF Planned, Steps
<1>5. /\ d \in Ids /\ d \in Nat \X Nat /\ d[1] = loc[w].run /\ d[2] = loc[w].row[2] + 1
      /\ d[2] + Len(Tail(loc[w].plan)) <= MaxSteps
  <2>1. loc[w].row[2] + 1 \in 1 .. MaxSteps
    <3>1. \A a, b, m \in Nat : a + b <= m /\ b > 0 => a + 1 \in 1 .. m
      OBVIOUS
    <3>2. loc[w].row[2] \in Nat /\ Len(loc[w].plan) \in Nat /\ MaxSteps \in Nat
      BY <1>2, <1>3, Bounds
    <3> QED BY <1>2, <1>3, <3>1, <3>2
  <2>2. loc[w].run \in Nat /\ MaxSteps \in Nat
    BY <1>2, Bounds DEF RunIds
  <2> QED BY <1>2, <1>3, <2>1, <2>2 DEF Ids
<1>6. status \in {"shadow", "rejected_by_guardrail", "proposed", "approved"}
  BY DEF InsertStatus
<1> HIDE DEF s, step, d, status
<1>7. row \in Row /\ row.status = status /\ row.step = step
  <2>1. NoRow \in Row /\ s.own \in BOOLEAN
    BY <1>3 DEF NoRow, Row, Planned
  <2>2. status \in Final \cup {"none", "proposed", "approved"}
    BY <1>6 DEF Final
  <2>3. auto \in BOOLEAN /\ today \in BOOLEAN
    OBVIOUS
  <2> HIDE DEF auto, today
  <2> QED BY <1>4, <2>1, <2>2, <2>3 DEF Row
<1> HIDE DEF row
<1>8. /\ new \in Local /\ new.job = "run" /\ new.run = loc[w].run /\ new.plan = Tail(loc[w].plan)
  BY <1>2, <1>3 DEF Local
<1> HIDE DEF new
<1>9. PICK l \in {"step", "call", "record"}, next \in Local :
        /\ Goto(w, l, next) /\ next.job = "run" /\ next.run = loc[w].run /\ next.plan = Tail(loc[w].plan)
        /\ next.row = d /\ (l # "step" => next.step = step)
  <2>1. CASE status = "approved"
    BY <1>1, <1>4, <1>5, <1>8, <2>1, Applying
  <2>2. CASE status # "approved"
    <3>1. moved \in Local /\ moved.job = "run" /\ moved.run = loc[w].run /\ moved.plan = Tail(loc[w].plan)
          /\ moved.row = d
      BY <1>2, <1>5, <1>8 DEF Local
    <3>2. Goto(w, "step", moved)
      BY <1>1, <2>2
    <3> HIDE DEF moved
    <3> QED BY <3>1, <3>2
  <2> QED BY <2>1, <2>2
<1>10. Fits(w, l, next)
  <2>1. next.row[2] + Len(next.plan) <= MaxSteps /\ next.row[1] = next.run /\ next.row \in Ids
    BY <1>5, <1>9
  <2> QED BY <1>1, <1>2, <1>4, <1>9, <2>1 DEF Fits
<1>11. /\ pc' \in [Procs -> Labels] /\ loc' \in [Procs -> Local]
       /\ pc'[w] = l /\ loc'[w] = next
       /\ \A q \in Procs \ {w} : pc'[q] = pc[q] /\ loc'[q] = loc[q]
       /\ RunsInv' /\ RowInv' /\ LockInv'
  <2>1. \A q \in Procs \ {w} : lock = q => lock' = q
    BY <1>1
  <2>2. lock' = w
    BY <1>1, <1>2
  <2> QED BY <1>1, <1>9, <1>10, <2>1, <2>2, Shift
<1>12. rows' \in [Ids -> Row] /\ rows'[d] = row /\ \A e \in Ids \ {d} : rows'[e] = rows[e]
  BY <1>1, <1>5, <1>7, TypedWorld
<1>13. TypeOK'
  BY <1>1, <1>11, <1>12 DEF Typed, TypeOK, Row, site
<1>14. FreshInv'
  <2>1. \A e \in Ids : e[1] \in RunIds /\ e[2] \in Nat
    BY BoundsAssumption DEF Ids
  <2>2. runs' = runs /\ pc[w] # "idle"
    BY <1>1
  <2>3. \A e \in Ids : rows'[e].status # "none" => rows'[e].step \in Steps /\ runs'[e[1]].status # "none"
    <3>1. runs[loc[w].run].status # "none"
      BY <2>2 DEF Typed, FreshInv
    <3> QED BY <1>4, <1>5, <1>7, <1>12, <2>2, <3>1 DEF Typed, FreshInv
  <2>4. \A v \in Workers : pc'[v] # "idle" => pc[v] # "idle" /\ loc'[v].run = loc[v].run
    BY <1>9, <1>11, <2>2 DEF Procs
  <2>5. \A u, v \in Workers : pc'[u] # "idle" /\ pc'[v] # "idle" /\ loc'[u].run = loc'[v].run => u = v
    BY <2>4 DEF Typed, FreshInv
  <2>6. \A e \in Ids : e[1] = loc'[w].run /\ e[2] > loc'[w].row[2] => rows'[e].status = "none"
    <3> SUFFICES ASSUME NEW e \in Ids, e[1] = loc[w].run, e[2] > loc[w].row[2] + 1
                 PROVE  rows'[e].status = "none"
      BY <1>5, <1>9, <1>11
    <3>1. e # d /\ e[2] > loc[w].row[2]
      BY <1>2, <1>5, <2>1
    <3> QED BY <1>12, <2>2, <3>1 DEF Typed, FreshInv
  <2>7. \A v \in Workers \ {w} : pc'[v] # "idle" =>
          \A e \in Ids : e[1] = loc'[v].run /\ e[2] > loc'[v].row[2] => rows'[e].status = "none"
    <3> SUFFICES ASSUME NEW v \in Workers \ {w}, pc'[v] # "idle", NEW e \in Ids,
                        e[1] = loc'[v].run, e[2] > loc'[v].row[2]
                 PROVE  rows'[e].status = "none"
      OBVIOUS
    <3>1. pc[v] # "idle" /\ loc'[v] = loc[v]
      BY <1>11 DEF Procs
    <3>2. loc[v].run # loc[w].run
      BY <2>2, <3>1 DEF Typed, FreshInv
    <3>3. e # d /\ rows[e].status = "none"
      BY <1>5, <3>1, <3>2 DEF Typed, FreshInv
    <3> QED BY <1>12, <3>3
  <2>8. \A v \in Workers : pc'[v] # "idle" => runs'[loc'[v].run].status # "none"
    BY <2>2, <2>4 DEF Typed, FreshInv
  <2> QED BY <2>3, <2>5, <2>6, <2>7, <2>8 DEF FreshInv
<1> QED BY <1>11, <1>13, <1>14 DEF Typed

\* A person's request that ends, or any process that goes idle without its run.
LEMMA TypedLeave ==
    ASSUME Typed, NEW p \in Procs, Goto(p, "idle", Idle), \A q \in Procs \ {p} : lock = q => lock' = q,
           World', runs' = runs, rows' \in [Ids -> Row],
           \A d \in Ids : rows'[d].step = rows[d].step /\ (rows[d].status = "none" => rows'[d].status = "none")
    PROVE  Typed'
<1>1. Fits(p, "idle", Idle) /\ "idle" \notin Working
  BY IdleFits
<1> QED BY <1>1, TypedMove

\* Who holds the lock, and what that leaves to the others.
LEMMA Holder ==
    ASSUME Typed, NEW p \in Procs, pc[p] \in Working
    PROVE  lock = p /\ (\A q \in Procs \ {p} : lock # q) /\ p # None
BY NamesAssumption DEF Typed, LockInv

LEMMA TypedEnds ==
    ASSUME Typed, NEW w \in Workers, PlanFails(w) \/ PlanVoid(w) \/ EndPlan(w)
    PROVE  Typed'
<1>1. w \in Procs /\ pc[w] # "idle" /\ FinishRun(w) /\ UNCHANGED <<strategy, rows, site, mishaps>>
  BY DEF Procs, PlanFails, PlanVoid, EndPlan
<1>2. lock' = lock \/ (lock = w /\ lock' = None)
  BY <1>1, Holder DEF PlanFails, PlanVoid, EndPlan, Release
<1>3. overtaken' \in BOOLEAN /\ mishaps' \in 0 .. MaxMishaps
  BY <1>1 DEF PlanFails, PlanVoid, EndPlan, Release, Typed, TypeOK
<1> QED BY <1>1, <1>2, <1>3, TypedFinish

\* One more mishap is within the bound.
LEMMA Mishaps == Typed /\ Mishap => mishaps' \in 0 .. MaxMishaps
BY Bounds DEF Typed, TypeOK, Mishap

\* A process that fails or dies.
LEMMA TypedFail ==
    ASSUME Typed, NEW p \in Procs, Fail(p) \/ Crash(p)
    PROVE  Typed'
<1>1. mishaps' \in 0 .. MaxMishaps /\ UNCHANGED <<strategy, rows, site>>
  BY Mishaps DEF Fail, Crash
<1>2. \A q \in Procs \ {p} : lock = q => lock' = q
  BY NamesAssumption DEF Fail, Crash, Release
<1>3. World' /\ rows' \in [Ids -> Row]
        /\ \A d \in Ids : rows'[d].step = rows[d].step /\ (rows[d].status = "none" => rows'[d].status = "none")
  BY <1>1, TypedWorld DEF World, Fail, Crash, Release, site
<1>4. CASE Fail(p) /\ p \in Workers /\ pc[p] # "idle"
  BY <1>1, <1>3, <1>4, TypedFinish DEF Fail, Release, World
<1>5. CASE Fail(p) /\ p \in Workers /\ pc[p] = "idle"
  <2>1. loc[p] = Idle /\ Idle.run = 0
    BY <1>5 DEF Typed, RunsInv, Idle
  <2>2. 0 \notin RunIds
    BY DEF RunIds
  <2>3. runs' = runs /\ Goto(p, "idle", Idle)
    BY <1>5, <2>1, <2>2 DEF Fail, FinishRun, Typed, TypeOK
  <2> QED BY <1>2, <1>3, <2>3, TypedLeave
<1>6. CASE (Fail(p) /\ p \notin Workers) \/ Crash(p)
  <2>1. runs' = runs /\ Goto(p, "idle", Idle)
    BY <1>6 DEF Fail, Crash
  <2> QED BY <1>2, <1>3, <2>1, TypedLeave
<1> QED BY <1>4, <1>5, <1>6

\* A state event keeps the type of aiPause.
LEMMA EventTyped ==
    ASSUME Typed, NEW s \in Steps, NEW source, StateEvent(s, source)
    PROVE  aiPause' \in [Camps -> {"no", "fresh", "repaired"}]
BY DEF Typed, TypeOK, StateEvent

\* The outcome of a decision is a status it may get.
LEMMA Outcomes ==
    ASSUME NEW result
    PROVE  /\ (CASE result = "ok" -> "auto_applied" [] result = "error" -> "failed"
                 [] OTHER -> "rejected_by_guardrail") \in Final
           /\ (CASE result = "ok" -> "applied" [] result = "error" -> "failed"
                 [] OTHER -> AfterVerdict(result)) \in Final \cup {"proposed"}
BY DEF Final, Applied, AfterVerdict

\* The rows after the outcome of a command, of a claim or of a sweep.
LEMMA Identity ==
    ASSUME Typed, NEW d \in Ids, NEW from, NEW to \in Final \cup {"proposed", "approved"},
           from # "none", Transition(d, from, to)
    PROVE  /\ rows' \in [Ids -> Row]
           /\ \A e \in Ids : rows'[e].step = rows[e].step /\ (rows[e].status = "none" => rows'[e].status = "none")
<1>1. rows \in [Ids -> Row]
  BY TypedWorld
<1> QED BY <1>1, Transitions

LEMMA TypedRecordStep ==
    ASSUME Typed, NEW w \in Workers, RecordStep(w)
    PROVE  Typed'
<1> DEFINE to  == CASE loc[w].result = "ok" -> "auto_applied"
                    [] loc[w].result = "error" -> "failed"
                    [] OTHER -> "rejected_by_guardrail"
           stopped == loc[w].stopped \/ to # "auto_applied"
           new == [loc[w] EXCEPT !.step = NoStep, !.result = "none", !.stopped = stopped]
<1>1. /\ w \in Procs /\ pc[w] = "record" /\ loc[w].job = "run" /\ Transition(loc[w].row, "approved", to)
      /\ IF to = "auto_applied" THEN Applies(loc[w].step) ELSE UNCHANGED aiPause
      /\ Goto(w, "step", new)
      /\ UNCHANGED <<strategy, runs, ozon, mirror, listed, held, lock, mishaps, overtaken>>
  BY DEF RecordStep, Procs
<1>2. to \in Final /\ stopped \in BOOLEAN
  BY <1>1, Outcomes DEF Typed, Local
<1> HIDE DEF to, stopped
<1>3. /\ loc[w] \in Local /\ loc[w].row \in Ids /\ loc[w].step \in Steps
      /\ loc[w].run \in RunIds /\ loc[w].row[1] = loc[w].run
      /\ loc[w].row[2] + Len(loc[w].plan) <= MaxSteps
  BY <1>1 DEF Typed, RunsInv, RowInv
<1>4. /\ new \in Local /\ new.job = loc[w].job /\ new.run = loc[w].run /\ new.plan = loc[w].plan
      /\ new.row = loc[w].row
  BY <1>2, <1>3 DEF Local
<1> HIDE DEF new
<1>5. Fits(w, "step", new)
  BY <1>1, <1>3, <1>4 DEF Fits
<1>6. aiPause' \in [Camps -> {"no", "fresh", "repaired"}]
  BY <1>1, <1>3, EventTyped DEF Applies, Typed, TypeOK
<1>7. World'
  BY <1>1, <1>6, TypedWorld DEF World
<1>8. /\ rows' \in [Ids -> Row]
      /\ \A e \in Ids : rows'[e].step = rows[e].step /\ (rows[e].status = "none" => rows'[e].status = "none")
  BY <1>1, <1>2, <1>3, Identity
<1>9. lock' = w /\ (\A q \in Procs \ {w} : lock = q => lock' = q)
  BY <1>1, Holder
<1>10. pc[w] # "idle" /\ new.run = loc[w].run /\ new.row[2] >= loc[w].row[2]
  <2>1. loc[w].row[2] \in Nat /\ new.row[2] = loc[w].row[2]
    BY <1>3, <1>4 DEF Local
  <2> QED BY <1>1, <1>4, <2>1
<1> QED BY <1>1, <1>5, <1>7, <1>8, <1>9, <1>10, TypedMove

\* A command that is on its way keeps its decision and its command.
LEMMA TypedSend ==
    ASSUME Typed, NEW p \in Procs, pc[p] \in Sending, NEW l \in {"audit", "record"}, NEW res \in Results,
           Goto(p, l, [loc[p] EXCEPT !.result = res]) \/ (Goto(p, l, loc[p]) /\ res = loc[p].result),
           l = "audit" => loc[p].step.kind \in StateKinds,
           World', lock' = lock, runs' = runs, rows' \in [Ids -> Row],
           \A e \in Ids : rows'[e].step = rows[e].step /\ (rows[e].status = "none" => rows'[e].status = "none")
    PROVE  Typed'
<1>1. loc[p] \in Local /\ loc[p].step \in Steps
  BY DEF Typed, RowInv
<1>2. PICK next \in Local :
        /\ Goto(p, l, next) /\ next.job = loc[p].job /\ next.run = loc[p].run /\ next.plan = loc[p].plan
        /\ next.row = loc[p].row /\ next.step = loc[p].step
  <2>1. CASE Goto(p, l, loc[p])
    BY <1>1, <2>1
  <2>2. CASE Goto(p, l, [loc[p] EXCEPT !.result = res])
    <3> DEFINE next == [loc[p] EXCEPT !.result = res]
    <3>1. next \in Local /\ next.job = loc[p].job /\ next.run = loc[p].run /\ next.plan = loc[p].plan
          /\ next.row = loc[p].row /\ next.step = loc[p].step
      BY <1>1 DEF Local
    <3>2. Goto(p, l, next)
      BY <2>2
    <3> HIDE DEF next
    <3> QED BY <3>1, <3>2
  <2> QED BY <2>1, <2>2
<1>3. Fits(p, l, next)
  <2>1. p \in Workers => /\ loc[p].job = "run" /\ loc[p].run \in RunIds /\ loc[p].row[1] = loc[p].run
                         /\ loc[p].row[2] + Len(loc[p].plan) <= MaxSteps
    BY DEF Typed, RunsInv
  <2>2. p \notin Workers => loc[p].job \in {"approve", "manual"}
    BY DEF Typed, RunsInv
  <2>3. (loc[p].job # "manual" => loc[p].row \in Ids) /\ (loc[p].job = "manual" => loc[p].step.kind \in StateKinds)
    BY DEF Typed, RowInv
  <2> QED BY <1>1, <1>2, <2>1, <2>2, <2>3 DEF Fits
<1>4. lock' = p /\ \A q \in Procs \ {p} : lock = q => lock' = q
  BY Holder
<1>5. p \in Workers /\ l # "idle" => pc[p] # "idle" /\ next.run = loc[p].run /\ next.row[2] >= loc[p].row[2]
  <2>1. loc[p].row[2] \in Nat /\ next.row[2] = loc[p].row[2]
    BY <1>1, <1>2 DEF Local
  <2> QED BY <1>2, <2>1
<1> QED BY <1>2, <1>3, <1>4, <1>5, TypedMove

\* A write that is counted keeps the rows in order.
LEMMA WrittenRows ==
    ASSUME Typed, NEW p \in Procs, pc[p] \in Sending, NEW hidden \in Nat, Written(p, hidden)
    PROVE  /\ rows' \in [Ids -> Row]
           /\ \A e \in Ids :
                /\ rows'[e].step = rows[e].step /\ rows'[e].status = rows[e].status /\ rows'[e].auto = rows[e].auto
                /\ rows'[e].today = rows[e].today /\ rows'[e].own = rows[e].own
                /\ IF loc[p].job # "manual" /\ e = loc[p].row
                   THEN rows'[e].writes = rows[e].writes + 1 /\ rows'[e].masked = rows[e].masked + hidden
                   ELSE rows'[e].writes = rows[e].writes /\ rows'[e].masked = rows[e].masked
<1>1. rows \in [Ids -> Row]
  BY TypedWorld
<1>2. CASE loc[p].job = "manual"
  BY <1>1, <1>2 DEF Written
<1>3. CASE loc[p].job # "manual"
  <2> DEFINE d   == loc[p].row
             new == [rows[d] EXCEPT !.writes = rows[d].writes + 1, !.masked = rows[d].masked + hidden]
  <2>1. d \in Ids
    BY <1>3 DEF Typed, RowInv
  <2>2. rows[d] \in Row /\ rows[d].writes + 1 \in Nat /\ rows[d].masked + hidden \in Nat
    BY <1>1, <2>1 DEF Row
  <2>3. /\ new \in Row /\ new.step = rows[d].step /\ new.status = rows[d].status /\ new.auto = rows[d].auto
        /\ new.today = rows[d].today /\ new.own = rows[d].own
        /\ new.writes = rows[d].writes + 1 /\ new.masked = rows[d].masked + hidden
    BY <2>2 DEF Row
  <2>4. rows' = [rows EXCEPT ![d] = new]
    BY <1>3 DEF Written
  <2> HIDE DEF new
  <2>5. rows' \in [Ids -> Row] /\ rows'[d] = new /\ \A e \in Ids \ {d} : rows'[e] = rows[e]
    BY <1>1, <2>1, <2>3, <2>4
  <2> QED BY <1>3, <2>3, <2>5
<1> QED BY <1>2, <1>3

\* Every way a command may end, and its audit.
LEMMA TypedWork ==
    ASSUME Typed, NEW p \in Procs, Work(p)
    PROVE  Typed'
<1>1. loc[p] \in Local /\ World /\ rows \in [Ids -> Row]
  BY TypedWorld DEF Typed
<1>2. pc[p] \in Sending => loc[p].step \in Steps
  BY DEF Typed, RowInv
<1>3. \A e \in Ids : rows[e].step = rows[e].step /\ (rows[e].status = "none" => rows[e].status = "none")
  OBVIOUS
<1>4. Effect(p) /\ pc[p] \in Sending => ozon' \in SUBSET Camps /\ held' \in SUBSET Camps
  <2> SUFFICES ASSUME Effect(p), pc[p] \in Sending PROVE ozon' \in SUBSET Camps /\ held' \in SUBSET Camps
    OBVIOUS
  <2>1. loc[p].step.camp \in Camps /\ ozon \in SUBSET Camps /\ held \in SUBSET Camps
    BY <1>1, <1>2 DEF Steps, World
  <2>2. \/ ozon' = ozon \ {loc[p].step.camp} \/ ozon' = ozon \cup {loc[p].step.camp} \/ ozon' = ozon
    BY DEF Effect
  <2>3. held' = held \ {loc[p].step.camp} \/ held' = held
    BY DEF Effect
  <2> QED BY <2>1, <2>2, <2>3
<1>5. CASE CallAccepted(p)
  <2>1. pc[p] = "call" /\ Effect(p) /\ Written(p, 0)
        /\ UNCHANGED <<strategy, runs, mirror, listed, aiPause, lock, mishaps, overtaken>>
    BY <1>5 DEF CallAccepted
  <2>2. PICK l \in {"audit", "record"} : /\ Goto(p, l, [loc[p] EXCEPT !.result = "ok"])
                                         /\ l = "audit" => loc[p].step.kind \in StateKinds
    BY <1>5 DEF CallAccepted
  <2>3. World'
    BY <1>1, <1>4, <2>1 DEF World
  <2>4. /\ rows' \in [Ids -> Row]
        /\ \A e \in Ids : rows'[e].step = rows[e].step /\ (rows[e].status = "none" => rows'[e].status = "none")
    BY <2>1, WrittenRows
  <2> QED BY <2>1, <2>2, <2>3, <2>4, TypedSend
<1>6. CASE CallRefused(p)
  <2>1. pc[p] = "call" /\ Goto(p, "record", [loc[p] EXCEPT !.result = "error"])
        /\ UNCHANGED <<strategy, runs, rows, site, lock, mishaps, overtaken>>
    BY <1>6 DEF CallRefused
  <2>2. World'
    BY <1>1, <2>1 DEF World, site
  <2> QED BY <1>1, <2>1, <2>2, TypedSend
<1>7. CASE CallOverQuota(p)
  <2>1. pc[p] = "call" /\ Goto(p, "record", [loc[p] EXCEPT !.result = "transient"])
        /\ UNCHANGED <<strategy, runs, rows, site, lock, mishaps, overtaken>>
    BY <1>7 DEF CallOverQuota
  <2>2. World'
    BY <1>1, <2>1 DEF World, site
  <2> QED BY <1>1, <2>1, <2>2, TypedSend
<1>8. CASE CallLost(p)
  <2>1. pc[p] = "call" /\ Effect(p) /\ Mishap
        /\ UNCHANGED <<strategy, runs, mirror, listed, aiPause, lock, overtaken>>
    BY <1>8 DEF CallLost
  <2>2. PICK hidden \in Nat, res \in {"error", "transient"} :
           Written(p, hidden) /\ Goto(p, "record", [loc[p] EXCEPT !.result = res])
    BY <1>8 DEF CallLost
  <2>3. World'
    BY <1>1, <1>4, <2>1, Mishaps DEF World
  <2>4. /\ rows' \in [Ids -> Row]
        /\ \A e \in Ids : rows'[e].step = rows[e].step /\ (rows[e].status = "none" => rows'[e].status = "none")
    BY <2>1, <2>2, WrittenRows
  <2> QED BY <2>1, <2>2, <2>3, <2>4, TypedSend
<1>9. CASE Audit(p)
  <2>1. pc[p] = "audit" /\ loc[p].step \in Steps /\ UNCHANGED <<strategy, runs, rows, ozon, listed, lock, overtaken>>
    BY <1>2, <1>9 DEF Audit
  <2>2. loc[p].step.camp \in Camps
    BY <2>1 DEF Steps
  <2>3. \A source : StateEvent(loc[p].step, source) => aiPause' \in [Camps -> {"no", "fresh", "repaired"}]
    BY <2>1, EventTyped
  <2>4. PICK res \in Results :
          Goto(p, "record", [loc[p] EXCEPT !.result = res]) \/ (Goto(p, "record", loc[p]) /\ res = loc[p].result)
    <3>1. loc[p].result \in Results
      BY <1>1 DEF Local
    <3> QED BY <1>9, <3>1 DEF Audit
  <2>5. /\ mirror' = mirror \ {loc[p].step.camp} \/ mirror' = mirror \cup {loc[p].step.camp} \/ mirror' = mirror
        /\ held' = held \cup {loc[p].step.camp} \/ held' = held
        /\ aiPause' = aiPause \/ \E source : StateEvent(loc[p].step, source)
        /\ mishaps' = mishaps \/ Mishap
    BY <1>9 DEF Audit
  <2>6. mirror' \in SUBSET Camps /\ held' \in SUBSET Camps /\ mishaps' \in 0 .. MaxMishaps
        /\ aiPause' \in [Camps -> {"no", "fresh", "repaired"}]
    BY <1>1, <2>2, <2>3, <2>5, Mishaps DEF World
  <2>7. World'
    BY <1>1, <2>1, <2>6 DEF World
  <2>8. rows' \in [Ids -> Row]
        /\ \A e \in Ids : rows'[e].step = rows[e].step /\ (rows[e].status = "none" => rows'[e].status = "none")
    BY <1>1, <2>1
  <2> QED BY <2>1, <2>4, <2>7, <2>8, TypedSend
<1> QED BY <1>5, <1>6, <1>7, <1>8, <1>9 DEF Work

LEMMA TypedApprove ==
    ASSUME Typed, NEW u \in Users, NEW d \in Ids, Approve(u, d)
    PROVE  Typed'
<1>1. /\ u \in Procs /\ pc[u] = "idle" /\ lock = None
      /\ UNCHANGED <<strategy, runs, site, mishaps, overtaken>>
  BY DEF Approve, Procs
<1>2. PICK verdict : IF verdict = ""
         THEN /\ lock' = u /\ Goto(u, "claim", [Idle EXCEPT !.job = "approve", !.row = d])
              /\ UNCHANGED rows
         ELSE /\ Transition(d, "proposed", AfterVerdict(verdict))
              /\ UNCHANGED <<lock, pc, loc>>
  BY DEF Approve
<1>3. World'
  BY <1>1, <1>2, TypedWorld DEF World, site
<1>4. u \notin Workers
  BY NamesAssumption
<1>5. CASE verdict = ""
  <2> DEFINE new == [Idle EXCEPT !.job = "approve", !.row = d]
  <2>1. d \in Nat \X Nat
    BY Bounds DEF Ids, RunIds
  <2>2. new \in Local /\ new.job = "approve" /\ new.row = d
    BY <2>1, IdleLocal DEF Local
  <2>3. Goto(u, "claim", new) /\ lock' = u /\ rows' = rows
    BY <1>2, <1>5
  <2> HIDE DEF new
  <2>4. Fits(u, "claim", new)
    BY <1>4, <2>2 DEF Fits
  <2>5. \A q \in Procs \ {u} : lock = q => lock' = q
    BY <1>1, NamesAssumption
  <2>6. rows' \in [Ids -> Row] /\ \A e \in Ids : rows'[e].step = rows[e].step /\ (rows[e].status = "none" => rows'[e].status = "none")
    BY <2>3, TypedWorld
  <2> QED BY <1>1, <1>3, <1>4, <2>3, <2>4, <2>5, <2>6, TypedMove
<1>6. CASE verdict # ""
  <2>1. AfterVerdict(verdict) \in Final \cup {"proposed", "approved"}
    BY DEF AfterVerdict, Final
  <2>2. /\ rows' \in [Ids -> Row]
        /\ \A e \in Ids : rows'[e].step = rows[e].step /\ (rows[e].status = "none" => rows'[e].status = "none")
    BY <1>2, <1>6, <2>1, Identity
  <2> QED BY <1>1, <1>2, <1>3, <1>6, <2>2, TypedStill DEF Typed, TypeOK
<1> QED BY <1>5, <1>6

LEMMA TypedClaim ==
    ASSUME Typed, NEW u \in Users, Claim(u)
    PROVE  Typed'
<1> DEFINE d == loc[u].row
<1>1. /\ u \in Procs /\ u \notin Workers /\ pc[u] = "claim"
      /\ Transition(d, "proposed", "approved")
      /\ UNCHANGED <<strategy, runs, site, mishaps>>
  BY NamesAssumption DEF Claim, Procs
<1>2. d \in Ids /\ loc[u] \in Local /\ loc[u].job = "approve" /\ d \in Nat \X Nat
  BY <1>1 DEF Typed, RowInv, Local
<1>3. /\ rows' \in [Ids -> Row]
      /\ \A e \in Ids : rows'[e].step = rows[e].step /\ (rows[e].status = "none" => rows'[e].status = "none")
  BY <1>1, <1>2, Identity
<1>4. CASE rows[d].status = "proposed"
  <2>1. Apply(u, d, rows[d].step, loc[u]) /\ UNCHANGED <<lock, overtaken>>
    BY <1>4 DEF Claim
  <2>2. rows[d].step \in Steps
    BY <1>2, <1>4 DEF Typed, FreshInv
  <2>3. PICK l \in {"call", "record"}, next \in Local :
          Goto(u, l, next) /\ next.job = "approve" /\ next.row = d /\ next.step = rows[d].step
    BY <1>1, <1>2, <2>1, <2>2, Applying
  <2>4. Fits(u, l, next)
    BY <1>1, <1>2, <2>2, <2>3 DEF Fits
  <2>5. World'
    BY <1>1, <2>1, TypedWorld DEF World, site
  <2>6. lock' = u /\ \A q \in Procs \ {u} : lock = q => lock' = q
    BY <1>1, <2>1, Holder
  <2> QED BY <1>1, <1>3, <2>3, <2>4, <2>5, <2>6, TypedMove
<1>5. CASE rows[d].status # "proposed"
  <2>1. Leave(u)
    BY <1>5 DEF Claim
  <2>2. World'
    BY <1>1, <2>1, TypedWorld DEF World, site, Leave, Release
  <2>3. \A q \in Procs \ {u} : lock = q => lock' = q
    BY <1>1, Holder
  <2> QED BY <1>1, <1>3, <2>1, <2>2, <2>3, TypedLeave DEF Leave
<1> QED BY <1>4, <1>5

LEMMA TypedRecordApproval ==
    ASSUME Typed, NEW u \in Users, RecordApproval(u) \/ EndSwitch(u)
    PROVE  Typed'
<1>1. /\ u \in Procs /\ pc[u] = "record" /\ Leave(u)
      /\ UNCHANGED <<strategy, runs, ozon, mirror, listed, held, mishaps>>
  BY DEF RecordApproval, EndSwitch, Procs, site
<1>2. loc[u].step \in Steps
  BY <1>1 DEF Typed, RowInv
<1>3. /\ rows' \in [Ids -> Row]
      /\ \A e \in Ids : rows'[e].step = rows[e].step /\ (rows[e].status = "none" => rows'[e].status = "none")
      /\ aiPause' \in [Camps -> {"no", "fresh", "repaired"}]
  <2>1. CASE EndSwitch(u)
    BY <2>1, TypedWorld DEF EndSwitch, site, World
  <2>2. CASE RecordApproval(u)
    <3> DEFINE to == CASE loc[u].result = "ok" -> "applied"
                       [] loc[u].result = "error" -> "failed"
                       [] OTHER -> AfterVerdict(loc[u].result)
    <3>1. /\ loc[u].job = "approve" /\ Transition(loc[u].row, "approved", to)
          /\ IF to = "applied" THEN Applies(loc[u].step) ELSE UNCHANGED aiPause
      BY <2>2 DEF RecordApproval
    <3>2. to \in Final \cup {"proposed"}
      BY Outcomes
    <3> HIDE DEF to
    <3>3. loc[u].row \in Ids
      BY <1>1, <3>1 DEF Typed, RowInv
    <3>4. aiPause' \in [Camps -> {"no", "fresh", "repaired"}]
      BY <1>2, <3>1, EventTyped DEF Applies, Typed, TypeOK
    <3> QED BY <3>1, <3>2, <3>3, <3>4, Identity
  <2> QED BY <2>1, <2>2
<1>4. World'
  BY <1>1, <1>3, TypedWorld DEF World, Leave, Release
<1>5. \A q \in Procs \ {u} : lock = q => lock' = q
  BY <1>1, Holder
<1>6. runs' = runs /\ Goto(u, "idle", Idle)
  BY <1>1 DEF Leave
<1> QED BY <1>1, <1>3, <1>4, <1>5, <1>6, TypedLeave

LEMMA TypedSwitch ==
    ASSUME Typed, NEW u \in Users, NEW s \in [kind : StateKinds, camp : Camps], Switch(u, s)
    PROVE  Typed'
<1> DEFINE new == [Idle EXCEPT !.job = "manual", !.step = s]
<1>1. /\ u \in Procs /\ u \notin Workers /\ pc[u] = "idle" /\ lock = None /\ lock' = u
      /\ Goto(u, "call", new) /\ UNCHANGED <<strategy, runs, rows, site, mishaps, overtaken>>
  BY NamesAssumption DEF Switch, Procs
<1>2. s \in Steps /\ s.kind \in StateKinds
  BY DEF Steps, Kinds
<1>3. new \in Local /\ new.job = "manual" /\ new.step = s
  BY <1>2, IdleLocal DEF Local
<1> HIDE DEF new
<1>4. Fits(u, "call", new)
  BY <1>1, <1>2, <1>3 DEF Fits
<1>5. World'
  BY <1>1, TypedWorld DEF World, site
<1>6. \A q \in Procs \ {u} : lock = q => lock' = q
  BY <1>1, NamesAssumption
<1>7. rows' \in [Ids -> Row]
      /\ \A e \in Ids : rows'[e].step = rows[e].step /\ (rows[e].status = "none" => rows'[e].status = "none")
  BY <1>1, TypedWorld
<1> QED BY <1>1, <1>4, <1>5, <1>6, <1>7, TypedMove

\* A new day changes nothing but the day a row counts for.
LEMMA DayRows ==
    ASSUME Typed, NewDay
    PROVE  /\ rows' \in [Ids -> Row]
           /\ \A e \in Ids :
                /\ rows'[e].step = rows[e].step /\ rows'[e].status = rows[e].status
                /\ rows'[e].auto = rows[e].auto /\ rows'[e].own = rows[e].own /\ ~rows'[e].today
                /\ rows'[e].writes = rows[e].writes /\ rows'[e].masked = rows[e].masked
<1> DEFINE next(r) == [r EXCEPT !.today = FALSE]
<1>1. \A r \in Row : /\ next(r) \in Row /\ next(r).step = r.step /\ next(r).status = r.status /\ next(r).auto = r.auto
                     /\ next(r).own = r.own /\ ~next(r).today /\ next(r).writes = r.writes /\ next(r).masked = r.masked
  BY DEF Row
<1>2. rows' = [d \in Ids |-> next(rows[d])]
  BY DEF NewDay
<1>3. \A e \in Ids : rows[e] \in Row
  BY TypedWorld
<1> HIDE DEF next
<1> QED BY <1>1, <1>2, <1>3

\* What happens without the lock: decisions that are refused or expire, the strategy,
\* the sync, the clock.
LEMMA TypedOutside ==
    ASSUME Typed,
           \/ \E u \in Users, d \in Ids : Reject(u, d)
           \/ EditStrategy \/ SyncRead \/ (\E c \in Camps : SyncWrite(c) \/ Repair(c))
           \/ (\E r \in RunIds : ExpireRun(r)) \/ (\E d \in Ids : Expire(d)) \/ NewDay
    PROVE  Typed'
<1>1. /\ World /\ rows \in [Ids -> Row]
      /\ runs \in [RunIds -> [status : {"none", "running", "finished"}, strategy : 0 .. MaxStrategies]]
  BY TypedWorld DEF Typed, TypeOK
<1>2. UNCHANGED <<pc, loc, lock>>
  BY DEF Reject, EditStrategy, SyncRead, SyncWrite, Repair, ExpireRun, Expire, NewDay
<1>3. /\ rows' \in [Ids -> Row]
      /\ \A e \in Ids : rows'[e].step = rows[e].step /\ (rows[e].status = "none" => rows'[e].status = "none")
  <2>1. CASE \E u \in Users, d \in Ids : Reject(u, d)
    BY <2>1, Identity DEF Reject, Final
  <2>2. CASE \E d \in Ids : Expire(d)
    BY <2>2, Identity DEF Expire, Final
  <2>3. CASE NewDay
    BY <2>3, DayRows
  <2>4. CASE rows' = rows
    BY <1>1, <2>4
  <2> QED BY <2>1, <2>2, <2>3, <2>4 DEF EditStrategy, SyncRead, SyncWrite, Repair, ExpireRun
<1>4. World'
  <2>1. CASE EditStrategy
    <3>1. strategy.id \in Nat /\ strategy.id >= 1
      BY <1>1, BoundsAssumption DEF World
    <3>2. strategy' \in [id : 1 .. MaxStrategies, level : Levels]
      BY <2>1, <3>1, BoundsAssumption DEF EditStrategy
    <3> QED BY <1>1, <1>2, <2>1, <3>2, Mishaps DEF EditStrategy, World, site
  <2>2. CASE SyncRead \/ \E c \in Camps : SyncWrite(c) \/ Repair(c)
    BY <1>1, <2>2 DEF World, SyncRead, SyncWrite, Repair
  <2>3. CASE (\E u \in Users, d \in Ids : Reject(u, d)) \/ (\E r \in RunIds : ExpireRun(r))
             \/ (\E d \in Ids : Expire(d)) \/ NewDay
    BY <1>1, <2>3 DEF World, Reject, ExpireRun, Expire, NewDay, site
  <2> QED BY <2>1, <2>2, <2>3
<1>5. /\ runs' \in [RunIds -> [status : {"none", "running", "finished"}, strategy : 0 .. MaxStrategies]]
      /\ \A r \in RunIds : runs[r].status # "none" => runs'[r].status # "none"
  <2>1. CASE \E r \in RunIds : ExpireRun(r)
    BY <1>1, <2>1 DEF ExpireRun
  <2>2. CASE runs' = runs
    BY <1>1, <2>2
  <2> QED BY <2>1, <2>2 DEF Reject, EditStrategy, SyncRead, SyncWrite, Repair, Expire, NewDay
<1> QED BY <1>2, <1>3, <1>4, <1>5, TypedStill

LEMMA TypedNext == Typed /\ [Next]_vars => Typed'
<1> SUFFICES ASSUME Typed, [Next]_vars PROVE Typed'
  OBVIOUS
<1>1. CASE \E w \in Workers : StartRun(w) \/ PlanFails(w) \/ PlanVoid(w) \/ Execute(w) \/ RunWork(w)
  BY <1>1, TypedStart, TypedEnds, TypedExecute, TypedStep, TypedRecordStep, TypedWork DEF RunWork, Procs
<1>2. CASE \E u \in Users : \/ \E d \in Ids : Approve(u, d)
                            \/ \E s \in [kind : StateKinds, camp : Camps] : Switch(u, s)
                            \/ UserWork(u)
  BY <1>2, TypedApprove, TypedSwitch, TypedClaim, TypedRecordApproval, TypedWork DEF UserWork, Procs
<1>3. CASE \E p \in Procs : Fail(p) \/ Crash(p)
  BY <1>3, TypedFail
<1>4. CASE \/ \E u \in Users, d \in Ids : Reject(u, d)
           \/ EditStrategy \/ SyncRead \/ (\E c \in Camps : SyncWrite(c) \/ Repair(c))
           \/ (\E r \in RunIds : ExpireRun(r)) \/ (\E d \in Ids : Expire(d)) \/ NewDay
  BY <1>4, TypedOutside
<1>5. CASE UNCHANGED vars
  <2>1. UNCHANGED <<pc, loc, lock>> /\ rows' = rows /\ runs' = runs
    BY <1>5 DEF vars
  <2>2. World' /\ rows' \in [Ids -> Row]
    BY <1>5, TypedWorld DEF vars, site, World
  <2> QED BY <2>1, <2>2, TypedStill DEF Typed, TypeOK
<1> QED BY <1>1, <1>2, <1>3, <1>4, <1>5 DEF Next

\* Every reachable state has its types, and labels, locals, rows and lock agree: a
\* worker or request past its checks holds the lock, and the row of a step that
\* was not executed does not exist.
THEOREM TypeCorrect == Spec => []TypeOK
<1>1. Typed => TypeOK
  BY DEF Typed
<1> QED BY <1>1, TypedInit, TypedNext, PTL DEF Spec

-----------------------------------------------------------------------------
(* What the steps do, as far as the safety properties are concerned.  Each *)
(* lemma covers actions that look alike to them.                           *)

Only(p) == \A q \in Procs \ {p} : pc'[q] = pc[q] /\ loc'[q] = loc[q]

\* p holds the lock, or nobody does.
Alone(p) == \A q \in Procs \ {p} : pc[q] \notin Working

\* Rows keep everything but their status and their day.
SameWrites == \A e \in Ids :
    /\ rows'[e].step = rows[e].step /\ rows'[e].auto = rows[e].auto /\ rows'[e].own = rows[e].own
    /\ rows'[e].writes = rows[e].writes /\ rows'[e].masked = rows[e].masked

SameRuns == \A r \in RunIds : runs[r].status # "none" => runs'[r].strategy = runs[r].strategy

\* Goto moves one process.
LEMMA Moved ==
    ASSUME Typed, NEW p \in Procs, NEW l, NEW new, Goto(p, l, new)
    PROVE  pc'[p] = l /\ loc'[p] = new /\ Only(p)
BY DEF Typed, TypeOK, Goto, Only

LEMMA NobodyElse ==
    ASSUME Typed, NEW p \in Procs, pc[p] \in Working \/ lock = None \/ lock = p
    PROVE  Alone(p)
BY Holder, NamesAssumption DEF Alone, Typed, LockInv

\* A process that leaves, and a run that starts or ends.
QuietStep(p) ==
    \/ p \in Workers /\ (StartRun(p) \/ PlanFails(p) \/ PlanVoid(p) \/ EndPlan(p))
    \/ p \in Users /\ EndSwitch(p)
    \/ Fail(p) \/ Crash(p)

LEMMA Quiet ==
    ASSUME Typed, NEW p \in Procs, QuietStep(p)
    PROVE  /\ Only(p) /\ pc'[p] \notin Working
           /\ UNCHANGED <<strategy, rows, site>> /\ SameRuns
           /\ overtaken' = overtaken \/ Alone(p)
<1>1. Only(p) /\ pc'[p] \notin Working
  <2>1. \/ Goto(p, "idle", Idle)
        \/ \E new : Goto(p, "plan", new)
    BY DEF QuietStep, StartRun, PlanFails, PlanVoid, EndPlan, EndSwitch, Leave, Fail, Crash, FinishRun
  <2> QED BY <2>1, Moved
<1>2. UNCHANGED <<strategy, rows, site>>
  BY DEF QuietStep, StartRun, PlanFails, PlanVoid, EndPlan, EndSwitch, Fail, Crash, site
<1>3. SameRuns
  <2>1. CASE FinishRun(p)
    BY <2>1 DEF FinishRun, Typed, TypeOK, SameRuns
  <2>2. CASE StartRun(p)
    BY <2>2 DEF StartRun, Typed, TypeOK, SameRuns
  <2>3. CASE runs' = runs
    BY <2>3 DEF SameRuns
  <2> QED BY <2>1, <2>2, <2>3 DEF QuietStep, PlanFails, PlanVoid, EndPlan, EndSwitch, Fail, Crash
<1>4. overtaken' = overtaken \/ pc[p] \in Working \/ lock = p
  BY DEF QuietStep, StartRun, PlanFails, PlanVoid, EndPlan, EndSwitch, Fail, Crash
<1> QED BY <1>1, <1>2, <1>3, <1>4, NobodyElse

\* A proposal that is refused or expires, and the clock.
OutsideRows ==
    \/ \E u \in Users, d \in Ids : Reject(u, d)
    \/ \E u \in Users, d \in Ids : Approve(u, d) /\ lock' = lock
    \/ (\E d \in Ids : Expire(d)) \/ NewDay

LEMMA Outside ==
    ASSUME Typed, OutsideRows
    PROVE  /\ UNCHANGED <<pc, loc, strategy, runs, site, overtaken>> /\ SameWrites
           /\ \A e \in Ids :
                /\ \/ rows'[e].status = rows[e].status
                   \/ rows[e].status = "proposed" /\ rows'[e].status \notin Applied \cup {"approved", "none"}
                /\ rows'[e].status \in Applied /\ rows'[e].today => rows[e].today
<1>1. CASE \E d \in Ids, to \in {"expired", "rejected_by_user", "rejected_by_guardrail", "proposed"} :
             rows[d].status = "proposed" /\ Transition(d, "proposed", to)
  <2>1. PICK d \in Ids, to \in {"expired", "rejected_by_user", "rejected_by_guardrail", "proposed"} :
             rows[d].status = "proposed" /\ Transition(d, "proposed", to)
    BY <1>1
  <2>2. to \in Final \cup {"proposed", "approved"} /\ to \notin Applied \cup {"approved", "none"}
    BY DEF Final, Applied
  <2>3. SameWrites /\ \A e \in Ids : rows'[e].status = IF e = d THEN to ELSE rows[e].status
    BY <2>1, <2>2, Transitions, TypedWorld DEF SameWrites
  <2>4. \A e \in Ids \ {d} : rows'[e] = rows[e]
    BY <2>1, TypedWorld DEF Transition
  <2>5. UNCHANGED <<pc, loc, strategy, runs, site, overtaken>>
    <3>1. CASE NewDay
      BY <3>1 DEF NewDay
    <3>2. CASE \E u \in Users, e \in Ids : Approve(u, e) /\ lock' = lock
      BY <3>2, NamesAssumption DEF Approve, Procs
    <3> QED BY <3>1, <3>2 DEF OutsideRows, Reject, Expire
  <2> QED BY <2>1, <2>2, <2>3, <2>4, <2>5
<1>2. CASE NewDay
  BY <1>2, DayRows DEF NewDay, SameWrites
<1>3. CASE \E u \in Users, d \in Ids : Approve(u, d) /\ lock' = lock
  <2>1. PICK u \in Users, d \in Ids : Approve(u, d) /\ lock' = lock
    BY <1>3
  <2>2. lock' # u /\ rows[d].status = "proposed"
    BY <2>1, NamesAssumption DEF Approve, Procs
  <2>3. PICK verdict : Transition(d, "proposed", AfterVerdict(verdict))
    BY <2>1, <2>2 DEF Approve
  <2> QED BY <1>1, <2>2, <2>3 DEF AfterVerdict
<1> QED BY <1>1, <1>2, <1>3 DEF OutsideRows, Reject, Expire

\* A run begins to execute its plan.
LEMMA Executed ==
    ASSUME Typed, NEW w \in Workers, Execute(w)
    PROVE  /\ Only(w) /\ Alone(w) /\ pc'[w] = "step" /\ UNCHANGED <<strategy, runs, rows, site, overtaken>>
           /\ loc'[w].job = "run" /\ loc'[w].run = loc[w].run /\ loc'[w].level = strategy.level
           /\ strategy.id = runs[loc[w].run].strategy
           /\ ~loc'[w].bad => \A i \in 1 .. Len(loc'[w].plan) :
                                 ~loc'[w].plan[i].own /\ ~StateForbids(loc'[w].plan[i], strategy.level)
<1>1. PICK judged \in Seq(Planned), bad \in BOOLEAN :
              /\ Len(judged) \in Nat /\ Len(judged) <= MaxSteps
              /\ ~bad => \A i \in 1 .. Len(judged) : ~judged[i].own /\ ~StateForbids(judged[i], strategy.level)
              /\ Goto(w, "step", [loc[w] EXCEPT !.plan = judged, !.bad = bad, !.level = strategy.level])
  BY Executing
<1> DEFINE new == [loc[w] EXCEPT !.plan = judged, !.bad = bad, !.level = strategy.level]
<1>2. w \in Procs /\ loc[w] \in Local /\ pc[w] = "plan" /\ lock = None /\ strategy.id = runs[loc[w].run].strategy
      /\ UNCHANGED <<strategy, runs, rows, site, overtaken>>
  BY DEF Execute, Procs, Typed
<1>3. loc[w].job = "run"
  BY <1>2 DEF Typed, RunsInv
<1>4. new.plan = judged /\ new.bad = bad /\ new.level = strategy.level /\ new.run = loc[w].run /\ new.job = loc[w].job
  BY <1>2 DEF Local
<1>5. Goto(w, "step", new)
  BY <1>1
<1> HIDE DEF new
<1>6. pc'[w] = "step" /\ loc'[w] = new /\ Only(w) /\ Alone(w)
  BY <1>2, <1>5, Moved, NobodyElse
<1> QED BY <1>1, <1>2, <1>3, <1>4, <1>6

\* One step of a plan: a new row, and a command only if the step is a claim.
LEMMA Stepped ==
    ASSUME Typed, NEW w \in Workers, Step(w)
    PROVE  /\ Only(w) /\ Alone(w) /\ UNCHANGED <<strategy, runs, site, overtaken>> /\ pc[w] = "step"
           /\ loc'[w].job = "run" /\ loc'[w].run = loc[w].run /\ loc'[w].level = loc[w].level
           /\ loc'[w].bad = loc[w].bad /\ loc'[w].plan = Tail(loc[w].plan)
           /\ loc[w].plan \in Seq(Planned) /\ loc[w].plan # <<>>
           /\ loc'[w].row \in Ids /\ rows[loc'[w].row].status = "none"
           /\ loc'[w].row[1] = loc[w].run /\ loc'[w].row[2] = loc[w].row[2] + 1
           /\ loc[w].stopped => loc'[w].stopped
           /\ \A e \in Ids \ {loc'[w].row} : rows'[e] = rows[e]
           /\ LET d == loc'[w].row IN
              /\ rows'[d].writes = 0 /\ rows'[d].masked = 0
              /\ rows'[d].status \in {"shadow", "rejected_by_guardrail", "proposed", "approved"}
              /\ rows'[d].status = "proposed" => ~rows'[d].auto
              /\ rows'[d].own => loc[w].plan[1].own
              /\ rows'[d].auto => rows'[d].status = "approved"
              /\ rows'[d].status \in {"proposed", "approved"} => ~loc[w].plan[1].own /\ ~loc[w].bad /\ ~loc[w].stopped
              /\ \/ pc'[w] = "step" /\ rows'[d].status # "approved"
                 \/ /\ pc'[w] \in {"call", "record"} /\ rows'[d].status = "approved"
                    /\ ~loc[w].bad /\ loc[w].level >= 3
                    /\ loc'[w].step.kind = loc[w].plan[1].kind /\ loc'[w].step.camp = loc[w].plan[1].camp
                    /\ loc'[w].result # "ok" /\ (pc'[w] = "call" => ~CapReached(1))
<1> DEFINE s      == Head(loc[w].plan)
           step   == [kind |-> s.kind, camp |-> s.camp]
           d      == <<loc[w].run, loc[w].row[2] + 1>>
           status == InsertStatus(s.own \/ loc[w].bad \/ loc[w].stopped, loc[w].level)
           auto   == status = "approved"
           today  == status \in {"proposed", "approved"}
           row    == [NoRow EXCEPT !.step = step, !.status = status, !.own = s.own, !.auto = auto, !.today = today]
           new    == [loc[w] EXCEPT !.plan = Tail(loc[w].plan)]
           moved  == [new EXCEPT !.row = d, !.stopped = loc[w].stopped \/ status = "rejected_by_guardrail"]
<1>1. /\ w \in Procs /\ pc[w] = "step" /\ loc[w].plan # <<>>
      /\ UNCHANGED <<strategy, runs, site, overtaken>>
      /\ rows' = [rows EXCEPT ![d] = row]
      /\ IF status = "approved" THEN Apply(w, d, step, new) ELSE Goto(w, "step", moved)
  BY DEF Step, Procs
<1>2. /\ loc[w] \in Local /\ loc[w].job = "run" /\ loc[w].run \in RunIds /\ loc[w].plan \in Seq(Planned)
      /\ loc[w].row[2] \in Nat /\ loc[w].row[2] + Len(loc[w].plan) <= MaxSteps
      /\ loc[w].stopped \in BOOLEAN /\ loc[w].bad \in BOOLEAN /\ loc[w].level \in 0 .. 3
  BY <1>1 DEF Typed, RunsInv, Local
<1>3. /\ s \in Planned /\ s = loc[w].plan[1] /\ Tail(loc[w].plan) \in Seq(Planned)
      /\ Len(loc[w].plan) > 0 /\ Len(loc[w].plan) \in Nat
  BY <1>1, <1>2, PlanParts
<1>4. step \in Steps /\ step.kind = s.kind /\ step.camp = s.camp
  BY <1>3 DEF Planned, Steps
<1>5. d \in Ids /\ d \in Nat \X Nat /\ d[1] = loc[w].run /\ d[2] = loc[w].row[2] + 1
  <2>1. loc[w].row[2] + 1 \in 1 .. MaxSteps
    <3>1. \A a, b, m \in Nat : a + b <= m /\ b > 0 => a + 1 \in 1 .. m
      OBVIOUS
    <3>2. loc[w].row[2] \in Nat /\ Len(loc[w].plan) \in Nat /\ MaxSteps \in Nat
      BY <1>2, <1>3, Bounds
    <3> QED BY <1>2, <1>3, <3>1, <3>2
  <2>2. loc[w].run \in Nat /\ MaxSteps \in Nat
    BY <1>2, Bounds DEF RunIds
  <2> QED BY <1>2, <2>1, <2>2 DEF Ids
<1>6. /\ status \in {"shadow", "rejected_by_guardrail", "proposed", "approved"}
      /\ status = "approved" => ~loc[w].bad /\ loc[w].level >= 3
      /\ status \in {"proposed", "approved"} => ~s.own /\ ~loc[w].bad /\ ~loc[w].stopped
  BY <1>2 DEF InsertStatus
<1>7. rows[d].status = "none"
  <2>1. d[2] > loc[w].row[2]
    BY <1>2, <1>5
  <2> QED BY <1>1, <1>5, <2>1 DEF Typed, FreshInv
<1> HIDE DEF s, step, d, status
<1>8. /\ row.status = status /\ row.writes = 0 /\ row.masked = 0 /\ row.own = s.own
      /\ row.auto <=> status = "approved"
  <2>1. auto \in BOOLEAN /\ (auto <=> status = "approved")
    OBVIOUS
  <2> HIDE DEF auto, today
  <2>2. row.status = status /\ row.writes = 0 /\ row.masked = 0 /\ row.auto = auto /\ row.own = s.own
    BY DEF NoRow
  <2> QED BY <2>1, <2>2
<1> HIDE DEF row
<1>9. rows'[d] = row /\ \A e \in Ids \ {d} : rows'[e] = rows[e]
  BY <1>1, <1>5, TypedWorld
<1>10. /\ new \in Local /\ new.job = "run" /\ new.run = loc[w].run /\ new.plan = Tail(loc[w].plan)
       /\ new.bad = loc[w].bad /\ new.level = loc[w].level /\ new.stopped = loc[w].stopped
  BY <1>2, <1>3 DEF Local
<1> HIDE DEF new
<1>11. PICK l, next :
        /\ l \in {"step", "call", "record"}
        /\ Goto(w, l, next) /\ next.job = "run" /\ next.run = loc[w].run /\ next.plan = Tail(loc[w].plan)
        /\ next.bad = loc[w].bad /\ next.level = loc[w].level
        /\ next.row = d /\ (loc[w].stopped => next.stopped) /\ (l = "step" => status # "approved")
        /\ l # "step" => /\ next.step = step /\ next.result # "ok" /\ status = "approved"
                         /\ l = "call" => ~CapReached(1)
  <2>1. CASE status = "approved"
    <3>1. Apply(w, d, step, new)
      BY <1>1, <2>1
    <3>2. PICK l \in {"call", "record"}, res \in {"call", "error", "transient", "final"}, next \in Local :
              /\ Goto(w, l, next) /\ (l = "call" => ~CapReached(1))
              /\ next.job = new.job /\ next.run = new.run /\ next.plan = new.plan /\ next.level = new.level
              /\ next.bad = new.bad /\ next.row = d /\ next.step = step /\ next.result = res
              /\ next.stopped = new.stopped
      BY <1>1, <1>4, <1>5, <1>10, <3>1, Applying
    <3> QED BY <1>10, <2>1, <3>2
  <2>2. CASE status # "approved"
    <3>1. moved.job = "run" /\ moved.run = loc[w].run /\ moved.plan = Tail(loc[w].plan)
          /\ moved.row = d /\ moved.bad = loc[w].bad /\ moved.level = loc[w].level
          /\ (loc[w].stopped => moved.stopped)
      BY <1>10 DEF Local
    <3>2. Goto(w, "step", moved)
      BY <1>1, <2>2
    <3> HIDE DEF moved
    <3> QED BY <2>2, <3>1, <3>2
  <2> QED BY <2>1, <2>2
<1>12. pc'[w] = l /\ loc'[w] = next /\ Only(w) /\ Alone(w)
  BY <1>1, <1>11, Moved, NobodyElse
<1> HIDE DEF moved
<1> QED BY <1>1, <1>2, <1>3, <1>4, <1>5, <1>6, <1>7, <1>8, <1>9, <1>11, <1>12

\* A review that passes every check.
LEMMA Approved ==
    ASSUME Typed, NEW u \in Users, NEW d \in Ids, Approve(u, d), lock' # lock
    PROVE  /\ Only(u) /\ Alone(u) /\ pc'[u] = "claim" /\ UNCHANGED <<strategy, runs, rows, site, overtaken>>
           /\ loc'[u].job = "approve" /\ loc'[u].row = d /\ rows[d].status = "proposed"
           /\ strategy.id = runs[d[1]].strategy /\ strategy.level >= 2
           /\ ~StateForbids(rows[d].step, strategy.level)
<1> DEFINE new == [Idle EXCEPT !.job = "approve", !.row = d]
<1>1. /\ u \in Procs /\ lock = None /\ UNCHANGED <<strategy, runs, site, overtaken>>
      /\ rows[d].status = "proposed" /\ strategy.id = runs[d[1]].strategy /\ strategy.level >= 2
  BY DEF Approve, Procs
<1>2. "" \in Verdicts(rows[d].step, d, strategy.level) /\ rows' = rows /\ Goto(u, "claim", new)
  BY DEF Approve
<1>3. ~StateForbids(rows[d].step, strategy.level)
  BY <1>2 DEF Verdicts
<1>4. new.job = "approve" /\ new.row = d
  BY DEF Idle
<1> HIDE DEF new
<1>5. pc'[u] = "claim" /\ loc'[u] = new /\ Only(u) /\ Alone(u)
  BY <1>1, <1>2, Moved, NobodyElse
<1> QED BY <1>1, <1>2, <1>3, <1>4, <1>5

\* The claim of a proposal, or of one that is gone.
LEMMA Claimed ==
    ASSUME Typed, NEW u \in Users, Claim(u)
    PROVE  /\ Only(u) /\ Alone(u) /\ SameWrites /\ UNCHANGED <<strategy, runs, site>>
           /\ pc[u] = "claim" /\ loc[u].job = "approve" /\ loc[u].row \in Ids
           /\ \A e \in Ids \ {loc[u].row} : rows'[e] = rows[e]
           /\ LET d == loc[u].row IN
              \/ /\ rows[d].status = "proposed" /\ rows'[d].status = "approved" /\ overtaken' = overtaken
                 /\ pc'[u] \in {"call", "record"} /\ loc'[u].job = "approve" /\ loc'[u].row = d
                 /\ loc'[u].step = rows[d].step /\ loc'[u].result # "ok"
                 /\ pc'[u] = "call" => ~CapReached(1)
              \/ rows' = rows /\ pc'[u] = "idle"
<1> DEFINE d == loc[u].row
<1>1. /\ u \in Procs /\ pc[u] = "claim" /\ Transition(d, "proposed", "approved")
      /\ UNCHANGED <<strategy, runs, site>>
  BY DEF Claim, Procs
<1>2. d \in Ids /\ loc[u] \in Local /\ loc[u].job = "approve" /\ d \in Nat \X Nat
  BY <1>1 DEF Typed, RowInv, Local
<1>3. SameWrites /\ rows'[d].status = (IF rows[d].status = "proposed" THEN "approved" ELSE rows[d].status)
  BY <1>1, <1>2, Transitions, TypedWorld DEF SameWrites
<1>4. \A e \in Ids \ {d} : rows'[e] = rows[e]
  BY <1>1, <1>2, TypedWorld DEF Transition
<1>5. Alone(u)
  BY <1>1, NobodyElse
<1>6. CASE rows[d].status = "proposed"
  <2>1. Apply(u, d, rows[d].step, loc[u]) /\ overtaken' = overtaken
    BY <1>6 DEF Claim
  <2>2. rows[d].step \in Steps
    BY <1>2, <1>6 DEF Typed, FreshInv
  <2>3. PICK l \in {"call", "record"}, res \in {"call", "error", "transient", "final"}, next \in Local :
          /\ Goto(u, l, next) /\ next.job = loc[u].job /\ next.row = d /\ next.step = rows[d].step
          /\ next.result = res /\ (l = "call" => ~CapReached(1))
    BY <1>1, <1>2, <2>1, <2>2, Applying
  <2>4. pc'[u] = l /\ loc'[u] = next /\ Only(u)
    BY <1>1, <2>3, Moved
  <2> QED BY <1>1, <1>2, <1>3, <1>4, <1>5, <1>6, <2>1, <2>3, <2>4
<1>7. CASE rows[d].status # "proposed"
  <2>1. Goto(u, "idle", Idle) /\ rows' = rows
    BY <1>1, <1>7 DEF Claim, Leave, Transition
  <2>2. pc'[u] = "idle" /\ Only(u)
    BY <1>1, <2>1, Moved
  <2> QED BY <1>1, <1>2, <1>3, <1>4, <1>5, <2>1, <2>2
<1> QED BY <1>6, <1>7

\* A person's command.
LEMMA Switched ==
    ASSUME Typed, NEW u \in Users, NEW s \in [kind : StateKinds, camp : Camps], Switch(u, s)
    PROVE  /\ Only(u) /\ Alone(u) /\ pc'[u] = "call" /\ UNCHANGED <<strategy, runs, rows, site, overtaken>>
           /\ loc'[u].job = "manual" /\ loc'[u].result = "none" /\ loc'[u].step = s
<1> DEFINE new == [Idle EXCEPT !.job = "manual", !.step = s]
<1>1. u \in Procs /\ lock = None /\ Goto(u, "call", new) /\ UNCHANGED <<strategy, runs, rows, site, overtaken>>
  BY DEF Switch, Procs
<1>2. new.job = "manual" /\ new.result = "none" /\ new.step = s
  BY DEF Idle
<1> HIDE DEF new
<1> QED BY <1>1, <1>2, Moved, NobodyElse

\* What a process keeps while its command is on its way.
SameCommand(p) ==
    /\ loc'[p].job = loc[p].job /\ loc'[p].run = loc[p].run /\ loc'[p].plan = loc[p].plan
    /\ loc'[p].bad = loc[p].bad /\ loc'[p].level = loc[p].level
    /\ loc'[p].row = loc[p].row /\ loc'[p].step = loc[p].step /\ loc'[p].stopped = loc[p].stopped

LEMMA Kept ==
    ASSUME Typed, NEW p \in Procs, NEW l, NEW res, Goto(p, l, [loc[p] EXCEPT !.result = res])
    PROVE  Only(p) /\ pc'[p] = l /\ SameCommand(p) /\ loc'[p].result = res
<1> DEFINE new == [loc[p] EXCEPT !.result = res]
<1>1. loc[p] \in Local
  BY DEF Typed
<1>2. /\ new.job = loc[p].job /\ new.run = loc[p].run /\ new.plan = loc[p].plan /\ new.bad = loc[p].bad
      /\ new.level = loc[p].level /\ new.row = loc[p].row /\ new.step = loc[p].step /\ new.result = res
      /\ new.stopped = loc[p].stopped
  BY <1>1 DEF Local
<1>3. Goto(p, l, new)
  OBVIOUS
<1> HIDE DEF new
<1>4. pc'[p] = l /\ loc'[p] = new /\ Only(p)
  BY <1>3, Moved
<1> QED BY <1>2, <1>4 DEF SameCommand

\* Ozon answers, or does not.
LEMMA Called ==
    ASSUME Typed, NEW p \in Procs, CallAccepted(p) \/ CallRefused(p) \/ CallOverQuota(p) \/ CallLost(p)
    PROVE  /\ Only(p) /\ Alone(p) /\ pc[p] = "call" /\ pc'[p] \in {"audit", "record"} /\ SameCommand(p)
           /\ pc'[p] = "audit" => loc'[p].result = "ok"
           /\ UNCHANGED <<strategy, runs, mirror, listed, aiPause, lock, overtaken>>
           /\ \/ UNCHANGED <<ozon, held, rows>> /\ loc'[p].result \in {"error", "transient"}
              \/ /\ Effect(p) /\ loc'[p].result \in {"ok", "error", "transient"}
                 /\ \E hidden \in 0 .. 1 : Written(p, hidden) /\ (loc'[p].result = "transient" => hidden = 1)
<1>1. pc[p] = "call" /\ UNCHANGED <<strategy, runs, mirror, listed, aiPause, lock, overtaken>>
  BY DEF CallAccepted, CallRefused, CallOverQuota, CallLost, site
<1>2. Alone(p)
  BY <1>1, NobodyElse
<1>3. CASE CallAccepted(p)
  <2>1. PICK l \in {"audit", "record"} : Goto(p, l, [loc[p] EXCEPT !.result = "ok"])
    BY <1>3 DEF CallAccepted
  <2>2. Only(p) /\ pc'[p] = l /\ SameCommand(p) /\ loc'[p].result = "ok"
    BY <2>1, Kept
  <2>3. Effect(p) /\ Written(p, 0)
    BY <1>3 DEF CallAccepted
  <2> QED BY <1>1, <1>2, <2>2, <2>3
<1>4. CASE CallRefused(p) \/ CallOverQuota(p)
  <2>1. PICK res \in {"error", "transient"} : Goto(p, "record", [loc[p] EXCEPT !.result = res])
    BY <1>4 DEF CallRefused, CallOverQuota
  <2>2. Only(p) /\ pc'[p] = "record" /\ SameCommand(p) /\ loc'[p].result = res
    BY <2>1, Kept
  <2>3. UNCHANGED <<ozon, held, rows>>
    BY <1>4 DEF CallRefused, CallOverQuota, site
  <2> QED BY <1>1, <1>2, <2>2, <2>3
<1>5. CASE CallLost(p)
  <2>1. PICK res \in {"error", "transient"}, hidden \in 0 .. 1 :
          /\ Goto(p, "record", [loc[p] EXCEPT !.result = res])
          /\ Written(p, hidden) /\ (res = "transient" => hidden = 1)
    BY <1>5 DEF CallLost
  <2>2. Only(p) /\ pc'[p] = "record" /\ SameCommand(p) /\ loc'[p].result = res
    BY <2>1, Kept
  <2>3. Effect(p)
    BY <1>5 DEF CallLost
  <2> QED BY <1>1, <1>2, <2>1, <2>2, <2>3
<1> QED BY <1>3, <1>4, <1>5

\* The state event and the mirror, or what is left of them.
LEMMA Audited ==
    ASSUME Typed, NEW p \in Procs, Audit(p)
    PROVE  /\ Only(p) /\ Alone(p) /\ pc[p] = "audit" /\ pc'[p] = "record" /\ SameCommand(p)
           /\ UNCHANGED <<strategy, runs, rows, ozon, listed, lock, overtaken>>
           /\ \/ loc'[p].result = loc[p].result /\ StateEvent(loc[p].step, Source(p))
                 /\ mirror' = (IF loc[p].step.kind = "campaign_pause" THEN mirror \ {loc[p].step.camp} ELSE mirror \cup {loc[p].step.camp})
                 /\ held' = (IF loc[p].step.kind = "campaign_pause" /\ loc[p].job = "manual" THEN held \cup {loc[p].step.camp} ELSE held)
              \/ loc'[p].result = "error" /\ UNCHANGED <<mirror, held>>
                 /\ (StateEvent(loc[p].step, Source(p)) \/ UNCHANGED aiPause)
<1>1. pc[p] = "audit" /\ UNCHANGED <<strategy, runs, rows, ozon, listed, lock, overtaken>>
  BY DEF Audit
<1>2. Alone(p)
  BY <1>1, NobodyElse
<1>3. CASE /\ StateEvent(loc[p].step, Source(p)) /\ Goto(p, "record", loc[p])
           /\ mirror' = (IF loc[p].step.kind = "campaign_pause" THEN mirror \ {loc[p].step.camp} ELSE mirror \cup {loc[p].step.camp})
           /\ held' = (IF loc[p].step.kind = "campaign_pause" /\ loc[p].job = "manual" THEN held \cup {loc[p].step.camp} ELSE held)
  <2>1. Only(p) /\ pc'[p] = "record" /\ loc'[p] = loc[p]
    BY <1>3, Moved
  <2> QED BY <1>1, <1>2, <1>3, <2>1 DEF SameCommand
<1>4. CASE /\ Goto(p, "record", [loc[p] EXCEPT !.result = "error"]) /\ UNCHANGED <<mirror, held>>
           /\ (StateEvent(loc[p].step, Source(p)) \/ UNCHANGED aiPause)
  BY <1>1, <1>2, <1>4, Kept
<1> QED BY <1>3, <1>4 DEF Audit

\* The outcome is stored.
LEMMA Recorded ==
    ASSUME Typed, NEW p \in Procs, (p \in Workers /\ RecordStep(p)) \/ (p \in Users /\ RecordApproval(p))
    PROVE  /\ Only(p) /\ Alone(p) /\ SameWrites /\ UNCHANGED <<strategy, runs, ozon, mirror, listed, held>>
           /\ pc[p] = "record" /\ loc[p].job # "manual" /\ loc[p].row \in Ids /\ loc[p].step \in Steps
           /\ pc'[p] \in {"step", "idle"}
           /\ pc'[p] = "step" => /\ overtaken' = overtaken /\ p \in Workers
                                 /\ loc'[p].job = loc[p].job /\ loc'[p].run = loc[p].run
                                 /\ loc'[p].plan = loc[p].plan /\ loc'[p].bad = loc[p].bad
                                 /\ loc'[p].level = loc[p].level
           /\ \A e \in Ids \ {loc[p].row} : rows'[e] = rows[e]
           /\ LET d == loc[p].row IN
              /\ rows'[d].status = "none" => rows[d].status = "none"
              /\ rows'[d].status = rows[d].status \/ rows[d].status = "approved"
              /\ rows'[d].status = "proposed" /\ rows[d].status = "approved" =>
                    loc[p].job = "approve" /\ loc[p].result = "transient"
              /\ rows'[d].status \in Applied => rows[d].status \in Applied \/ loc[p].result = "ok"
              /\ rows'[d].status = rows[d].status => rows' = rows
           /\ aiPause' = aiPause \/ (StateEvent(loc[p].step, "ai") /\ loc[p].step.kind \in StateKinds)
<1> DEFINE d == loc[p].row
<1>1. /\ pc[p] = "record" /\ loc[p] \in Local
      /\ loc[p].job = (IF p \in Workers THEN "run" ELSE "approve")
      /\ UNCHANGED <<strategy, runs, ozon, mirror, listed, held>>
  BY NamesAssumption DEF RecordStep, RecordApproval, Typed
<1>2. d \in Ids /\ loc[p].step \in Steps /\ loc[p].result \in Results
  BY <1>1 DEF Typed, RowInv, Local
<1>3. PICK to \in Final \cup {"proposed"} :
        /\ Transition(d, "approved", to)
        /\ to \in Applied => loc[p].result = "ok"
        /\ to = "proposed" => loc[p].job = "approve" /\ loc[p].result = "transient"
        /\ aiPause' = aiPause \/ (StateEvent(loc[p].step, "ai") /\ loc[p].step.kind \in StateKinds)
  <2>1. CASE p \in Workers /\ RecordStep(p)
    <3> DEFINE to == CASE loc[p].result = "ok" -> "auto_applied"
                       [] loc[p].result = "error" -> "failed"
                       [] OTHER -> "rejected_by_guardrail"
    <3>1. /\ Transition(d, "approved", to)
          /\ IF to = "auto_applied" THEN Applies(loc[p].step) ELSE UNCHANGED aiPause
      BY <2>1 DEF RecordStep
    <3>2. to \in Final /\ (to \in Applied => loc[p].result = "ok") /\ to # "proposed"
      BY DEF Final, Applied
    <3> HIDE DEF to
    <3> QED BY <3>1, <3>2 DEF Applies
  <2>2. CASE p \in Users /\ RecordApproval(p)
    <3> DEFINE to == CASE loc[p].result = "ok" -> "applied"
                       [] loc[p].result = "error" -> "failed"
                       [] OTHER -> AfterVerdict(loc[p].result)
    <3>1. /\ Transition(d, "approved", to) /\ loc[p].job = "approve"
          /\ IF to = "applied" THEN Applies(loc[p].step) ELSE UNCHANGED aiPause
      BY <2>2 DEF RecordApproval
    <3>2. /\ to \in Final \cup {"proposed"} /\ (to \in Applied => loc[p].result = "ok")
          /\ to = "proposed" => loc[p].result = "transient"
      BY DEF Final, Applied, AfterVerdict
    <3> HIDE DEF to
    <3> QED BY <3>1, <3>2 DEF Applies
  <2> QED BY <2>1, <2>2
<1>4. SameWrites /\ rows'[d].status = (IF rows[d].status = "approved" THEN to ELSE rows[d].status)
  BY <1>2, <1>3, Transitions, TypedWorld DEF SameWrites
<1>5. (\A e \in Ids \ {d} : rows'[e] = rows[e]) /\ (rows[d].status # "approved" => rows' = rows)
  BY <1>2, <1>3, TypedWorld DEF Transition
<1>6. to # "none" /\ to # "approved"
  BY <1>3 DEF Final, Applied
<1>7. Alone(p)
  BY <1>1, NobodyElse
<1>8. CASE p \in Workers /\ RecordStep(p)
  <2> DEFINE outcome == CASE loc[p].result = "ok" -> "auto_applied"
                          [] loc[p].result = "error" -> "failed"
                          [] OTHER -> "rejected_by_guardrail"
             stopped == loc[p].stopped \/ outcome # "auto_applied"
             new     == [loc[p] EXCEPT !.step = NoStep, !.result = "none", !.stopped = stopped]
  <2>1. Goto(p, "step", new) /\ overtaken' = overtaken
    BY <1>8 DEF RecordStep
  <2> HIDE DEF stopped
  <2>2. new.job = loc[p].job /\ new.run = loc[p].run /\ new.plan = loc[p].plan /\ new.bad = loc[p].bad
        /\ new.level = loc[p].level
    BY <1>1 DEF Local
  <2> HIDE DEF new, outcome
  <2>3. Only(p) /\ pc'[p] = "step" /\ loc'[p] = new
    BY <2>1, Moved
  <2> QED BY <1>1, <1>2, <1>3, <1>4, <1>5, <1>6, <1>7, <1>8, <2>1, <2>2, <2>3
<1>9. CASE p \in Users /\ RecordApproval(p)
  <2>1. Goto(p, "idle", Idle)
    BY <1>9 DEF RecordApproval, Leave
  <2>2. Only(p) /\ pc'[p] = "idle"
    BY <2>1, Moved
  <2> QED BY <1>1, <1>2, <1>3, <1>4, <1>5, <1>6, <1>7, <2>2
<1> QED BY <1>8, <1>9

\* A step that did not succeed stops the plan.
LEMMA RecordedStop ==
    ASSUME Typed, NEW w \in Workers, RecordStep(w)
    PROVE  /\ loc[w].stopped => loc'[w].stopped
           /\ \/ loc'[w].stopped \/ rows'[loc[w].row].status = "auto_applied"
              \/ rows[loc[w].row].status # "approved"
<1> DEFINE d       == loc[w].row
           outcome == CASE loc[w].result = "ok" -> "auto_applied"
                        [] loc[w].result = "error" -> "failed"
                        [] OTHER -> "rejected_by_guardrail"
           stopped == loc[w].stopped \/ outcome # "auto_applied"
           new     == [loc[w] EXCEPT !.step = NoStep, !.result = "none", !.stopped = stopped]
<1>1. /\ w \in Procs /\ loc[w] \in Local /\ pc[w] = "record" /\ loc[w].job = "run"
      /\ Transition(d, "approved", outcome) /\ Goto(w, "step", new)
  BY DEF RecordStep, Procs, Typed
<1>2. d \in Ids
  BY <1>1 DEF Typed, RowInv
<1>3. outcome \in Final
  BY DEF Final, Applied
<1>4. (loc[w].stopped => stopped) /\ (outcome # "auto_applied" => stopped)
  OBVIOUS
<1> HIDE DEF outcome, stopped
<1>5. new.stopped = stopped
  BY <1>1 DEF Local
<1> HIDE DEF new
<1>6. loc'[w] = new
  BY <1>1, Moved
<1>7. rows[d].status = "approved" => rows'[d].status = outcome
  BY <1>1, <1>2, <1>3, Transitions, TypedWorld
<1> QED BY <1>4, <1>5, <1>6, <1>7

\* Everything else leaves rows and processes alone.
EnvStep ==
    \/ EditStrategy \/ SyncRead \/ (\E c \in Camps : SyncWrite(c) \/ Repair(c))
    \/ (\E r \in RunIds : ExpireRun(r)) \/ UNCHANGED vars

LEMMA Environment ==
    ASSUME Typed, EnvStep
    PROVE  /\ UNCHANGED <<pc, loc, rows, ozon>> /\ SameRuns
           /\ UNCHANGED <<strategy, overtaken>> \/ lock = None \/ overtaken'
<1>1. UNCHANGED <<pc, loc, rows, ozon>>
  BY DEF EnvStep, EditStrategy, SyncRead, SyncWrite, Repair, ExpireRun, vars, site
<1>2. SameRuns
  <2>1. CASE \E r \in RunIds : ExpireRun(r)
    BY <2>1 DEF ExpireRun, SameRuns, Typed, TypeOK
  <2>2. CASE runs' = runs
    BY <2>2 DEF SameRuns
  <2> QED BY <2>1, <2>2 DEF EnvStep, EditStrategy, SyncRead, SyncWrite, Repair, vars
<1>3. UNCHANGED <<strategy, overtaken>> \/ lock = None \/ overtaken'
  BY DEF EnvStep, EditStrategy, SyncRead, SyncWrite, Repair, ExpireRun, vars, site
<1> QED BY <1>1, <1>2, <1>3

Call(p) == CallAccepted(p) \/ CallRefused(p) \/ CallOverQuota(p) \/ CallLost(p)
Record(p) == (p \in Workers /\ RecordStep(p)) \/ (p \in Users /\ RecordApproval(p))

\* The steps, sorted by what they do.
LEMMA Sorted ==
    ASSUME [Next]_vars
    PROVE  \/ \E p \in Procs : QuietStep(p) \/ Call(p) \/ Audit(p) \/ Record(p)
           \/ OutsideRows \/ EnvStep
           \/ \E w \in Workers : Execute(w) \/ Step(w)
           \/ \E u \in Users : \/ \E d \in Ids : Approve(u, d) /\ lock' # lock
                               \/ \E s \in [kind : StateKinds, camp : Camps] : Switch(u, s)
                               \/ Claim(u)
<1>1. CASE \E w \in Workers : StartRun(w) \/ PlanFails(w) \/ PlanVoid(w) \/ Execute(w) \/ RunWork(w)
  BY <1>1 DEF RunWork, Work, QuietStep, Procs, Call, Record
<1>2. CASE \E u \in Users : \/ \E d \in Ids : Approve(u, d) \/ Reject(u, d)
                            \/ \E s \in [kind : StateKinds, camp : Camps] : Switch(u, s)
                            \/ UserWork(u)
  BY <1>2 DEF UserWork, Work, QuietStep, Procs, OutsideRows, Call, Record
<1>3. CASE \E p \in Procs : Fail(p) \/ Crash(p)
  BY <1>3 DEF QuietStep
<1>4. CASE \/ EditStrategy \/ SyncRead \/ (\E c \in Camps : SyncWrite(c) \/ Repair(c))
           \/ (\E r \in RunIds : ExpireRun(r)) \/ (\E d \in Ids : Expire(d)) \/ NewDay
  BY <1>4 DEF OutsideRows, EnvStep
<1>5. CASE UNCHANGED vars
  BY <1>5 DEF EnvStep
<1> QED BY <1>1, <1>2, <1>3, <1>4, <1>5 DEF Next

-----------------------------------------------------------------------------
(* Every decision is carried out once.                                     *)

LEMMA OnceNext ==
    ASSUME Typed, OnceInv, [Next]_vars
    PROVE  OnceInv'
<1> USE DEF OnceInv, WriteOnce
<1>1. \A e \in Ids : rows[e].writes \in Nat /\ rows[e].masked \in Nat
  BY TypedWorld DEF Row
<1>2. \A p \in Procs : (pc[p] \in Sending /\ loc[p].job # "manual") \/ pc[p] = "claim" => loc[p].row \in Ids
  BY DEF Typed, RowInv
<1>3. ASSUME NEW p \in Procs, QuietStep(p) PROVE OnceInv'
  BY <1>3, Quiet DEF Only
<1>4. CASE OutsideRows
  <2>1. /\ UNCHANGED <<pc, loc>> /\ SameWrites
        /\ \A e \in Ids : \/ rows'[e].status = rows[e].status
                          \/ rows[e].status = "proposed" /\ rows'[e].status \notin {"approved", "none"}
    BY <1>4, Outside
  <2> QED BY <1>2, <2>1 DEF SameWrites
<1>5. CASE EnvStep
  BY <1>5, Environment
<1>6. ASSUME NEW w \in Workers, Execute(w) PROVE OnceInv'
  BY <1>6, Executed DEF Only, Alone, Procs
<1>7. ASSUME NEW w \in Workers, Step(w) PROVE OnceInv'
  <2> DEFINE d == loc'[w].row
  <2>1. /\ Only(w) /\ Alone(w) /\ d \in Ids /\ \A e \in Ids \ {d} : rows'[e] = rows[e]
        /\ rows'[d].writes = 0 /\ rows'[d].masked = 0
        /\ rows'[d].status # "none" /\ pc'[w] # "claim" /\ (pc'[w] \in Sending => rows'[d].status = "approved")
    BY <1>7, Stepped
  <2>2. \A e \in Ids : /\ rows'[e].writes <= 1 + rows'[e].masked
                       /\ rows'[e].status \in {"none", "proposed"} => rows'[e].writes <= rows'[e].masked
    BY <1>1, <2>1
  <2>3. \A q \in Procs : pc'[q] \in Working => q = w
    BY <2>1 DEF Only, Alone
  <2> QED BY <2>1, <2>2, <2>3
<1>8. ASSUME NEW u \in Users, NEW d \in Ids, Approve(u, d), lock' # lock PROVE OnceInv'
  BY <1>8, Approved DEF Only, Alone, Procs
<1>9. ASSUME NEW u \in Users, Claim(u) PROVE OnceInv'
  <2> DEFINE d == loc[u].row
  <2>1. /\ Only(u) /\ Alone(u) /\ SameWrites /\ d \in Ids /\ \A e \in Ids \ {d} : rows'[e] = rows[e]
        /\ \/ /\ rows[d].status = "proposed" /\ rows'[d].status = "approved"
              /\ pc'[u] \in {"call", "record"} /\ loc'[u].row = d
           \/ rows' = rows /\ pc'[u] = "idle"
    BY <1>9, Claimed
  <2>2. \A e \in Ids : /\ rows'[e].writes <= 1 + rows'[e].masked
                       /\ rows'[e].status \in {"none", "proposed"} => rows'[e].writes <= rows'[e].masked
    BY <1>1, <2>1 DEF SameWrites
  <2>3. \A q \in Procs : pc'[q] \in Working => q = u
    BY <2>1 DEF Only, Alone
  <2> QED BY <2>1, <2>2, <2>3 DEF SameWrites
<1>10. ASSUME NEW u \in Users, NEW s \in [kind : StateKinds, camp : Camps], Switch(u, s) PROVE OnceInv'
  BY <1>10, Switched DEF Only, Alone, Procs
<1>11. ASSUME NEW p \in Procs, Call(p) PROVE OnceInv'
  <2> DEFINE d == loc[p].row
  <2>1. /\ Only(p) /\ Alone(p) /\ pc[p] = "call" /\ pc'[p] \in {"audit", "record"}
        /\ loc'[p].job = loc[p].job /\ loc'[p].row = d
    BY <1>11, Called DEF Call, SameCommand
  <2>2. \A q \in Procs : pc'[q] \in Working => q = p
    BY <2>1 DEF Only, Alone
  <2>3. loc[p].job # "manual" => d \in Ids /\ rows[d].status = "approved" /\ rows[d].writes <= rows[d].masked
    BY <1>2, <2>1
  <2>4. CASE rows' = rows
    BY <2>1, <2>2, <2>3, <2>4
  <2>5. CASE \E hidden \in 0 .. 1 : Written(p, hidden) /\ (loc'[p].result = "transient" => hidden = 1)
    <3>1. PICK hidden \in 0 .. 1 : Written(p, hidden) /\ (loc'[p].result = "transient" => hidden = 1)
      BY <2>5
    <3>2. \A e \in Ids :
            /\ rows'[e].status = rows[e].status
            /\ IF loc[p].job # "manual" /\ e = d
               THEN rows'[e].writes = rows[e].writes + 1 /\ rows'[e].masked = rows[e].masked + hidden
               ELSE rows'[e].writes = rows[e].writes /\ rows'[e].masked = rows[e].masked
      BY <2>1, <3>1, WrittenRows
    <3>3. \A e \in Ids : /\ rows'[e].writes <= 1 + rows'[e].masked
                         /\ rows'[e].status \in {"none", "proposed"} => rows'[e].writes <= rows'[e].masked
      BY <1>1, <2>3, <3>2
    <3>4. loc'[p].job # "manual" /\ loc'[p].result = "transient" => rows'[d].writes <= rows'[d].masked
      BY <1>1, <2>1, <2>3, <3>1, <3>2
    <3> QED BY <2>1, <2>2, <2>3, <3>2, <3>3, <3>4
  <2> QED BY <1>11, <2>4, <2>5, Called DEF Call
<1>12. ASSUME NEW p \in Procs, Audit(p) PROVE OnceInv'
  <2>1. /\ Only(p) /\ Alone(p) /\ pc[p] = "audit" /\ pc'[p] = "record" /\ rows' = rows
        /\ loc'[p].job = loc[p].job /\ loc'[p].row = loc[p].row
        /\ loc'[p].result = loc[p].result \/ loc'[p].result = "error"
    BY <1>12, Audited DEF SameCommand
  <2> QED BY <2>1 DEF Only, Alone
<1>13. ASSUME NEW p \in Procs, Record(p) PROVE OnceInv'
  <2> DEFINE d == loc[p].row
  <2>1. /\ Only(p) /\ Alone(p) /\ SameWrites /\ pc[p] = "record" /\ loc[p].job # "manual" /\ d \in Ids
        /\ pc'[p] \in {"step", "idle"}
        /\ \A e \in Ids \ {d} : rows'[e] = rows[e]
        /\ rows'[d].status = "none" => rows[d].status = "none"
        /\ rows'[d].status = rows[d].status \/ rows[d].status = "approved"
        /\ rows'[d].status = "proposed" /\ rows[d].status = "approved" => loc[p].result = "transient"
    BY <1>13, Recorded DEF Record
  <2>2. \A q \in Procs : pc'[q] \in Working => pc'[q] = "step"
    BY <2>1 DEF Only, Alone
  <2> QED BY <2>1, <2>2 DEF SameWrites
<1> QED BY <1>3, <1>4, <1>5, <1>6, <1>7, <1>8, <1>9, <1>10, <1>11, <1>12, <1>13, Sorted

Sent == Typed /\ OnceInv

LEMMA SentAlways == Spec => []Sent
<1>1. Init => Sent
  BY TypedInit DEF Init, Sent, OnceInv, WriteOnce, NoRow
<1>2. Sent /\ [Next]_vars => Sent'
  BY TypedNext, OnceNext DEF Sent
<1> QED BY <1>1, <1>2, PTL DEF Spec

\* Ozon carries every decision out once, unless the quota hid a write from the
\* service: claims, reviews, sweeps, failures and restarts cannot repeat it.
THEOREM DecisionsSentOnce == Spec => []WriteOnce
<1>1. Sent => WriteOnce
  BY DEF Sent, OnceInv
<1> QED BY <1>1, SentAlways, PTL

\* Statuses change only where something is open, and writes only where it is claimed.
LEMMA FinalStep ==
    ASSUME Sent, [Next]_vars, NEW d \in Ids, rows[d].status \in Final
    PROVE  rows'[d].status = rows[d].status /\ rows'[d].writes = rows[d].writes
<1>1. rows[d].status \notin {"none", "proposed", "approved"}
  BY DEF Final, Applied
<1>2. Typed /\ OnceInv
  BY DEF Sent
<1>3. CASE \E p \in Procs : QuietStep(p)
  BY <1>2, <1>3, Quiet
<1>4. CASE OutsideRows
  BY <1>1, <1>2, <1>4, Outside DEF SameWrites
<1>5. CASE EnvStep
  BY <1>2, <1>5, Environment
<1>6. CASE \E w \in Workers : Execute(w)
  BY <1>2, <1>6, Executed
<1>7. CASE \E w \in Workers : Step(w)
  BY <1>1, <1>2, <1>7, Stepped
<1>8. CASE \E u \in Users, e \in Ids : Approve(u, e) /\ lock' # lock
  BY <1>2, <1>8, Approved
<1>9. CASE \E u \in Users : Claim(u)
  BY <1>1, <1>2, <1>9, Claimed DEF SameWrites
<1>10. CASE \E u \in Users, s \in [kind : StateKinds, camp : Camps] : Switch(u, s)
  BY <1>2, <1>10, Switched
<1>11. ASSUME NEW p \in Procs, Call(p)
       PROVE  rows'[d].status = rows[d].status /\ rows'[d].writes = rows[d].writes
  <2>1. pc[p] = "call" /\ (rows' = rows \/ \E hidden \in 0 .. 1 : Written(p, hidden))
    BY <1>2, <1>11, Called DEF Call
  <2>2. loc[p].job # "manual" => d # loc[p].row
    BY <1>1, <1>2, <2>1 DEF OnceInv
  <2> QED BY <1>2, <2>1, <2>2, WrittenRows
<1>12. CASE \E p \in Procs : Audit(p)
  BY <1>2, <1>12, Audited
<1>13. CASE \E p \in Procs : Record(p)
  BY <1>1, <1>2, <1>13, Recorded DEF Record, SameWrites
<1> QED BY <1>3, <1>4, <1>5, <1>6, <1>7, <1>8, <1>9, <1>10, <1>11, <1>12, <1>13, Sorted

\* A decision that is settled stays as it is and is never sent: a claim that
\* races with the sweep or with another review does not bring it back.
THEOREM SettledStaysSettled == Spec => FinalStays
<1>1. Sent /\ [Next]_vars =>
        [\A d \in Ids : rows[d].status \in Final =>
            rows'[d].status = rows[d].status /\ rows'[d].writes = rows[d].writes]_vars
  BY FinalStep
<1> QED BY <1>1, SentAlways, PTL DEF Spec, FinalStays

-----------------------------------------------------------------------------
(* The strategy a command is sent under.                                   *)

LEMMA StopNext ==
    ASSUME Sent, StopInv, [Next]_vars
    PROVE  StopInv'
<1> USE DEF StopInv
<1>1. Typed /\ OnceInv
  BY DEF Sent
<1>2. \A p \in Procs : pc[p] \in Working =>
        /\ p \in Workers => loc[p].job = "run" /\ loc[p].run \in RunIds /\ runs[loc[p].run].status # "none"
        /\ loc[p].job = "run" => p \in Workers
        /\ loc[p].job = "approve" => /\ loc[p].row \in Ids /\ loc[p].row[1] \in RunIds
                                     /\ runs[loc[p].row[1]].status # "none"
  <2> SUFFICES ASSUME NEW p \in Procs, pc[p] \in Working
               PROVE  /\ p \in Workers => loc[p].job = "run" /\ loc[p].run \in RunIds /\ runs[loc[p].run].status # "none"
                      /\ loc[p].job = "run" => p \in Workers
                      /\ loc[p].job = "approve" => /\ loc[p].row \in Ids /\ loc[p].row[1] \in RunIds
                                                   /\ runs[loc[p].row[1]].status # "none"
    OBVIOUS
  <2>1. p \in Workers => loc[p].job = "run" /\ loc[p].run \in RunIds /\ runs[loc[p].run].status # "none"
    BY <1>1 DEF Typed, RunsInv, FreshInv
  <2>2. loc[p].job = "run" => p \in Workers
    BY <1>1 DEF Typed, RunsInv
  <2>3. loc[p].job = "approve" => loc[p].row \in Ids /\ rows[loc[p].row].status # "none"
    <3>1. p \in Workers => loc[p].job # "approve"
      BY <2>1
    <3>2. p \notin Workers => pc[p] # "step"
      BY <1>1 DEF Typed, RunsInv
    <3> QED BY <1>1, <3>1, <3>2 DEF Typed, RowInv, OnceInv
  <2>4. \A d \in Ids : d[1] \in RunIds
    BY DEF Ids
  <2> QED BY <1>1, <2>1, <2>2, <2>3, <2>4 DEF Typed, FreshInv
<1>3. ASSUME NEW p \in Procs, QuietStep(p) PROVE StopInv'
  <2>1. /\ Only(p) /\ pc'[p] \notin Working /\ UNCHANGED <<strategy, rows>> /\ SameRuns
        /\ overtaken' = overtaken \/ Alone(p)
    BY <1>1, <1>3, Quiet
  <2>2. \A q \in Procs : pc'[q] \in Working => pc[q] = pc'[q] /\ loc'[q] = loc[q] /\ overtaken' = overtaken
    BY <2>1 DEF Only, Alone
  <2> QED BY <1>2, <2>1, <2>2 DEF SameRuns
<1>4. CASE OutsideRows
  <2>1. /\ UNCHANGED <<pc, loc, strategy, runs, overtaken>>
        /\ \A e \in Ids : rows'[e].auto = rows[e].auto /\ (rows'[e].status = "proposed" => rows[e].status = "proposed")
    BY <1>1, <1>4, Outside DEF SameWrites
  <2> QED BY <1>2, <2>1
<1>5. CASE EnvStep
  <2>1. /\ UNCHANGED <<pc, loc, rows>> /\ SameRuns
        /\ UNCHANGED <<strategy, overtaken>> \/ lock = None \/ overtaken'
    BY <1>1, <1>5, Environment
  <2>2. \A p \in Procs : pc[p] \in Working => lock # None
    BY <1>1, NamesAssumption DEF Typed, LockInv
  <2>3. CASE UNCHANGED <<strategy, overtaken>>
    BY <1>2, <2>1, <2>3 DEF SameRuns
  <2>4. CASE lock = None \/ overtaken'
    BY <2>1, <2>2, <2>4
  <2> QED BY <2>1, <2>3, <2>4
<1>6. ASSUME NEW w \in Workers, Execute(w) PROVE StopInv'
  <2>1. /\ Only(w) /\ Alone(w) /\ pc'[w] = "step" /\ UNCHANGED <<strategy, runs, rows, overtaken>>
        /\ loc'[w].job = "run" /\ loc'[w].run = loc[w].run /\ loc'[w].level = strategy.level
        /\ strategy.id = runs[loc[w].run].strategy
    BY <1>1, <1>6, Executed
  <2>2. \A q \in Procs : pc'[q] \in Working => q = w
    BY <2>1 DEF Only, Alone
  <2> QED BY <2>1, <2>2
<1>7. ASSUME NEW w \in Workers, Step(w) PROVE StopInv'
  <2> DEFINE d == loc'[w].row
  <2>1. /\ Only(w) /\ Alone(w) /\ UNCHANGED <<strategy, runs, overtaken>> /\ pc[w] = "step"
        /\ loc'[w].job = "run" /\ loc'[w].run = loc[w].run /\ loc'[w].level = loc[w].level
        /\ d \in Ids /\ (\A e \in Ids \ {d} : rows'[e] = rows[e])
        /\ rows'[d].status = "proposed" => ~rows'[d].auto
        /\ pc'[w] = "step" \/ loc[w].level >= 3
    BY <1>1, <1>7, Stepped
  <2>2. \A q \in Procs : pc'[q] \in Working => q = w
    BY <2>1 DEF Only, Alone
  <2>3. w \in Procs /\ loc[w].job = "run"
    BY <1>2, <2>1 DEF Procs
  <2> QED BY <2>1, <2>2, <2>3
<1>8. ASSUME NEW u \in Users, NEW d \in Ids, Approve(u, d), lock' # lock PROVE StopInv'
  <2>1. /\ Only(u) /\ Alone(u) /\ pc'[u] = "claim" /\ UNCHANGED <<strategy, runs, rows, overtaken>>
        /\ loc'[u].job = "approve" /\ loc'[u].row = d /\ rows[d].status = "proposed"
        /\ strategy.id = runs[d[1]].strategy /\ strategy.level >= 2
    BY <1>1, <1>8, Approved
  <2>2. \A q \in Procs : pc'[q] \in Working => q = u
    BY <2>1 DEF Only, Alone
  <2> QED BY <2>1, <2>2
<1>9. ASSUME NEW u \in Users, Claim(u) PROVE StopInv'
  <2> DEFINE d == loc[u].row
  <2>1. /\ Only(u) /\ Alone(u) /\ SameWrites /\ UNCHANGED <<strategy, runs>> /\ pc[u] = "claim"
        /\ loc[u].job = "approve" /\ d \in Ids /\ (\A e \in Ids \ {d} : rows'[e] = rows[e])
        /\ \/ /\ overtaken' = overtaken /\ rows'[d].status = "approved"
              /\ loc'[u].job = "approve" /\ loc'[u].row = d
           \/ rows' = rows /\ pc'[u] = "idle"
    BY <1>1, <1>9, Claimed
  <2>2. \A q \in Procs : pc'[q] \in Working => q = u
    BY <2>1 DEF Only, Alone
  <2>3. u \in Procs /\ ~rows[d].auto /\ (\A e \in Ids : rows'[e].auto = rows[e].auto)
    BY <2>1 DEF Procs, SameWrites
  <2>4. \A e \in Ids : rows'[e].status = "proposed" => ~rows'[e].auto
    BY <2>1, <2>3
  <2> QED BY <2>1, <2>2, <2>3, <2>4
<1>10. ASSUME NEW u \in Users, NEW s \in [kind : StateKinds, camp : Camps], Switch(u, s) PROVE StopInv'
  <2>1. Only(u) /\ Alone(u) /\ UNCHANGED <<strategy, runs, rows>> /\ loc'[u].job = "manual"
    BY <1>1, <1>10, Switched
  <2>2. \A q \in Procs : pc'[q] \in Working => q = u
    BY <2>1 DEF Only, Alone
  <2> QED BY <2>1, <2>2
<1>11. ASSUME NEW p \in Procs, Call(p) \/ Audit(p) PROVE StopInv'
  <2>1. /\ Only(p) /\ Alone(p) /\ pc[p] \in Sending /\ pc'[p] \in Sending
        /\ loc'[p].job = loc[p].job /\ loc'[p].run = loc[p].run /\ loc'[p].row = loc[p].row
        /\ loc'[p].level = loc[p].level
        /\ UNCHANGED <<strategy, runs, overtaken>>
    BY <1>1, <1>11, Called, Audited DEF Call, SameCommand
  <2>2. \A e \in Ids : rows'[e].status = rows[e].status /\ rows'[e].auto = rows[e].auto
    <3>1. rows' = rows \/ \E hidden \in 0 .. 1 : Written(p, hidden)
      BY <1>1, <1>11, Called, Audited DEF Call
    <3> QED BY <1>1, <2>1, <3>1, WrittenRows
  <2>3. \A q \in Procs : pc'[q] \in Working => q = p
    BY <2>1 DEF Only, Alone
  <2> QED BY <1>2, <2>1, <2>2, <2>3
<1>12. ASSUME NEW p \in Procs, Record(p) PROVE StopInv'
  <2> DEFINE d == loc[p].row
  <2>1. /\ Only(p) /\ Alone(p) /\ SameWrites /\ UNCHANGED <<strategy, runs>>
        /\ pc[p] = "record" /\ d \in Ids /\ pc'[p] \in {"step", "idle"}
        /\ pc'[p] = "step" => /\ overtaken' = overtaken /\ p \in Workers
                              /\ loc'[p].job = loc[p].job /\ loc'[p].run = loc[p].run /\ loc'[p].level = loc[p].level
        /\ (\A e \in Ids \ {d} : rows'[e] = rows[e])
        /\ rows'[d].status = rows[d].status \/ rows[d].status = "approved"
        /\ rows'[d].status = "proposed" /\ rows[d].status = "approved" => loc[p].job = "approve"
    BY <1>1, <1>12, Recorded DEF Record
  <2>2. \A q \in Procs : pc'[q] \in Working => q = p /\ pc'[q] = "step"
    BY <2>1 DEF Only, Alone
  <2>3. \A e \in Ids : rows'[e].status = "proposed" => ~rows'[e].auto
    <3>1. \A e \in Ids : rows'[e].auto = rows[e].auto
      BY <2>1 DEF SameWrites
    <3> QED BY <2>1, <3>1
  <2> QED BY <1>2, <2>1, <2>2, <2>3
<1> QED BY <1>3, <1>4, <1>5, <1>6, <1>7, <1>8, <1>9, <1>10, <1>11, <1>12, Sorted

Bound == Sent /\ StopInv

LEMMA BoundAlways == Spec => []Bound
<1>1. Init => StopInv
  BY DEF Init, StopInv, NoRow
<1>2. Sent /\ StopInv /\ [Next]_vars => StopInv'
  BY StopNext
<1> QED BY <1>1, <1>2, SentAlways, PTL DEF Spec, Bound

\* Only an answer of Ozon counts as a write.
LEMMA WritesFromCalls ==
    ASSUME Bound, [Next]_vars, NEW d \in Ids, rows'[d].writes > rows[d].writes
    PROVE  \/ overtaken
           \/ /\ runs[d[1]].strategy = strategy.id
              /\ strategy.level >= IF rows[d].auto THEN 3 ELSE 2
<1>1. Typed /\ OnceInv /\ StopInv
  BY DEF Bound, Sent
<1>2. rows[d].writes \in Nat
  BY <1>1, TypedWorld DEF Row
<1>3. \E p \in Procs : Call(p)
  <2>1. rows'[d].writes # rows[d].writes
    BY <1>2
  <2>2. (\E p \in Procs : QuietStep(p) \/ Audit(p)) \/ EnvStep => rows' = rows
    BY <1>1, Quiet, Audited, Environment
  <2>3. OutsideRows \/ (\E u \in Users : Claim(u)) \/ (\E p \in Procs : Record(p)) => SameWrites
    BY <1>1, Outside, Claimed, Recorded DEF Record
  <2>4. (\E w \in Workers : Execute(w)) \/ (\E u \in Users, e \in Ids : Approve(u, e) /\ lock' # lock)
        \/ (\E u \in Users, s \in [kind : StateKinds, camp : Camps] : Switch(u, s)) => rows' = rows
    BY <1>1, Executed, Approved, Switched
  <2>5. ASSUME NEW w \in Workers, Step(w) PROVE FALSE
    <3>1. loc'[w].row \in Ids /\ (\A e \in Ids \ {loc'[w].row} : rows'[e] = rows[e]) /\ rows'[loc'[w].row].writes = 0
      BY <1>1, <2>5, Stepped
    <3> QED BY <1>2, <2>1, <3>1
  <2> QED BY <2>1, <2>2, <2>3, <2>4, <2>5, Sorted DEF SameWrites
<1>4. PICK p \in Procs : Call(p)
  BY <1>3
<1>5. pc[p] = "call" /\ \E hidden \in 0 .. 1 : Written(p, hidden)
  BY <1>1, <1>2, <1>4, Called DEF Call
<1>6. loc[p].job # "manual" /\ d = loc[p].row
  BY <1>1, <1>2, <1>5, WrittenRows
<1>7. CASE p \in Workers
  <2>1. loc[p].job = "run" /\ loc[p].row[1] = loc[p].run
    BY <1>1, <1>5, <1>7 DEF Typed, RunsInv
  <2>2. loc[p].level \in 0 .. 3
    BY <1>1 DEF Typed, Local
  <2> QED BY <1>1, <1>5, <1>6, <2>1, <2>2 DEF StopInv
<1>8. CASE p \notin Workers
  <2>1. loc[p].job = "approve"
    BY <1>1, <1>5, <1>6, <1>8 DEF Typed, RunsInv
  <2> QED BY <1>1, <1>5, <1>6, <2>1 DEF StopInv
<1> QED BY <1>7, <1>8

\* Once the strategy is switched off, lowered or replaced, nothing it decided is
\* sent any more, except by a process that was past its checks.
THEOREM StopIsObeyed == Spec => StopTakesHold
<1>1. Bound /\ [Next]_vars =>
        [\A d \in Ids : rows'[d].writes > rows[d].writes =>
            \/ overtaken
            \/ /\ runs[d[1]].strategy = strategy.id
               /\ strategy.level >= IF rows[d].auto THEN 3 ELSE 2]_vars
  BY WritesFromCalls
<1> QED BY <1>1, BoundAlways, PTL DEF Spec, StopTakesHold

-----------------------------------------------------------------------------
(* The end of a plan.                                                      *)

\* Rows keep who made them; what is not open stays so; what was applied too.
RowsKept == \A e \in Ids :
    /\ rows'[e].own = rows[e].own /\ rows'[e].auto = rows[e].auto
    /\ rows'[e].status = "none" => rows[e].status = "none" /\ rows'[e].writes = rows[e].writes
    /\ rows[e].status = "auto_applied" => rows'[e].status = "auto_applied"
    /\ Unsent(e) => Unsent(e)'

\* A worker keeps its plan, and stops unless the command it had in hand succeeded.
PlanKept(w) ==
    pc'[w] \in Working =>
        /\ pc[w] \in Working
        /\ loc'[w].run = loc[w].run /\ loc'[w].bad = loc[w].bad /\ loc'[w].plan = loc[w].plan
        /\ loc[w].stopped => loc'[w].stopped
        /\ pc[w] \in Sending =>
             \/ pc'[w] \in Sending /\ loc'[w].row = loc[w].row
             \/ loc'[w].stopped \/ rows'[loc[w].row].status = "auto_applied"

\* Steps that neither start a plan nor add to it.
LEMMA PlanStays ==
    ASSUME PlanInv, RowsKept, \A w \in Workers : PlanKept(w)
    PROVE  PlanInv'
<1>1. \A d, e \in Ids : Ends(d, e)' => Ends(d, e)
  BY DEF RowsKept, Ends
<1>2. (\A d, e \in Ids : Ends(d, e) => Unsent(e))'
  BY <1>1 DEF PlanInv, RowsKept
<1>3. (\A d \in Ids : rows[d].status = "none" => rows[d].writes = 0 /\ ~rows[d].own /\ ~rows[d].auto)'
  BY DEF PlanInv, RowsKept
<1>4. ASSUME NEW w \in Workers, pc'[w] \in Working
      PROVE  /\ \A i \in 1 .. Len(loc'[w].plan) : loc'[w].plan[i].own => loc'[w].bad
             /\ \A d \in Ids : d[1] = loc'[w].run =>
                  /\ rows'[d].own => loc'[w].bad
                  /\ loc'[w].bad => Unsent(d)'
                  /\ rows'[d].auto /\ rows'[d].status # "auto_applied" =>
                         loc'[w].stopped \/ (pc'[w] \in Sending /\ d = loc'[w].row)
  <2>1. /\ pc[w] \in Working
        /\ loc'[w].run = loc[w].run /\ loc'[w].bad = loc[w].bad /\ loc'[w].plan = loc[w].plan
        /\ loc[w].stopped => loc'[w].stopped
        /\ pc[w] \in Sending =>
             \/ pc'[w] \in Sending /\ loc'[w].row = loc[w].row
             \/ loc'[w].stopped \/ rows'[loc[w].row].status = "auto_applied"
    BY <1>4 DEF PlanKept
  <2>2. \A i \in 1 .. Len(loc'[w].plan) : loc'[w].plan[i].own => loc'[w].bad
    BY <2>1 DEF PlanInv
  <2>3. ASSUME NEW d \in Ids, d[1] = loc'[w].run
        PROVE  /\ rows'[d].own => loc'[w].bad
               /\ loc'[w].bad => Unsent(d)'
               /\ rows'[d].auto /\ rows'[d].status # "auto_applied" =>
                      loc'[w].stopped \/ (pc'[w] \in Sending /\ d = loc'[w].row)
    <3>1. /\ rows[d].own => loc[w].bad
          /\ loc[w].bad => Unsent(d)
          /\ rows[d].auto /\ rows[d].status # "auto_applied" =>
                 loc[w].stopped \/ (pc[w] \in Sending /\ d = loc[w].row)
      BY <2>1, <2>3 DEF PlanInv
    <3> QED BY <2>1, <3>1 DEF RowsKept
  <2> QED BY <2>2, <2>3
<1> QED BY <1>2, <1>3, <1>4 DEF PlanInv

\* A plan that begins: the run has no rows yet.
LEMMA PlanBegins ==
    ASSUME Typed, PlanInv, NEW w \in Workers, Execute(w)
    PROVE  PlanInv'
<1>1. /\ Only(w) /\ Alone(w) /\ rows' = rows /\ loc'[w].run = loc[w].run
      /\ ~loc'[w].bad => \A i \in 1 .. Len(loc'[w].plan) : ~loc'[w].plan[i].own
  BY Executed
<1>2. pc[w] = "plan" /\ w \in Procs
  BY DEF Execute, Procs
<1>3. loc[w].row[2] = 0
  BY <1>2 DEF Typed, RunsInv
<1>4. \A d \in Ids : d[2] > 0
  BY Bounds DEF Ids
<1>5. \A d \in Ids : d[1] = loc[w].run => rows[d].status = "none"
  BY <1>2, <1>3, <1>4 DEF Typed, FreshInv
<1>6. \A d \in Ids : d[1] = loc[w].run => Unsent(d) /\ ~rows[d].own /\ ~rows[d].auto
  BY <1>5 DEF PlanInv, Unsent
<1>7. \A v \in Workers : pc'[v] \in Working => v = w
  BY <1>1 DEF Only, Alone, Procs
<1>8. \A d, e \in Ids : (Ends(d, e)' <=> Ends(d, e)) /\ (Unsent(d)' <=> Unsent(d))
  BY <1>1 DEF Ends, Unsent
<1> QED BY <1>1, <1>6, <1>7, <1>8 DEF PlanInv

\* A plan that is continued: a step is proposed or claimed only if nothing ends the
\* plan, and its row is the last of the run.
LEMMA PlanContinues ==
    ASSUME Typed, PlanInv, NEW w \in Workers, Step(w)
    PROVE  PlanInv'
<1>0. loc'[w].row \in Ids
  BY Stepped
<1>1. PICK d \in Ids :
      /\ d = loc'[w].row
      /\ Only(w) /\ Alone(w) /\ pc[w] = "step" /\ loc'[w].run = loc[w].run /\ loc'[w].bad = loc[w].bad
      /\ loc'[w].plan = Tail(loc[w].plan) /\ loc[w].plan \in Seq(Planned) /\ loc[w].plan # <<>>
      /\ d[1] = loc[w].run /\ d[2] = loc[w].row[2] + 1
      /\ loc[w].stopped => loc'[w].stopped
      /\ \A e \in Ids \ {d} : rows'[e] = rows[e]
      /\ rows'[d].writes = 0 /\ rows'[d].status # "none"
      /\ rows'[d].own => loc[w].plan[1].own
      /\ rows'[d].auto => rows'[d].status = "approved"
      /\ rows'[d].status \in {"proposed", "approved"} => ~loc[w].plan[1].own /\ ~loc[w].bad /\ ~loc[w].stopped
      /\ rows'[d].status = "approved" => pc'[w] \in {"call", "record"}
  BY <1>0, Stepped
<1>2. w \in Procs /\ loc[w].row[2] \in Nat
  BY DEF Typed, Local, Procs
<1>3. /\ \A i \in 1 .. Len(loc[w].plan) : loc[w].plan[i].own => loc[w].bad
      /\ \A e \in Ids : e[1] = loc[w].run =>
           /\ rows[e].own => loc[w].bad
           /\ loc[w].bad => Unsent(e)
           /\ rows[e].auto /\ rows[e].status # "auto_applied" => loc[w].stopped
  BY <1>1 DEF PlanInv
<1>4. /\ Len(loc[w].plan) > 0 /\ Len(loc[w].plan) \in Nat /\ Len(Tail(loc[w].plan)) = Len(loc[w].plan) - 1
      /\ \A i \in 1 .. Len(Tail(loc[w].plan)) : Tail(loc[w].plan)[i] = loc[w].plan[i + 1]
  BY <1>1, PlanParts
<1>5. loc[w].plan[1].own => loc[w].bad
  BY <1>3, <1>4
<1>6. \A e \in Ids : e[1] = loc[w].run /\ e[2] > d[2] => Unsent(e)
  <2> SUFFICES ASSUME NEW e \in Ids, e[1] = loc[w].run, e[2] > d[2] PROVE Unsent(e)
    OBVIOUS
  <2>1. e[2] > loc[w].row[2]
    <3>1. e[2] \in Nat
      BY Bounds DEF Ids
    <3> QED BY <1>1, <1>2, <3>1
  <2>2. rows[e].status = "none"
    BY <1>1, <1>2, <2>1 DEF Typed, FreshInv
  <2> QED BY <2>2 DEF PlanInv, Unsent
<1>7. \A e \in Ids \ {d} : Unsent(e)' <=> Unsent(e)
  BY <1>1 DEF Unsent
<1>8. loc[w].bad \/ loc[w].stopped => Unsent(d)'
  BY <1>1 DEF Unsent
<1>9. (\A a \in Ids : rows[a].status = "none" => rows[a].writes = 0 /\ ~rows[a].own /\ ~rows[a].auto)'
  BY <1>1 DEF PlanInv
<1>10. ASSUME NEW a \in Ids, NEW b \in Ids, Ends(a, b)' PROVE Unsent(b)'
  <2>1. CASE a # d /\ b # d
    <3>1. Ends(a, b)
      BY <1>1, <1>10, <2>1 DEF Ends
    <3> QED BY <1>7, <2>1, <3>1 DEF PlanInv
  <2>2. CASE a # d /\ b = d
    <3>1. rows'[a] = rows[a] /\ a[1] = loc[w].run
      BY <1>1, <1>10, <2>2 DEF Ends
    <3>2. rows[a].own \/ (rows[a].auto /\ rows[a].status # "auto_applied")
      BY <1>10, <3>1 DEF Ends
    <3> QED BY <1>3, <1>8, <2>2, <3>1, <3>2
  <2>3. CASE a = d /\ rows'[d].own
    <3>1. loc[w].bad /\ b[1] = loc[w].run
      BY <1>1, <1>5, <1>10, <2>3 DEF Ends
    <3>2. CASE b = d
      BY <1>8, <3>1, <3>2
    <3>3. CASE b # d
      BY <1>3, <1>7, <3>1, <3>3
    <3> QED BY <3>2, <3>3
  <2>4. CASE a = d /\ ~rows'[d].own
    <3>1. b[1] = loc[w].run /\ d[2] < b[2]
      BY <1>1, <1>10, <2>4 DEF Ends
    <3>2. b # d /\ b[2] > d[2]
      <4>1. b[2] \in Nat /\ d[2] \in Nat
        BY <1>1, Bounds DEF Ids
      <4> QED BY <3>1, <4>1
    <3> QED BY <1>6, <1>7, <3>1, <3>2
  <2> QED BY <2>1, <2>2, <2>3, <2>4
<1>11. \A v \in Workers : pc'[v] \in Working => v = w
  BY <1>1 DEF Only, Alone, Procs
<1>12. \A i \in 1 .. Len(loc'[w].plan) : loc'[w].plan[i].own => loc'[w].bad
  <2> SUFFICES ASSUME NEW i \in 1 .. Len(Tail(loc[w].plan))
               PROVE  Tail(loc[w].plan)[i].own => loc[w].bad
    BY <1>1
  <2>1. i + 1 \in 1 .. Len(loc[w].plan)
    BY <1>4
  <2> QED BY <1>3, <1>4, <2>1
<1>13. ASSUME NEW e \in Ids, e[1] = loc'[w].run
       PROVE  /\ rows'[e].own => loc'[w].bad
              /\ loc'[w].bad => Unsent(e)'
              /\ rows'[e].auto /\ rows'[e].status # "auto_applied" =>
                     loc'[w].stopped \/ (pc'[w] \in Sending /\ e = loc'[w].row)
  <2>1. CASE e = d
    <3>1. rows'[e].own => loc'[w].bad
      BY <1>1, <1>5, <2>1
    <3>2. loc'[w].bad => Unsent(e)'
      BY <1>1, <1>8, <2>1
    <3>3. rows'[e].auto => pc'[w] \in Sending /\ e = loc'[w].row
      BY <1>1, <2>1
    <3> QED BY <3>1, <3>2, <3>3
  <2>2. CASE e # d
    <3>1. rows'[e] = rows[e] /\ e[1] = loc[w].run
      BY <1>1, <1>13, <2>2
    <3> QED BY <1>1, <1>3, <1>7, <2>2, <3>1
  <2> QED BY <2>1, <2>2
<1> QED BY <1>9, <1>10, <1>11, <1>12, <1>13 DEF PlanInv

LEMMA PlanNext ==
    ASSUME Sent, PlanInv, [Next]_vars
    PROVE  PlanInv'
<1>1. Typed /\ OnceInv
  BY DEF Sent
<1>2. Workers \subseteq Procs /\ Workers \cap Users = {}
  BY NamesAssumption DEF Procs
<1>3. ASSUME NEW p \in Procs, QuietStep(p) PROVE PlanInv'
  <2>1. Only(p) /\ pc'[p] \notin Working /\ rows' = rows
    BY <1>1, <1>3, Quiet
  <2>2. RowsKept
    BY <2>1 DEF RowsKept, Unsent
  <2>3. \A w \in Workers : PlanKept(w)
    BY <1>2, <2>1 DEF Only, PlanKept
  <2> QED BY <2>2, <2>3, PlanStays
<1>4. CASE OutsideRows
  <2>1. /\ UNCHANGED <<pc, loc>> /\ SameWrites
        /\ \A e \in Ids : \/ rows'[e].status = rows[e].status
                          \/ rows[e].status = "proposed" /\ rows'[e].status \notin Applied \cup {"approved", "none"}
    BY <1>1, <1>4, Outside
  <2>2. RowsKept
    BY <2>1 DEF RowsKept, Unsent, SameWrites
  <2>3. \A w \in Workers : PlanKept(w)
    BY <2>1 DEF PlanKept
  <2> QED BY <2>2, <2>3, PlanStays
<1>5. CASE EnvStep
  <2>1. UNCHANGED <<pc, loc, rows>>
    BY <1>1, <1>5, Environment
  <2>2. RowsKept
    BY <2>1 DEF RowsKept, Unsent
  <2>3. \A w \in Workers : PlanKept(w)
    BY <2>1 DEF PlanKept
  <2> QED BY <2>2, <2>3, PlanStays
<1>6. ASSUME NEW w \in Workers, Execute(w) \/ Step(w) PROVE PlanInv'
  BY <1>1, <1>6, PlanBegins, PlanContinues
<1>7. ASSUME NEW u \in Users, NEW d \in Ids, Approve(u, d), lock' # lock PROVE PlanInv'
  <2>1. Only(u) /\ rows' = rows
    BY <1>1, <1>7, Approved
  <2>2. RowsKept
    BY <2>1 DEF RowsKept, Unsent
  <2>3. \A w \in Workers : PlanKept(w)
    BY <1>2, <2>1 DEF Only, PlanKept
  <2> QED BY <2>2, <2>3, PlanStays
<1>8. ASSUME NEW u \in Users, NEW s \in [kind : StateKinds, camp : Camps], Switch(u, s) PROVE PlanInv'
  <2>1. Only(u) /\ rows' = rows
    BY <1>1, <1>8, Switched
  <2>2. RowsKept
    BY <2>1 DEF RowsKept, Unsent
  <2>3. \A w \in Workers : PlanKept(w)
    BY <1>2, <2>1 DEF Only, PlanKept
  <2> QED BY <2>2, <2>3, PlanStays
<1>9. ASSUME NEW u \in Users, Claim(u) PROVE PlanInv'
  <2> DEFINE d == loc[u].row
  <2>1. /\ Only(u) /\ SameWrites /\ d \in Ids /\ (\A e \in Ids \ {d} : rows'[e] = rows[e])
        /\ \/ rows[d].status = "proposed" /\ rows'[d].status = "approved"
           \/ rows' = rows
    BY <1>1, <1>9, Claimed
  <2>2. RowsKept
    BY <2>1 DEF RowsKept, Unsent, SameWrites
  <2>3. \A w \in Workers : PlanKept(w)
    BY <1>2, <2>1 DEF Only, PlanKept
  <2> QED BY <2>2, <2>3, PlanStays
<1>10. ASSUME NEW p \in Procs, Call(p) \/ Audit(p) PROVE PlanInv'
  <2>1. /\ Only(p) /\ pc[p] \in Sending /\ pc'[p] \in Sending /\ SameCommand(p)
    BY <1>1, <1>10, Called, Audited DEF Call
  <2>2. rows' = rows \/ \E hidden \in 0 .. 1 : Written(p, hidden)
    BY <1>1, <1>10, Called, Audited DEF Call
  <2>3. RowsKept
    <3>1. CASE rows' = rows
      BY <3>1 DEF RowsKept, Unsent
    <3>2. CASE \E hidden \in 0 .. 1 : Written(p, hidden)
      <4>1. loc[p].job # "manual" => rows[loc[p].row].status = "approved"
        BY <1>1, <2>1 DEF OnceInv
      <4>2. \A e \in Ids :
              /\ rows'[e].status = rows[e].status /\ rows'[e].auto = rows[e].auto /\ rows'[e].own = rows[e].own
              /\ rows[e].status # "approved" => rows'[e].writes = rows[e].writes
        BY <1>1, <2>1, <3>2, <4>1, WrittenRows
      <4> QED BY <4>2 DEF RowsKept, Unsent
    <3> QED BY <2>2, <3>1, <3>2
  <2>4. \A w \in Workers : PlanKept(w)
    BY <1>2, <2>1 DEF Only, PlanKept, SameCommand
  <2> QED BY <2>3, <2>4, PlanStays
<1>11. ASSUME NEW p \in Procs, Record(p) PROVE PlanInv'
  <2> DEFINE d == loc[p].row
  <2>1. /\ Only(p) /\ SameWrites /\ pc[p] = "record" /\ loc[p].job # "manual" /\ d \in Ids
        /\ pc'[p] \in {"step", "idle"}
        /\ pc'[p] = "step" =>
              loc'[p].run = loc[p].run /\ loc'[p].plan = loc[p].plan /\ loc'[p].bad = loc[p].bad
        /\ (\A e \in Ids \ {d} : rows'[e] = rows[e])
        /\ rows'[d].status = "none" => rows[d].status = "none"
    BY <1>1, <1>11, Recorded DEF Record
  <2>2. rows[d].status = "approved"
    BY <1>1, <2>1 DEF OnceInv
  <2>3. RowsKept
    BY <2>1, <2>2 DEF RowsKept, Unsent, SameWrites
  <2>4. p \in Workers => /\ loc[p].stopped => loc'[p].stopped
                         /\ loc'[p].stopped \/ rows'[d].status = "auto_applied"
    BY <1>1, <1>2, <1>11, <2>2, RecordedStop DEF Record
  <2>5. \A w \in Workers : PlanKept(w)
    BY <1>2, <2>1, <2>4 DEF Only, PlanKept
  <2> QED BY <2>3, <2>5, PlanStays
<1> QED BY <1>3, <1>4, <1>5, <1>6, <1>7, <1>8, <1>9, <1>10, <1>11, Sorted

\* A plan with a step its guards reject is not executed at all, and of a plan of the
\* autopilot nothing is sent after a step that did not succeed, whatever people
\* approve beside it and wherever a worker dies.
THEOREM PlansStop == Spec => []PlanStops
<1>1. Init => PlanInv
  BY DEF Init, PlanInv, Ends, NoRow, Procs
<1>2. Sent /\ PlanInv /\ [Next]_vars => PlanInv'
  BY PlanNext
<1>3. PlanInv => PlanStops
  BY DEF PlanInv, PlanStops, Ends, Unsent
<1> QED BY <1>1, <1>2, <1>3, SentAlways, PTL DEF Spec

-----------------------------------------------------------------------------
(* Campaigns people have paused.                                           *)

\* A step the state of its campaign allows is not about a campaign a person
\* holds, unless somebody else switches it on.
LEMMA AllowedSteps ==
    ASSUME HeldInv, NEW s, NEW level \in 0 .. 3, ~StateForbids(s, level), s.camp \in held
    PROVE  s.kind # "campaign_pause" /\ (level >= 3 => s.kind # "campaign_activate")
BY DEF HeldInv, StateForbids, MayReactivate

LEMMA HeldNext ==
    ASSUME Sent, HeldInv, [Next]_vars
    PROVE  HeldInv'
<1> USE DEF HeldInv
<1>1. Typed /\ OnceInv
  BY DEF Sent
<1>2. held \in SUBSET Camps /\ aiPause \in [Camps -> {"no", "fresh", "repaired"}]
      /\ strategy.level \in 0 .. 3
  BY <1>1, LevelsAssumption DEF Typed, TypeOK
<1>3. ASSUME NEW p \in Procs, QuietStep(p) PROVE HeldInv'
  <2>1. Only(p) /\ pc'[p] \notin Working /\ UNCHANGED <<rows, mirror, aiPause, held>>
    BY <1>1, <1>3, Quiet DEF site
  <2>2. \A q \in Procs : pc'[q] \in Working => pc[q] = pc'[q] /\ loc'[q] = loc[q]
    BY <2>1 DEF Only
  <2> QED BY <2>1, <2>2
<1>4. CASE OutsideRows
  <2>1. UNCHANGED <<pc, loc, mirror, aiPause, held>> /\ \A e \in Ids : rows'[e].step = rows[e].step
    BY <1>1, <1>4, Outside DEF site, SameWrites
  <2>2. \A p \in Procs : pc[p] = "claim" => loc[p].row \in Ids
    BY <1>1 DEF Typed, RowInv
  <2> QED BY <2>1, <2>2
<1>5. CASE EnvStep
  <2>1. UNCHANGED <<pc, loc, rows>>
    BY <1>1, <1>5, Environment
  <2>2. held' \subseteq held /\ \A c \in held' : c \notin mirror' /\ aiPause'[c] = "no"
    <3>1. CASE \E c \in Camps : SyncWrite(c)
      BY <3>1 DEF SyncWrite
    <3>2. CASE \E c \in Camps : Repair(c)
      BY <1>2, <3>2 DEF Repair
    <3>3. CASE UNCHANGED <<held, mirror, aiPause>>
      BY <3>3
    <3> QED BY <1>5, <3>1, <3>2, <3>3 DEF EnvStep, EditStrategy, SyncRead, ExpireRun, vars, site
  <2> QED BY <2>1, <2>2
<1>6. ASSUME NEW w \in Workers, Execute(w) PROVE HeldInv'
  <2>1. /\ Only(w) /\ Alone(w) /\ pc'[w] = "step" /\ UNCHANGED <<rows, mirror, aiPause, held>>
        /\ loc'[w].level = strategy.level
        /\ ~loc'[w].bad => \A i \in 1 .. Len(loc'[w].plan) : ~StateForbids(loc'[w].plan[i], strategy.level)
    BY <1>1, <1>6, Executed DEF site
  <2>2. \A q \in Procs : pc'[q] \in Working => q = w
    BY <2>1 DEF Only, Alone
  <2>3. ~loc'[w].bad /\ loc'[w].level >= 3 =>
          \A i \in 1 .. Len(loc'[w].plan) : loc'[w].plan[i].kind \in StateKinds => loc'[w].plan[i].camp \notin held
    <3> SUFFICES ASSUME ~loc'[w].bad, loc'[w].level >= 3, NEW i \in 1 .. Len(loc'[w].plan),
                        loc'[w].plan[i].kind \in StateKinds, loc'[w].plan[i].camp \in held
                 PROVE  FALSE
      OBVIOUS
    <3>1. ~StateForbids(loc'[w].plan[i], strategy.level) /\ strategy.level >= 3
      BY <2>1
    <3> QED BY <1>2, <3>1, AllowedSteps DEF StateKinds
  <2> QED BY <2>1, <2>2, <2>3
<1>7. ASSUME NEW w \in Workers, Step(w) PROVE HeldInv'
  <2>1. /\ Only(w) /\ Alone(w) /\ UNCHANGED <<mirror, aiPause, held>> /\ pc[w] = "step"
        /\ loc'[w].job = "run" /\ loc'[w].bad = loc[w].bad /\ loc'[w].level = loc[w].level
        /\ loc'[w].plan = Tail(loc[w].plan) /\ loc[w].plan \in Seq(Planned) /\ loc[w].plan # <<>>
        /\ \/ pc'[w] = "step"
           \/ /\ pc'[w] \in {"call", "record"} /\ ~loc[w].bad /\ loc[w].level >= 3
              /\ loc'[w].step.kind = loc[w].plan[1].kind /\ loc'[w].step.camp = loc[w].plan[1].camp
              /\ loc'[w].result # "ok"
    BY <1>1, <1>7, Stepped DEF site
  <2>2. \A q \in Procs : pc'[q] \in Working => q = w
    BY <2>1 DEF Only, Alone
  <2>3. /\ Len(loc[w].plan) \in Nat /\ Len(loc[w].plan) > 0 /\ Len(Tail(loc[w].plan)) = Len(loc[w].plan) - 1
        /\ \A i \in 1 .. Len(Tail(loc[w].plan)) : Tail(loc[w].plan)[i] = loc[w].plan[i + 1]
    BY <2>1, PlanParts
  <2>4. ~loc[w].bad /\ loc[w].level >= 3 =>
          \A i \in 1 .. Len(loc[w].plan) : loc[w].plan[i].kind \in StateKinds => loc[w].plan[i].camp \notin held
    BY <2>1 DEF Procs
  <2>5. ~loc[w].bad /\ loc[w].level >= 3 =>
          \A i \in 1 .. Len(Tail(loc[w].plan)) :
             Tail(loc[w].plan)[i].kind \in StateKinds => Tail(loc[w].plan)[i].camp \notin held
    <3> SUFFICES ASSUME ~loc[w].bad, loc[w].level >= 3, NEW i \in 1 .. Len(Tail(loc[w].plan)),
                        Tail(loc[w].plan)[i].kind \in StateKinds
                 PROVE  Tail(loc[w].plan)[i].camp \notin held
      OBVIOUS
    <3>1. i + 1 \in 1 .. Len(loc[w].plan) /\ Tail(loc[w].plan)[i] = loc[w].plan[i + 1]
      BY <2>3
    <3> QED BY <2>4, <3>1
  <2>6. ~loc[w].bad /\ loc[w].level >= 3 /\ loc[w].plan[1].kind \in StateKinds => loc[w].plan[1].camp \notin held
    <3>1. 1 \in 1 .. Len(loc[w].plan)
      BY <2>3
    <3> QED BY <2>4, <3>1
  <2> QED BY <2>1, <2>2, <2>5, <2>6
<1>8. ASSUME NEW u \in Users, NEW d \in Ids, Approve(u, d), lock' # lock PROVE HeldInv'
  <2>1. /\ Only(u) /\ Alone(u) /\ pc'[u] = "claim" /\ UNCHANGED <<rows, mirror, aiPause, held>>
        /\ loc'[u].row = d /\ ~StateForbids(rows[d].step, strategy.level)
    BY <1>1, <1>8, Approved DEF site
  <2>2. \A q \in Procs : pc'[q] \in Working => q = u
    BY <2>1 DEF Only, Alone
  <2>3. rows[d].step.kind = "campaign_pause" => rows[d].step.camp \notin held
    BY <1>2, <2>1, AllowedSteps
  <2>4. u \notin Workers
    BY NamesAssumption
  <2> QED BY <2>1, <2>2, <2>3, <2>4
<1>9. ASSUME NEW u \in Users, Claim(u) PROVE HeldInv'
  <2>1. /\ Only(u) /\ Alone(u) /\ UNCHANGED <<mirror, aiPause, held>> /\ pc[u] = "claim"
        /\ \/ /\ pc'[u] \in {"call", "record"} /\ loc'[u].job = "approve"
              /\ loc'[u].step = rows[loc[u].row].step /\ loc'[u].result # "ok"
           \/ pc'[u] = "idle"
    BY <1>1, <1>9, Claimed DEF site
  <2>2. \A q \in Procs : pc'[q] \in Working => q = u
    BY <2>1 DEF Only, Alone
  <2>3. u \notin Workers /\ u \in Procs
    BY NamesAssumption DEF Procs
  <2> QED BY <2>1, <2>2, <2>3
<1>10. ASSUME NEW u \in Users, NEW s \in [kind : StateKinds, camp : Camps], Switch(u, s) PROVE HeldInv'
  <2>1. /\ Only(u) /\ Alone(u) /\ pc'[u] = "call" /\ UNCHANGED <<mirror, aiPause, held>>
        /\ loc'[u].job = "manual" /\ loc'[u].result = "none"
    BY <1>1, <1>10, Switched DEF site
  <2>2. \A q \in Procs : pc'[q] \in Working => q = u
    BY <2>1 DEF Only, Alone
  <2>3. u \notin Workers
    BY NamesAssumption
  <2> QED BY <2>1, <2>2, <2>3
<1>11. ASSUME NEW p \in Procs, Call(p) PROVE HeldInv'
  <2>1. /\ Only(p) /\ Alone(p) /\ pc[p] = "call" /\ pc'[p] \in {"audit", "record"} /\ SameCommand(p)
        /\ UNCHANGED <<mirror, aiPause>>
        /\ (held' = held /\ loc'[p].result \in {"error", "transient"}) \/ Effect(p)
    BY <1>1, <1>11, Called DEF Call
  <2>2. \A q \in Procs : pc'[q] \in Working => q = p
    BY <2>1 DEF Only, Alone
  <2>3. held' \subseteq held
    BY <2>1 DEF Effect
  <2>4. /\ loc'[p].job = loc[p].job /\ loc'[p].plan = loc[p].plan /\ loc'[p].bad = loc[p].bad
        /\ loc'[p].level = loc[p].level /\ loc'[p].step = loc[p].step
    BY <2>1 DEF SameCommand
  <2>5. loc[p].step.kind = "campaign_activate" /\ (pc'[p] = "audit" \/ loc'[p].result = "ok") =>
           loc[p].step.camp \notin held'
    <3>1. pc'[p] = "audit" => loc'[p].result = "ok"
      BY <1>1, <1>11, Called DEF Call
    <3> QED BY <2>1, <3>1 DEF Effect
  <2> QED BY <2>1, <2>2, <2>3, <2>4, <2>5
<1>12. ASSUME NEW p \in Procs, Audit(p) PROVE HeldInv'
  <2>1. /\ Only(p) /\ Alone(p) /\ pc[p] = "audit" /\ pc'[p] = "record" /\ SameCommand(p)
    BY <1>1, <1>12, Audited
  <2>2. \A q \in Procs : pc'[q] \in Working => q = p
    BY <2>1 DEF Only, Alone
  <2>3. /\ loc'[p].job = loc[p].job /\ loc'[p].plan = loc[p].plan /\ loc'[p].bad = loc[p].bad
        /\ loc'[p].level = loc[p].level /\ loc'[p].step = loc[p].step
    BY <2>1 DEF SameCommand
  <2>4. /\ loc[p].step.camp \in Camps /\ loc[p].step.kind \in StateKinds
        /\ p \in Workers => loc[p].job = "run"
        /\ p \notin Workers => loc[p].job \in {"approve", "manual"}
    BY <1>1, <2>1 DEF Typed, RowInv, RunsInv, Steps
  <2>5. StateEvent(loc[p].step, Source(p)) =>
          \A c \in Camps : aiPause'[c] = IF c = loc[p].step.camp
                                         THEN IF loc[p].step.kind = "campaign_pause" /\ loc[p].job # "manual" THEN "fresh" ELSE "no"
                                         ELSE aiPause[c]
    BY <1>2, <2>4 DEF StateEvent, Source
  <2>6. CASE /\ StateEvent(loc[p].step, Source(p))
             /\ mirror' = (IF loc[p].step.kind = "campaign_pause" THEN mirror \ {loc[p].step.camp} ELSE mirror \cup {loc[p].step.camp})
             /\ held' = (IF loc[p].step.kind = "campaign_pause" /\ loc[p].job = "manual" THEN held \cup {loc[p].step.camp} ELSE held)
    <3>1. CASE loc[p].step.kind = "campaign_pause" /\ loc[p].job = "manual"
      <4>1. /\ mirror' = mirror \ {loc[p].step.camp} /\ held' = held \cup {loc[p].step.camp}
            /\ p \notin Workers /\ loc'[p].job = "manual" /\ loc'[p].step.kind = "campaign_pause"
            /\ \A c \in held' : c \in Camps /\ aiPause'[c] = IF c = loc[p].step.camp THEN "no" ELSE aiPause[c]
        BY <1>2, <2>3, <2>4, <2>5, <2>6, <3>1
      <4>2. \A c \in held' : c \notin mirror' /\ aiPause'[c] = "no"
        BY <4>1
      <4> QED BY <2>1, <2>2, <4>1, <4>2
    <3>2. CASE ~(loc[p].step.kind = "campaign_pause" /\ loc[p].job = "manual")
      <4>1. held' = held
        BY <2>6, <3>2
      <4>2. loc[p].step.camp \notin held \/ (loc[p].step.kind = "campaign_pause" /\ loc[p].job = "manual")
        BY <2>1, <2>4 DEF StateKinds
      <4>3. \A c \in held' : c \notin mirror' /\ aiPause'[c] = "no"
        BY <1>2, <2>5, <2>6, <3>2, <4>1, <4>2
      <4> QED BY <2>1, <2>2, <2>3, <3>2, <4>1, <4>2, <4>3
    <3> QED BY <3>1, <3>2
  <2>7. CASE /\ UNCHANGED <<mirror, held>> /\ loc'[p].result = "error"
             /\ (StateEvent(loc[p].step, Source(p)) \/ UNCHANGED aiPause)
    <3>1. loc[p].step.camp \notin held \/ (loc[p].step.kind = "campaign_pause" /\ loc[p].job = "manual")
      BY <2>1, <2>4 DEF StateKinds
    <3>2. \A c \in held' : c \notin mirror' /\ aiPause'[c] = "no"
      BY <1>2, <2>5, <2>7, <3>1
    <3> QED BY <2>1, <2>2, <2>3, <2>7, <3>2
  <2> QED BY <1>1, <1>12, <2>6, <2>7, Audited
<1>13. ASSUME NEW p \in Procs, Record(p) PROVE HeldInv'
  <2>1. /\ Only(p) /\ Alone(p) /\ UNCHANGED <<mirror, held>> /\ pc[p] = "record"
        /\ loc[p].job # "manual" /\ loc[p].step \in Steps /\ pc'[p] \in {"step", "idle"}
        /\ pc'[p] = "step" => /\ p \in Workers /\ loc'[p].plan = loc[p].plan /\ loc'[p].bad = loc[p].bad
                              /\ loc'[p].level = loc[p].level
        /\ aiPause' = aiPause \/ (StateEvent(loc[p].step, "ai") /\ loc[p].step.kind \in StateKinds)
    BY <1>1, <1>13, Recorded DEF Record
  <2>2. \A q \in Procs : pc'[q] \in Working => q = p /\ pc'[q] = "step"
    BY <2>1 DEF Only, Alone
  <2>3. loc[p].job \in {"run", "approve"}
    BY <1>1, <2>1 DEF Typed, RunsInv
  <2>4. \A c \in held : aiPause'[c] = "no"
    <3>1. CASE StateEvent(loc[p].step, "ai") /\ loc[p].step.kind \in StateKinds
      <4>1. loc[p].step.kind = "campaign_pause" => loc[p].step.camp \notin held
        BY <2>1, <2>3 DEF StateKinds
      <4>2. \A c \in held : aiPause'[c] = aiPause[c] \/ aiPause'[c] = "no"
        BY <1>2, <3>1, <4>1 DEF StateEvent
      <4> QED BY <4>2
    <3>2. CASE aiPause' = aiPause
      BY <3>2
    <3> QED BY <2>1, <3>1, <3>2
  <2> QED BY <2>1, <2>2, <2>4
<1> QED BY <1>3, <1>4, <1>5, <1>6, <1>7, <1>8, <1>9, <1>10, <1>11, <1>12, <1>13, Sorted

Guarded == Sent /\ HeldInv

LEMMA GuardedAlways == Spec => []Guarded
<1>1. Init => HeldInv
  BY DEF Init, HeldInv
<1>2. Sent /\ HeldInv /\ [Next]_vars => HeldInv'
  BY HeldNext
<1> QED BY <1>1, <1>2, SentAlways, PTL DEF Spec, Guarded

\* Only a command switches a campaign on.
LEMMA OzonFromCalls ==
    ASSUME Guarded, [Next]_vars, NEW c \in Camps, c \in ozon', c \notin ozon, lock \in Workers
    PROVE  c \notin held
<1>1. Typed /\ HeldInv
  BY DEF Guarded, Sent
<1>2. \E p \in Procs : Call(p)
  <2>1. (\E p \in Procs : QuietStep(p) \/ Audit(p) \/ Record(p)) \/ OutsideRows \/ EnvStep => ozon' = ozon
    BY <1>1, Quiet, Audited, Environment, Outside, Recorded DEF Record, site
  <2>2. \/ \E w \in Workers : Execute(w) \/ Step(w)
        \/ \E u \in Users : \/ \E d \in Ids : Approve(u, d) /\ lock' # lock
                            \/ \E s \in [kind : StateKinds, camp : Camps] : Switch(u, s)
                            \/ Claim(u)
        => ozon' = ozon
    BY <1>1, Executed, Stepped, Approved, Switched, Claimed DEF site
  <2> QED BY <2>1, <2>2, Sorted
<1>3. PICK p \in Procs : Call(p)
  BY <1>2
<1>4. pc[p] = "call" /\ Effect(p)
  BY <1>1, <1>3, Called DEF Call
<1>5. loc[p].step.kind = "campaign_activate" /\ c = loc[p].step.camp
  BY <1>4 DEF Effect
<1>6. p \in Workers /\ loc[p].job = "run"
  <2>1. lock = p
    BY <1>1, <1>4 DEF Typed, LockInv
  <2> QED BY <1>1, <1>4, <2>1 DEF Typed, RunsInv
<1> QED BY <1>1, <1>4, <1>5, <1>6 DEF HeldInv, StateKinds

\* A campaign a person has paused through the service stays off until a person,
\* or a proposal a person approved, switches it on.
THEOREM PausesOfPeopleStay == Spec => HumanPauseStays
<1>1. Guarded /\ [Next]_vars =>
        [\A c \in Camps : c \in ozon' \ ozon /\ lock \in Workers => c \notin held]_vars
  BY OzonFromCalls
<1> QED BY <1>1, GuardedAlways, PTL DEF Spec, HumanPauseStays

-----------------------------------------------------------------------------
(* The cap of a day.                                                       *)

LEMMA AppliedFinite ==
    /\ IsFiniteSet(Ids)
    /\ \A S \in SUBSET Ids : IsFiniteSet(S) /\ Cardinality(S) \in Nat
    /\ \A S, T \in SUBSET Ids : S \subseteq T => Cardinality(S) <= Cardinality(T)
    /\ \A S \in SUBSET Ids, d \in Ids : Cardinality(S \cup {d}) <= Cardinality(S) + 1
<1>1. IsFiniteSet(Ids)
  <2>1. IsFiniteSet(RunIds) /\ IsFiniteSet(1 .. MaxSteps)
    BY Bounds, FS_Interval DEF RunIds
  <2> QED BY <2>1, FS_Product DEF Ids
<1>2. \A S \in SUBSET Ids : IsFiniteSet(S) /\ Cardinality(S) \in Nat
  BY <1>1, FS_Subset, FS_CardinalityType
<1>3. \A S, T \in SUBSET Ids : S \subseteq T => Cardinality(S) <= Cardinality(T)
  BY <1>2, FS_Subset
<1>4. \A S \in SUBSET Ids, d \in Ids : Cardinality(S \cup {d}) <= Cardinality(S) + 1
  <2> TAKE S \in SUBSET Ids, d \in Ids
  <2>1. IsFiniteSet(S) /\ Cardinality(S) \in Nat
    BY <1>2
  <2>2. Cardinality(S \cup {d}) = IF d \in S THEN Cardinality(S) ELSE Cardinality(S) + 1
    BY <2>1, FS_AddElement
  <2> QED BY <2>1, <2>2
<1> QED BY <1>1, <1>2, <1>3, <1>4

\* Fewer applied rows, and nobody new past the last look at the cap.
LEMMA CapSame ==
    ASSUME CapInv, AppliedToday' \subseteq AppliedToday,
           \A p \in Procs :
              pc'[p] \in Sending /\ loc'[p].job # "manual" /\ (pc'[p] # "record" \/ loc'[p].result = "ok") =>
                  \/ ~CapReached(1)
                  \/ pc[p] \in Sending /\ loc[p].job # "manual" /\ (pc[p] # "record" \/ loc[p].result = "ok")
    PROVE  CapInv'
<1>1. AppliedToday \in SUBSET Ids
  BY DEF AppliedToday
<1>2. AppliedToday' \in SUBSET Ids
  BY <1>1
<1>3. Cardinality(AppliedToday') <= Cardinality(AppliedToday) /\ Cardinality(AppliedToday) \in Nat
      /\ Cardinality(AppliedToday') \in Nat /\ MaxActionsPerDay \in Nat
  BY <1>1, <1>2, AppliedFinite, Bounds
<1>4. Cardinality(AppliedToday)' = Cardinality(AppliedToday')
  OBVIOUS
<1>5. WithinCap'
  BY <1>3, <1>4 DEF CapInv, WithinCap
<1>6. \A p \in Procs :
         pc'[p] \in Sending /\ loc'[p].job # "manual" /\ (pc'[p] # "record" \/ loc'[p].result = "ok") /\ MaxActionsPerDay > 0 =>
             Cardinality(AppliedToday') < MaxActionsPerDay
  <2>1. MaxActionsPerDay > 0 /\ ~CapReached(1) => Cardinality(AppliedToday) < MaxActionsPerDay
    BY <1>3 DEF CapReached
  <2> QED BY <1>3, <2>1 DEF CapInv
<1> QED BY <1>5, <1>6 DEF CapInv

LEMMA CapNext ==
    ASSUME Sent, CapInv, [Next]_vars
    PROVE  CapInv'
<1> DEFINE Past(l, x) == l \in Sending /\ x.job # "manual" /\ (l # "record" \/ x.result = "ok")
<1>1. Typed /\ OnceInv
  BY DEF Sent
<1>2. ASSUME AppliedToday' \subseteq AppliedToday,
             \A p \in Procs : Past(pc'[p], loc'[p]) => ~CapReached(1) \/ Past(pc[p], loc[p])
      PROVE  CapInv'
  BY <1>2, CapSame
<1>3. rows' = rows => AppliedToday' \subseteq AppliedToday
  BY DEF AppliedToday
<1>4. ASSUME NEW p \in Procs, QuietStep(p) PROVE CapInv'
  <2>1. Only(p) /\ pc'[p] \notin Working /\ rows' = rows
    BY <1>1, <1>4, Quiet
  <2> QED BY <1>2, <1>3, <2>1 DEF Only
<1>5. CASE OutsideRows
  <2>1. /\ UNCHANGED <<pc, loc>>
        /\ \A e \in Ids :
                /\ rows'[e].status = rows[e].status \/ rows'[e].status \notin Applied
                /\ rows'[e].status \in Applied /\ rows'[e].today => rows[e].today
    BY <1>1, <1>5, Outside
  <2>2. AppliedToday' \subseteq AppliedToday
    BY <2>1 DEF AppliedToday
  <2> QED BY <1>2, <2>1, <2>2
<1>6. CASE EnvStep
  <2>1. UNCHANGED <<pc, loc, rows>>
    BY <1>1, <1>6, Environment
  <2> QED BY <1>2, <1>3, <2>1
<1>7. ASSUME NEW w \in Workers, Execute(w) PROVE CapInv'
  <2>1. Only(w) /\ pc'[w] = "step" /\ rows' = rows
    BY <1>1, <1>7, Executed
  <2> QED BY <1>2, <1>3, <2>1 DEF Only
<1>8. ASSUME NEW w \in Workers, Step(w) PROVE CapInv'
  <2> DEFINE d == loc'[w].row
  <2>1. /\ Only(w) /\ (\A e \in Ids \ {d} : rows'[e] = rows[e])
        /\ rows'[d].status \in {"shadow", "rejected_by_guardrail", "proposed", "approved"}
        /\ pc'[w] = "step" \/ (pc'[w] \in {"call", "record"} /\ loc'[w].result # "ok" /\ (pc'[w] = "call" => ~CapReached(1)))
    BY <1>1, <1>8, Stepped
  <2>2. AppliedToday' \subseteq AppliedToday
    BY <2>1 DEF AppliedToday, Applied
  <2>3. \A p \in Procs : Past(pc'[p], loc'[p]) => ~CapReached(1) \/ Past(pc[p], loc[p])
    BY <2>1 DEF Only
  <2> QED BY <1>2, <2>2, <2>3
<1>9. ASSUME NEW u \in Users, NEW d \in Ids, Approve(u, d), lock' # lock PROVE CapInv'
  <2>1. Only(u) /\ pc'[u] = "claim" /\ rows' = rows
    BY <1>1, <1>9, Approved
  <2> QED BY <1>2, <1>3, <2>1 DEF Only
<1>10. ASSUME NEW u \in Users, Claim(u) PROVE CapInv'
  <2> DEFINE d == loc[u].row
  <2>1. /\ Only(u) /\ (\A e \in Ids \ {d} : rows'[e] = rows[e])
        /\ \/ /\ rows'[d].status = "approved" /\ pc'[u] \in {"call", "record"}
              /\ loc'[u].result # "ok" /\ (pc'[u] = "call" => ~CapReached(1))
           \/ rows' = rows /\ pc'[u] = "idle"
    BY <1>1, <1>10, Claimed
  <2>2. AppliedToday' \subseteq AppliedToday
    BY <2>1 DEF AppliedToday, Applied
  <2>3. \A p \in Procs : Past(pc'[p], loc'[p]) => ~CapReached(1) \/ Past(pc[p], loc[p])
    BY <2>1 DEF Only
  <2> QED BY <1>2, <2>2, <2>3
<1>11. ASSUME NEW u \in Users, NEW s \in [kind : StateKinds, camp : Camps], Switch(u, s) PROVE CapInv'
  <2>1. Only(u) /\ loc'[u].job = "manual" /\ rows' = rows
    BY <1>1, <1>11, Switched
  <2> QED BY <1>2, <1>3, <2>1 DEF Only
<1>12. ASSUME NEW p \in Procs, Call(p) \/ Audit(p) PROVE CapInv'
  <2>1. /\ Only(p) /\ pc[p] \in {"call", "audit"} /\ loc'[p].job = loc[p].job
        /\ rows' = rows \/ \E hidden \in 0 .. 1 : Written(p, hidden)
    BY <1>1, <1>12, Called, Audited DEF Call, SameCommand
  <2>2. \A e \in Ids : rows'[e].status = rows[e].status /\ rows'[e].today = rows[e].today
    BY <1>1, <2>1, WrittenRows
  <2>3. AppliedToday' \subseteq AppliedToday
    BY <2>2 DEF AppliedToday
  <2>4. \A q \in Procs : Past(pc'[q], loc'[q]) => ~CapReached(1) \/ Past(pc[q], loc[q])
    BY <2>1 DEF Only
  <2> QED BY <1>2, <2>3, <2>4
<1>13. ASSUME NEW p \in Procs, Record(p) PROVE CapInv'
  <2> DEFINE d == loc[p].row
  <2>1. /\ Only(p) /\ Alone(p) /\ pc[p] = "record" /\ loc[p].job # "manual" /\ d \in Ids
        /\ pc'[p] \in {"step", "idle"} /\ (\A e \in Ids \ {d} : rows'[e] = rows[e])
        /\ rows'[d].status = rows[d].status => rows' = rows
        /\ rows'[d].status = rows[d].status \/ rows[d].status = "approved"
        /\ rows'[d].status \in Applied => rows[d].status \in Applied \/ loc[p].result = "ok"
    BY <1>1, <1>13, Recorded DEF Record
  <2>2. \A q \in Procs : pc'[q] \notin Sending
    BY <2>1 DEF Only, Alone
  <2>3. CASE loc[p].result # "ok" \/ rows'[d].status \notin Applied \/ rows' = rows
    <3>1. AppliedToday' \subseteq AppliedToday
      BY <2>1, <2>3 DEF AppliedToday, Applied
    <3> QED BY <1>2, <2>2, <3>1
  <2>4. CASE loc[p].result = "ok"
    <3>1. AppliedToday' \subseteq AppliedToday \cup {d} /\ AppliedToday \in SUBSET Ids /\ AppliedToday \cup {d} \in SUBSET Ids
          /\ AppliedToday' \in SUBSET Ids
      BY <2>1 DEF AppliedToday
    <3>2. /\ Cardinality(AppliedToday') <= Cardinality(AppliedToday \cup {d})
          /\ Cardinality(AppliedToday \cup {d}) <= Cardinality(AppliedToday) + 1
          /\ Cardinality(AppliedToday) \in Nat /\ Cardinality(AppliedToday') \in Nat
          /\ Cardinality(AppliedToday \cup {d}) \in Nat /\ MaxActionsPerDay \in Nat
      BY <2>1, <3>1, AppliedFinite, Bounds
    <3>3. MaxActionsPerDay > 0 => Cardinality(AppliedToday) < MaxActionsPerDay
      BY <2>1, <2>4 DEF CapInv
    <3>4. MaxActionsPerDay > 0 => Cardinality(AppliedToday') <= MaxActionsPerDay
      BY <3>2, <3>3
    <3> QED BY <2>2, <3>4 DEF CapInv, WithinCap
  <2> QED BY <2>3, <2>4
<1> HIDE DEF Past
<1> QED BY <1>4, <1>5, <1>6, <1>7, <1>8, <1>9, <1>10, <1>11, <1>12, <1>13, Sorted

\* Runs and reviewers of one cabinet never apply more decisions in a day than it
\* is allowed.
THEOREM CapIsKept == Spec => []WithinCap
<1>1. Init => CapInv
  <2> SUFFICES ASSUME Init PROVE CapInv
    OBVIOUS
  <2>1. AppliedToday = {}
    BY DEF Init, AppliedToday, NoRow, Applied
  <2>2. Cardinality(AppliedToday) = 0
    BY <2>1, FS_EmptySet
  <2> QED BY <2>2, Bounds DEF Init, CapInv, WithinCap
<1>2. Sent /\ CapInv /\ [Next]_vars => CapInv'
  BY CapNext
<1>3. CapInv => WithinCap
  BY DEF CapInv
<1> QED BY <1>1, <1>2, <1>3, SentAlways, PTL DEF Spec

=============================================================================
