------------------------- MODULE CabinetSyncProofs -------------------------
(***************************************************************************)
(* CabinetSync for any cabinets, pipeline, handlers and bounds: its state  *)
(* is well typed, and a cabinet reads ready only after a run in which      *)
(* every phase of the pipeline ended without an issue.  With one mishap at *)
(* most, no two handlers work on one cabinet and none that is being synced *)
(* reads ready.  If requests settle before their task starts, every row of *)
(* job_runs that is open has somebody who will close it, or lost it.       *)
(***************************************************************************)
EXTENDS CabinetSync, SequenceTheorems, TLAPS

\* What a handler knows about itself: it has a mutex before it tries it, a summary without an
\* issue has no rate limit either, and the phases done and to do are all of them.
Accounted(h) ==
    /\ hpc[h] = "try" => loc[h].mutex \in Mutexes
    /\ loc[h].sum.limited => loc[h].sum.issues
    /\ hpc[h] \in {"try", "begin"} => loc[h].sum = NoSummary /\ loc[h].good = {}
    /\ hpc[h] = "work" /\ loc[h].task.phase = None /\ ~loc[h].sum.issues =>
          loc[h].good \cup Range(loc[h].todo) = Range(Pipeline)

IInv ==
    /\ TypeOK
    /\ ReadyIsWhole
    /\ \A h \in Handlers : Accounted(h)

PhaseOutcome == [told : {"none", "fail", "limit"}, mark : BOOLEAN, data : BOOLEAN]

\* Every phase, in time or late, reports a well-formed outcome.
LEMMA OutcomeTyped ==
    ASSUME NEW p \in Phases, NEW o,
           o \in PhaseOutcomes(p) \/ o \in LateOutcomes(p)
    PROVE  o \in PhaseOutcome
<1>1. /\ Ok \in PhaseOutcome /\ Fail \in PhaseOutcome /\ Limit \in PhaseOutcome
      /\ Buried \in PhaseOutcome /\ Unmarked \in PhaseOutcome
  BY DEF PhaseOutcome, Ok, Fail, Limit, Buried, Unmarked
<1>2. ASSUME NEW q \in PhaseOutcome PROVE Some(q) \subseteq PhaseOutcome
  BY DEF Some, PhaseOutcome
<1>3. /\ Some(Ok) \subseteq PhaseOutcome /\ Some(Fail) \subseteq PhaseOutcome
      /\ Some(Limit) \subseteq PhaseOutcome /\ Some(Buried) \subseteq PhaseOutcome
      /\ Some(Unmarked) \subseteq PhaseOutcome
  BY <1>1, <1>2
<1>4. PhaseOutcomes(p) \subseteq PhaseOutcome
  BY <1>1, <1>3
  DEF PhaseOutcomes, Phases, Guarded, CampaignsPhase, StatsPhase, PhrasesPhase, ProductsPhase,
      BudgetsPhase, FinancePhase, SalesFunnelPhase, BusinessReportsPhase, TariffsPhase
<1>5. LateOutcomes(p) \subseteq PhaseOutcome
  BY <1>1 DEF LateOutcomes
<1>. QED BY <1>4, <1>5

\* Merging an outcome keeps a summary well formed, never forgets an issue, and
\* makes one of a rate limit.
LEMMA MergeTyped ==
    ASSUME NEW sum \in Summary, NEW p \in Phases, NEW o \in PhaseOutcome,
           sum.limited => sum.issues
    PROVE  /\ Merge(sum, p, o) \in Summary
           /\ Merge(sum, p, o).limited => Merge(sum, p, o).issues
           /\ ~Merge(sum, p, o).issues => ~sum.issues /\ o.told = "none"
BY DEF Merge, Summary, PhaseOutcome

\* The head of a sequence and the values of its tail are its values.
LEMMA RangeHeadTail ==
    ASSUME NEW s \in Seq(Phases), s # <<>>
    PROVE  /\ Head(s) \in Phases
           /\ Tail(s) \in Seq(Phases)
           /\ Range(s) = {Head(s)} \cup Range(Tail(s))
<1>1. Len(s) \in Nat \ {0} OBVIOUS
<1>2. /\ Tail(s) \in Seq(Phases)
      /\ Len(Tail(s)) = Len(s) - 1
      /\ \A i \in 1 .. Len(s) - 1 : Tail(s)[i] = s[i + 1]
  OBVIOUS
<1>3. Range(s) \subseteq {Head(s)} \cup Range(Tail(s))
  <2>. SUFFICES ASSUME NEW i \in 1 .. Len(s)
               PROVE  s[i] \in {Head(s)} \cup Range(Tail(s))
    BY DEF Range
  <2>1. CASE i = 1 BY <2>1
  <2>2. CASE i # 1
    <3>1. i - 1 \in DOMAIN Tail(s) /\ Tail(s)[i - 1] = s[i] BY <2>2, <1>1, <1>2
    <3>. QED BY <3>1 DEF Range
  <2>. QED BY <2>1, <2>2
<1>4. Range(Tail(s)) \subseteq Range(s)
  <2>. SUFFICES ASSUME NEW i \in 1 .. Len(Tail(s)) PROVE Tail(s)[i] \in Range(s)
    BY <1>2 DEF Range
  <2>1. i + 1 \in DOMAIN s /\ Tail(s)[i] = s[i + 1] BY <1>1, <1>2
  <2>. QED BY <2>1 DEF Range
<1>5. Head(s) = s[1] /\ 1 \in DOMAIN s /\ s[1] \in Phases BY <1>1
<1>6. Head(s) \in Range(s) /\ Head(s) \in Phases BY <1>5 DEF Range
<1>. QED BY <1>2, <1>3, <1>4, <1>6

\* Queued tasks and the tasks made of them are tasks.
LEMMA TasksTyped ==
    /\ FanoutTask \in Task
    /\ \A c \in Cabinets : CabinetTask(c) \in Task
    /\ \A c \in Cabinets, r \in Requests : RequestedTask(r, c) \in Task
    /\ \A t \in Task : Again(t) \subseteq Task
    /\ \A t \in Task, p \in Phases : t.count < MaxPhaseRetry => RetryTask(t, p) \in Task
<1>. USE BoundsAssumption
<1>1. FanoutTask \in Task BY DEF Task, NewTask, FanoutTask
<1>2. ASSUME NEW c \in Cabinets PROVE CabinetTask(c) \in Task
  BY DEF Task, NewTask, CabinetTask
<1>3. ASSUME NEW c \in Cabinets, NEW r \in Requests PROVE RequestedTask(r, c) \in Task
  BY DEF Task, NewTask, RequestedTask
<1>4. ASSUME NEW t \in Task PROVE Again(t) \subseteq Task
  BY DEF Task, Again
<1>5. ASSUME NEW t \in Task, NEW p \in Phases, t.count < MaxPhaseRetry
      PROVE  RetryTask(t, p) \in Task
  <2>1. t.count + 1 \in 0 .. MaxPhaseRetry /\ t.cab \in Cabinets \cup {None}
    BY <1>5 DEF Task
  <2>. QED BY <2>1 DEF Task, NewTask, RetryTask
<1>. QED BY <1>1, <1>2, <1>3, <1>4, <1>5

\* A handler starts with well-formed locals.
LEMMA IdleTyped == Idle \in Locals /\ NoSummary \in Summary
BY TasksTyped DEF Idle, Locals, NoSummary, Summary

\* A queue of tasks stays one when the tasks of the code are put into it.
LEMMA RetryTasksTyped ==
    ASSUME TypeOK, NEW h \in Handlers PROVE RetryTasks(h) \subseteq Task
<1>1. loc[h].task \in Task BY DEF TypeOK, Locals
<1>2. RateLimitedPhases(loc[h].sum) \subseteq Phases
  BY DEF RateLimitedPhases, StagePhases, EndpointPhases, Phases
<1>. QED BY <1>1, <1>2, TasksTyped DEF RetryTasks

\* What follows a phase is a summary and phases to do.
LEMMA AfterTyped ==
    ASSUME TypeOK, NEW h \in Handlers, loc[h].todo # <<>>,
           loc[h].sum.limited => loc[h].sum.issues,
           NEW o \in PhaseOutcome, NEW next \in After(h, Head(loc[h].todo), o)
    PROVE  /\ next.sum \in Summary
           /\ next.todo \in Seq(Phases)
           /\ next.sum.limited => next.sum.issues
           /\ ~next.sum.issues => /\ ~loc[h].sum.issues
                                  /\ o.told = "none"
                                  /\ next.todo = Tail(loc[h].todo)
<1>. DEFINE p == Head(loc[h].todo)
            sum == Merge(loc[h].sum, p, o)
            rest == Tail(loc[h].todo)
<1>1. loc[h].sum \in Summary /\ loc[h].todo \in Seq(Phases) BY DEF TypeOK, Locals
<1>2. p \in Phases /\ rest \in Seq(Phases) BY <1>1, RangeHeadTail
<1>3. /\ sum \in Summary
      /\ sum.limited => sum.issues
      /\ ~sum.issues => ~loc[h].sum.issues /\ o.told = "none"
  BY <1>1, <1>2, MergeTyped
<1>4. WithoutCampaigns \in Seq(Phases)
  <2>1. "products" \in Phases /\ "business_reports" \in Phases BY DEF Phases
  <2>2. <<"products", "business_reports">> \in Seq(Phases) /\ <<>> \in Seq(Phases)
    BY <2>1
  <2>. QED BY <2>2 DEF WithoutCampaigns
<1>. HIDE DEF sum, rest, p
<1>5. CASE next = [sum |-> sum, todo |-> rest]
  BY <1>2, <1>3, <1>5 DEF rest
<1>6. CASE sum.limited /\ next = [sum |-> [sum EXCEPT !.data = TRUE], todo |-> rest]
  BY <1>2, <1>3, <1>6 DEF Summary
<1>7. CASE /\ sum.limited
           /\ next = [sum |-> [sum EXCEPT !.stages = @ \cup {"stats", "phrases"}],
                      todo |-> WithoutCampaigns]
  BY <1>3, <1>4, <1>7 DEF Summary, Phases
<1>. QED BY <1>5, <1>6, <1>7 DEF After, Fallback, sum, rest, p

\* Initially the state is well typed and every cabinet without a sync.
LEMMA InitIInv == Init => IInv
<1>. SUFFICES ASSUME Init PROVE IInv OBVIOUS
<1>1. TypeOK
  BY IdleTyped, BoundsAssumption DEF Init, TypeOK, Closed
<1>2. ReadyIsWhole BY DEF Init, ReadyIsWhole
<1>3. ASSUME NEW h \in Handlers PROVE Accounted(h)
  BY <1>3 DEF Init, Accounted, Idle, NoSummary
<1>. QED BY <1>1, <1>2, <1>3 DEF IInv

\* The locals of the other handlers do not move.
LEMMA OthersAccounted ==
    ASSUME NEW h \in Handlers, NEW pc, NEW l,
           TypeOK, \A g \in Handlers : Accounted(g),
           loc' = [loc EXCEPT ![h] = l], hpc' = [hpc EXCEPT ![h] = pc]
    PROVE  \A g \in Handlers \ {h} : Accounted(g)'
BY DEF Accounted, TypeOK

\* A handler whose locals stay is accounted for unless it begins to work.
LEMMA SameAccounted ==
    ASSUME NEW h \in Handlers, NEW pc \in {"idle", "fanout", "begin", "final", "unlock", "delete"},
           TypeOK, \A g \in Handlers : Accounted(g), hpc[h] = "try" \/ pc # "begin",
           loc' = loc, hpc' = [hpc EXCEPT ![h] = pc]
    PROVE  \A g \in Handlers : Accounted(g)'
BY DEF Accounted, TypeOK

\* Requests, the sweep and other steps that touch neither handlers nor readiness.
LEMMA ElsewhereIInv ==
    ASSUME IInv, TypeOK', UNCHANGED <<ready, hpc, loc, whole>> PROVE IInv'
BY DEF IInv, ReadyIsWhole, Accounted

\* The steps of a request keep the invariant.
LEMMA RequestIInv ==
    ASSUME IInv, NEW r \in Requests, Request(r) PROVE IInv'
<1>. USE DEF IInv, TypeOK, api, hist
<1>1. CASE CheckActive(r)
  <2>1. TypeOK' BY <1>1 DEF CheckActive
  <2>. QED BY <1>1, <2>1, ElsewhereIInv DEF CheckActive
<1>2. CASE CreatePending(r)
  <2>1. TypeOK' BY <1>2 DEF CreatePending, SetRun, Rows, Active
  <2>. QED BY <1>2, <2>1, ElsewhereIInv DEF CreatePending
<1>3. CASE EnqueueSync(r)
  <2>1. RequestedTask(r, rcab[r]) \in Task BY TasksTyped
  <2>2. TypeOK' BY <1>3, <2>1 DEF EnqueueSync, SetRun, Rows, Closed
  <2>. QED BY <1>3, <2>2, ElsewhereIInv DEF EnqueueSync
<1>4. CASE SettleRequest(r)
  <2>1. TypeOK' BY <1>4 DEF SettleRequest, SetRun, Rows, Active
  <2>. QED BY <1>4, <2>1, ElsewhereIInv DEF SettleRequest
<1>5. CASE RequestDies(r)
  <2>1. TypeOK' BY <1>5, BoundsAssumption DEF RequestDies, Mishap, Rows
  <2>. QED BY <1>5, <2>1, ElsewhereIInv DEF RequestDies
<1>. QED BY <1>1, <1>2, <1>3, <1>4, <1>5 DEF Request

\* The row of a handler is a row.
LEMMA RowTyped == ASSUME TypeOK, NEW h \in Handlers PROVE Row(h) \in Rows
BY DEF TypeOK, Locals, Task, Row, Rows

\* Closing the run of a handler keeps rows, mishaps and orphans well typed.
LEMMA CloseRunTyped ==
    ASSUME TypeOK, NEW h \in Handlers, CloseRun(h)
    PROVE  /\ runs' \in [Rows -> [status : Active \cup {"closed"}, cab : Cabinets \cup {None}]]
           /\ mishaps' \in 0 .. MaxMishaps
           /\ orphans' \subseteq Rows
BY RowTyped, BoundsAssumption DEF TypeOK, CloseRun, SetRun, Closed, Mishap

\* Taking, skipping and starting a task.
LEMMA TakeIInv ==
    ASSUME IInv,
           \/ \E t \in queue : Dequeue(t)
           \/ \E h \in Handlers : Skip(h) \/ Start(h)
    PROVE  IInv'
<1>. USE DEF IInv
<1>1. ASSUME NEW t \in queue, Dequeue(t) PROVE IInv'
  <2>1. PICK h \in Handlers : h = Worker BY <1>1 DEF Dequeue, Worker
  <2>2. t \in Task /\ t.cab \in Cabinets \cup {None} BY DEF TypeOK, Task
  <2>3. PICK k \in Mutexes : k = LoadOrStore(t.cab)
    <3>1. CASE locks[t.cab] # None
      <4>1. locks[t.cab] \in Mutexes \cup {None} BY <2>2 DEF TypeOK
      <4>. QED BY <3>1, <4>1 DEF LoadOrStore
    <3>2. CASE locks[t.cab] = None
      <4>1. Unreferenced # {} BY <1>1, <3>2 DEF Dequeue
      <4>2. PICK m : m \in Unreferenced BY <4>1
      <4>3. (CHOOSE n \in Unreferenced : TRUE) \in Unreferenced BY <4>2
      <4>4. Unreferenced \subseteq Mutexes BY DEF Unreferenced
      <4>5. LoadOrStore(t.cab) = CHOOSE n \in Unreferenced : TRUE BY <3>2 DEF LoadOrStore
      <4>. QED BY <4>3, <4>4, <4>5
    <3>. QED BY <3>1, <3>2
  <2>. DEFINE l == [Idle EXCEPT !.task = t, !.mutex = k]
  <2>4. l \in Locals /\ l.mutex = k /\ l.sum = NoSummary /\ l.good = {}
    <3>1. l \in Locals BY <2>2, IdleTyped DEF Locals
    <3>. QED BY <3>1 DEF Idle
  <2>5. /\ loc' = [loc EXCEPT ![h] = l] /\ hpc' = [hpc EXCEPT ![h] = "try"]
        /\ queue' = queue \ {t} /\ locks' = [locks EXCEPT ![t.cab] = k]
        /\ UNCHANGED <<runs, ready, rpc, rcab, held, mishaps, whole, orphans>>
    BY <1>1, <2>1, <2>3 DEF Dequeue, Goto, api, hist
  <2>. HIDE DEF l
  <2>6. TypeOK' BY <2>1, <2>2, <2>3, <2>4, <2>5 DEF TypeOK
  <2>7. Accounted(h)' BY <2>1, <2>3, <2>4, <2>5 DEF Accounted, TypeOK, NoSummary
  <2>8. \A g \in Handlers \ {h} : Accounted(g)' BY <2>1, <2>5, OthersAccounted
  <2>9. ReadyIsWhole' BY <2>5 DEF ReadyIsWhole
  <2>. QED BY <2>6, <2>7, <2>8, <2>9
<1>2. ASSUME NEW h \in Handlers, Skip(h) PROVE IInv'
  <2>1. /\ loc' = [loc EXCEPT ![h] = Idle] /\ hpc' = [hpc EXCEPT ![h] = "idle"]
        /\ UNCHANGED <<queue, ready, rpc, rcab, locks, held, mishaps, whole, orphans>>
    BY <1>2 DEF Skip, Return, Goto, api, hist
  <2>2. TypeOK'
    <3>1. loc' \in [Handlers -> Locals] BY <2>1, IdleTyped DEF TypeOK
    <3>2. loc[h].task.row \in Requests \cup {None} BY DEF TypeOK, Locals, Task
    <3>3. runs' \in [Rows -> [status : Active \cup {"closed"}, cab : Cabinets \cup {None}]]
      BY <1>2, <3>2 DEF Skip, TypeOK, SetRun, Closed, Rows
    <3>. QED BY <2>1, <3>1, <3>3 DEF TypeOK
  <2>3. Accounted(h)' BY <2>1, IdleTyped DEF Accounted, TypeOK, Idle, NoSummary
  <2>4. \A g \in Handlers \ {h} : Accounted(g)' BY <2>1, OthersAccounted
  <2>5. ReadyIsWhole' BY <2>1 DEF ReadyIsWhole
  <2>. QED BY <2>2, <2>3, <2>4, <2>5
<1>3. ASSUME NEW h \in Handlers, Start(h) PROVE IInv'
  <2>1. loc[h].task \in Task /\ loc[h].mutex \in Mutexes
    BY <1>3 DEF TypeOK, Locals, Start, Accounted
  <2>2. PICK pc \in {"fanout", "begin", "unlock"} : hpc' = [hpc EXCEPT ![h] = pc]
    BY <1>3 DEF Start, Goto
  <2>3. /\ loc' = loc /\ hpc[h] = "try"
        /\ UNCHANGED <<ready, rpc, rcab, locks, whole>>
    BY <1>3 DEF Start, api
  <2>4. TypeOK'
    <3>1. hpc' \in [Handlers -> {"idle", "try", "fanout", "begin", "work", "final", "unlock",
                                 "delete"}]
      BY <2>2 DEF TypeOK
    <3>2. queue' \subseteq Task
      BY <1>3, <2>1, TasksTyped DEF Start, TypeOK
    <3>3. /\ runs' \in [Rows -> [status : Active \cup {"closed"}, cab : Cabinets \cup {None}]]
          /\ orphans' \subseteq Rows /\ mishaps' \in 0 .. MaxMishaps
      <4>1. Row(h) \in Rows /\ loc[h].task.cab \in Cabinets \cup {None}
            /\ loc[h].task.row \in Requests \cup {None}
        BY <2>1, RowTyped DEF Task
      <4>2. \/ /\ runs' = [runs EXCEPT ![Row(h)] = [status |-> "running", cab |-> loc[h].task.cab]]
               /\ orphans' \subseteq orphans /\ mishaps' = mishaps
            \/ /\ runs' = runs
               /\ orphans' \subseteq orphans \cup ({loc[h].task.row} \ {None})
               /\ mishaps < MaxMishaps /\ mishaps' = mishaps + 1
        BY <1>3 DEF Start, SetRun, Mishap
      <4>3. [status |-> "running", cab |-> loc[h].task.cab]
              \in [status : Active \cup {"closed"}, cab : Cabinets \cup {None}]
        BY <4>1 DEF Active
      <4>. QED BY <4>1, <4>2, <4>3, BoundsAssumption DEF TypeOK, Rows
    <3>4. held' \subseteq Mutexes
      BY <1>3, <2>1 DEF Start, TypeOK
    <3>. QED BY <2>3, <3>1, <3>2, <3>3, <3>4 DEF TypeOK
  <2>5. \A g \in Handlers : Accounted(g)' BY <2>2, <2>3, SameAccounted
  <2>6. ReadyIsWhole' BY <2>3 DEF ReadyIsWhole
  <2>. QED BY <2>4, <2>5, <2>6
<1>. QED BY <1>1, <1>2, <1>3

\* A step of a handler that changes its locals and not its cabinet's readiness.
LEMMA StepIInv ==
    ASSUME IInv, TypeOK', NEW h \in Handlers, NEW pc, NEW l,
           loc' = [loc EXCEPT ![h] = l], hpc' = [hpc EXCEPT ![h] = pc],
           Accounted(h)', ReadyIsWhole'
    PROVE  IInv'
BY OthersAccounted DEF IInv

\* Fan-out, the end of a run, and giving back the lock.
LEMMA EndIInv ==
    ASSUME IInv, NEW h \in Handlers, Fanout(h) \/ Finish(h) \/ Unlock(h) \/ DeleteKey(h)
    PROVE  IInv'
<1>. USE DEF IInv
<1>1. ASSUME Fanout(h) PROVE IInv'
  <2>1. /\ loc' = loc /\ hpc' = [hpc EXCEPT ![h] = "unlock"] /\ hpc[h] = "fanout"
        /\ UNCHANGED <<ready, rpc, rcab, locks, held, whole>>
    BY <1>1 DEF Fanout, Goto, api
  <2>2. loc[h].task \in Task BY DEF TypeOK, Locals
  <2>3. queue' \subseteq Task
    BY <1>1, <2>2, TasksTyped DEF Fanout, TypeOK
  <2>4. /\ runs' \in [Rows -> [status : Active \cup {"closed"}, cab : Cabinets \cup {None}]]
        /\ mishaps' \in 0 .. MaxMishaps
        /\ orphans' \subseteq Rows
    <3>1. CASE CloseRun(h) BY <3>1, CloseRunTyped
    <3>2. CASE Mishap /\ SetRun(Row(h), Closed) /\ UNCHANGED orphans
      BY <3>2, RowTyped, BoundsAssumption DEF TypeOK, SetRun, Closed, Mishap
    <3>. QED BY <1>1, <3>1, <3>2 DEF Fanout
  <2>5. TypeOK' BY <2>1, <2>3, <2>4 DEF TypeOK
  <2>6. \A g \in Handlers : Accounted(g)' BY <2>1, SameAccounted
  <2>7. ReadyIsWhole' BY <2>1 DEF ReadyIsWhole
  <2>. QED BY <2>5, <2>6, <2>7
<1>2. ASSUME Finish(h) PROVE IInv'
  <2>. DEFINE l == [loc[h] EXCEPT !.sum = NoSummary]
  <2>1. loc[h] \in Locals BY DEF TypeOK
  <2>2. l \in Locals /\ l.sum = NoSummary BY <2>1, IdleTyped DEF Locals
  <2>3. /\ loc' = [loc EXCEPT ![h] = l] /\ hpc' = [hpc EXCEPT ![h] = "unlock"]
        /\ UNCHANGED <<ready, rpc, rcab, locks, held, whole>>
    BY <1>2 DEF Finish, Goto, api
  <2>. HIDE DEF l
  <2>4. queue' \subseteq Task BY <1>2, RetryTasksTyped DEF Finish, TypeOK
  <2>5. /\ runs' \in [Rows -> [status : Active \cup {"closed"}, cab : Cabinets \cup {None}]]
        /\ mishaps' \in 0 .. MaxMishaps
        /\ orphans' \subseteq Rows
    BY <1>2, CloseRunTyped DEF Finish
  <2>6. TypeOK' BY <2>2, <2>3, <2>4, <2>5 DEF TypeOK
  <2>7. Accounted(h)' BY <2>2, <2>3 DEF Accounted, TypeOK, NoSummary
  <2>8. ReadyIsWhole' BY <2>3 DEF ReadyIsWhole
  <2>. QED BY <2>3, <2>6, <2>7, <2>8, StepIInv
<1>3. ASSUME Unlock(h) PROVE IInv'
  <2>1. /\ loc' = loc /\ hpc' = [hpc EXCEPT ![h] = "delete"] /\ held' \subseteq held
        /\ UNCHANGED <<queue, runs, ready, rpc, rcab, locks, mishaps, whole, orphans>>
    BY <1>3 DEF Unlock, Goto, api, hist
  <2>2. TypeOK' BY <2>1 DEF TypeOK
  <2>3. \A g \in Handlers : Accounted(g)' BY <2>1, SameAccounted
  <2>4. ReadyIsWhole' BY <2>1 DEF ReadyIsWhole
  <2>. QED BY <2>2, <2>3, <2>4
<1>4. ASSUME DeleteKey(h) PROVE IInv'
  <2>1. /\ loc' = [loc EXCEPT ![h] = Idle] /\ hpc' = [hpc EXCEPT ![h] = "idle"]
        /\ locks' = [locks EXCEPT ![Cab(h)] = None]
        /\ UNCHANGED <<queue, runs, ready, rpc, rcab, held, mishaps, whole, orphans>>
    BY <1>4 DEF DeleteKey, Return, Goto, api, hist
  <2>2. TypeOK' BY <2>1, IdleTyped DEF TypeOK
  <2>3. Accounted(h)' BY <2>1 DEF Accounted, TypeOK, Idle, NoSummary
  <2>4. ReadyIsWhole' BY <2>1 DEF ReadyIsWhole
  <2>. QED BY <2>1, <2>2, <2>3, <2>4, StepIInv
<1>. QED BY <1>1, <1>2, <1>3, <1>4

\* Beginning a sync: nothing is done and every phase is to do, or there is an
\* issue.
LEMMA BeginIInv ==
    ASSUME IInv, NEW h \in Handlers, Begin(h) PROVE IInv'
<1>. USE DEF IInv
<1>1. loc[h] \in Locals /\ hpc[h] = "begin" BY DEF TypeOK, Begin
<1>2. loc[h].sum = NoSummary /\ loc[h].good = {} BY <1>1 DEF Accounted
<1>3. PICK began \in BOOLEAN, start \in Starts(h) :
         /\ BeginWrites(h, began)
         /\ loc' = [loc EXCEPT ![h].began = began,
                               ![h].todo = start.todo,
                               ![h].sum.issues = start.issue]
  BY DEF Begin
<1>4. /\ start.todo \in Seq(Phases) /\ start.issue \in BOOLEAN
      /\ loc[h].task.phase = None /\ ~start.issue => start.todo = Pipeline
  <2>1. loc[h].task.phase # None => loc[h].task.phase \in Phases
    BY <1>1 DEF Locals, Task
  <2>2. PhasesOf(loc[h].task) \in Seq(Phases)
    <3>1. ASSUME NEW p \in Phases PROVE <<p>> \in Seq(Phases) OBVIOUS
    <3>. QED BY <2>1, <3>1, PipelineAssumption DEF PhasesOf
  <2>3. <<>> \in Seq(Phases) OBVIOUS
  <2>4. CASE start = [todo |-> <<>>, issue |-> TRUE] BY <2>3, <2>4
  <2>5. CASE start = [todo |-> <<>>, issue |-> FALSE] /\ loc[h].task.phase # None
    BY <2>3, <2>5
  <2>6. CASE start = [todo |-> PhasesOf(loc[h].task), issue |-> FALSE]
    BY <2>2, <2>6 DEF PhasesOf
  <2>. QED BY <2>4, <2>5, <2>6 DEF Starts
<1>. DEFINE l == [loc[h] EXCEPT !.began = began, !.todo = start.todo,
                                !.sum = [NoSummary EXCEPT !.issues = start.issue]]
<1>5. loc' = [loc EXCEPT ![h] = l]
  <2>1. loc \in [Handlers -> Locals] BY DEF TypeOK
  <2>. QED BY <1>1, <1>2, <1>3, <2>1 DEF Locals
<1>6. /\ l \in Locals /\ l.sum.issues = start.issue /\ ~l.sum.limited
      /\ l.good = {} /\ l.todo = start.todo /\ l.task = loc[h].task
  <2>1. [NoSummary EXCEPT !.issues = start.issue] \in Summary BY <1>4, IdleTyped DEF Summary
  <2>2. [NoSummary EXCEPT !.issues = start.issue].issues = start.issue
        /\ ~[NoSummary EXCEPT !.issues = start.issue].limited
    BY DEF NoSummary
  <2>3. ASSUME NEW s \in Summary
        PROVE  LET k == [loc[h] EXCEPT !.began = began, !.todo = start.todo, !.sum = s]
               IN  /\ k \in Locals /\ k.sum = s
                   /\ k.good = {} /\ k.todo = start.todo /\ k.task = loc[h].task
    BY <1>1, <1>2, <1>4 DEF Locals
  <2>. QED BY <2>1, <2>2, <2>3
<1>. HIDE DEF l
<1>7. /\ hpc' = [hpc EXCEPT ![h] = "work"]
      /\ UNCHANGED <<queue, runs, rpc, rcab, locks, held, orphans>>
  BY DEF Begin, Goto, api
<1>8. /\ TypeOK' /\ ReadyIsWhole'
  <2>1. CASE began
    <3>1. /\ ready' = [ready EXCEPT ![Cab(h)] = "running"]
          /\ whole' = [whole EXCEPT ![Cab(h)] = {}]
          /\ UNCHANGED mishaps
      BY <1>3, <2>1 DEF BeginWrites
    <3>2. TypeOK' BY <1>5, <1>6, <1>7, <3>1 DEF TypeOK
    <3>3. ReadyIsWhole' BY <3>1 DEF ReadyIsWhole, TypeOK
    <3>. QED BY <3>2, <3>3
  <2>2. CASE ~began
    <3>1. Mishap /\ UNCHANGED <<ready, whole>> BY <1>3, <2>2 DEF BeginWrites
    <3>2. TypeOK' BY <1>5, <1>6, <1>7, <3>1, BoundsAssumption DEF TypeOK, Mishap
    <3>3. ReadyIsWhole' BY <3>1 DEF ReadyIsWhole
    <3>. QED BY <3>2, <3>3
  <2>. QED BY <2>1, <2>2
<1>9. Accounted(h)'
  BY <1>4, <1>5, <1>6, <1>7 DEF Accounted, TypeOK
<1>. QED BY <1>5, <1>7, <1>8, <1>9, StepIInv

\* A phase: as long as there is no issue the phase moves from to do to done.
LEMMA WorkIInv ==
    ASSUME IInv, NEW h \in Handlers, Work(h) PROVE IInv'
<1>. USE DEF IInv
<1>. DEFINE p == Head(loc[h].todo)
<1>1. loc[h] \in Locals /\ hpc[h] = "work" /\ loc[h].todo # <<>> BY DEF TypeOK, Work
<1>2. loc[h].todo \in Seq(Phases) /\ loc[h].good \subseteq Phases BY <1>1 DEF Locals
<1>3. p \in Phases /\ Range(loc[h].todo) = {p} \cup Range(Tail(loc[h].todo))
  BY <1>1, <1>2, RangeHeadTail
<1>0. PICK o \in PhaseOutcome : \E next \in After(h, p, o) :
         loc' = [loc EXCEPT ![h].sum = next.sum,
                            ![h].todo = next.todo,
                            ![h].good = IF o.told = "none" THEN @ \cup {p} ELSE @]
  BY <1>3, OutcomeTyped DEF Work
<1>4. PICK next \in After(h, p, o) :
         loc' = [loc EXCEPT ![h].sum = next.sum,
                            ![h].todo = next.todo,
                            ![h].good = IF o.told = "none" THEN @ \cup {p} ELSE @]
  BY <1>0
<1>5. /\ next.sum \in Summary
      /\ next.todo \in Seq(Phases)
      /\ next.sum.limited => next.sum.issues
      /\ ~next.sum.issues => /\ ~loc[h].sum.issues
                             /\ o.told = "none"
                             /\ next.todo = Tail(loc[h].todo)
  BY <1>1, AfterTyped DEF Accounted
<1>6. PICK good \in SUBSET Phases :
         /\ good = IF o.told = "none" THEN loc[h].good \cup {p} ELSE loc[h].good
  BY <1>2, <1>3
<1>. HIDE DEF p
<1>. DEFINE l == [loc[h] EXCEPT !.sum = next.sum, !.todo = next.todo, !.good = good]
<1>7. loc' = [loc EXCEPT ![h] = l]
  <2>1. loc \in [Handlers -> Locals] BY DEF TypeOK
  <2>. QED BY <1>1, <1>4, <1>6, <2>1 DEF Locals
<1>8. /\ l \in Locals /\ l.sum = next.sum /\ l.todo = next.todo /\ l.good = good
      /\ l.task = loc[h].task
  BY <1>1, <1>5 DEF Locals
<1>. HIDE DEF l
<1>9. /\ hpc' = [hpc EXCEPT ![h] = "work"]
      /\ UNCHANGED <<queue, runs, ready, rpc, rcab, hpc, locks, held, mishaps, whole, orphans>>
  BY <1>1 DEF Work, api, hist, TypeOK
<1>10. TypeOK' BY <1>7, <1>8, <1>9 DEF TypeOK
<1>11. ReadyIsWhole' BY <1>9 DEF ReadyIsWhole
<1>12. Accounted(h)'
  <2>1. loc'[h] = l /\ hpc'[h] = "work" BY <1>1, <1>7, <1>9 DEF TypeOK
  <2>2. l.task.phase = None /\ ~l.sum.issues =>
          l.good \cup Range(l.todo) = Range(Pipeline)
    <3>. SUFFICES ASSUME l.task.phase = None, ~l.sum.issues
                  PROVE  l.good \cup Range(l.todo) = Range(Pipeline)
      OBVIOUS
    <3>1. loc[h].good \cup Range(loc[h].todo) = Range(Pipeline)
      BY <1>1, <1>5, <1>8 DEF Accounted
    <3>. QED BY <1>3, <1>5, <1>6, <1>8, <3>1
  <2>. QED BY <1>5, <1>8, <2>1, <2>2 DEF Accounted
<1>. QED BY <1>7, <1>9, <1>10, <1>11, <1>12, StepIInv

\* The end of the sync publishes ready only with nothing left to do.
LEMMA CompleteIInv ==
    ASSUME IInv, NEW h \in Handlers, Complete(h) PROVE IInv'
<1>. USE DEF IInv
<1>. DEFINE l == [loc[h] EXCEPT !.began = FALSE, !.good = {}]
<1>1. loc[h] \in Locals /\ hpc[h] = "work" /\ loc[h].todo = <<>> BY DEF TypeOK, Complete
<1>2. l \in Locals /\ l.sum = loc[h].sum BY <1>1 DEF Locals
<1>3. loc' = [loc EXCEPT ![h] = l]
  <2>1. loc \in [Handlers -> Locals] BY DEF TypeOK
  <2>. QED BY <1>1, <2>1 DEF Locals, Complete
<1>. HIDE DEF l
<1>4. /\ hpc' = [hpc EXCEPT ![h] = "final"]
      /\ UNCHANGED <<queue, runs, rpc, rcab, locks, held, orphans>>
  BY DEF Complete, Goto, api
<1>5. PICK status : status = ReadinessStatus(loc[h].task.phase, loc[h].sum, loc[h].began)
  OBVIOUS
<1>6. /\ status \in {"ready", "partial", "failed"}
      /\ status = "ready" => loc[h].good = Range(Pipeline)
  <2>1. status \in {"ready", "partial", "failed"} BY <1>5 DEF ReadinessStatus
  <2>2. ASSUME status = "ready" PROVE loc[h].good = Range(Pipeline)
    <3>1. loc[h].task.phase = None /\ ~loc[h].sum.issues
      BY <1>5, <2>2 DEF ReadinessStatus
    <3>2. loc[h].good \cup Range(loc[h].todo) = Range(Pipeline)
      BY <1>1, <3>1 DEF Accounted
    <3>3. Range(<<>>) = {} BY DEF Range
    <3>. QED BY <1>1, <3>2, <3>3
  <2>. QED BY <2>1, <2>2
<1>7. TypeOK' /\ ReadyIsWhole'
  <2>1. CASE /\ ready' = [ready EXCEPT ![Cab(h)] = status]
             /\ whole' = [whole EXCEPT ![Cab(h)] = IF status = "ready" THEN loc[h].good ELSE {}]
             /\ UNCHANGED mishaps
    <3>1. loc[h].good \subseteq Phases BY <1>1 DEF Locals
    <3>2. TypeOK' BY <1>2, <1>3, <1>4, <1>6, <2>1, <3>1 DEF TypeOK
    <3>3. ReadyIsWhole' BY <1>6, <2>1 DEF ReadyIsWhole, TypeOK
    <3>. QED BY <3>2, <3>3
  <2>2. CASE Mishap /\ UNCHANGED <<ready, whole>>
    <3>1. TypeOK' BY <1>2, <1>3, <1>4, <2>2, BoundsAssumption DEF TypeOK, Mishap
    <3>2. ReadyIsWhole' BY <2>2 DEF ReadyIsWhole
    <3>. QED BY <3>1, <3>2
  <2>. QED BY <1>5, <2>1, <2>2 DEF Complete
<1>8. Accounted(h)'
  BY <1>1, <1>2, <1>3, <1>4 DEF Accounted, TypeOK
<1>. QED BY <1>3, <1>4, <1>7, <1>8, StepIInv

\* A missed deadline, a crash and the sweep.
LEMMA MishapIInv ==
    ASSUME IInv, Sweep \/ CrashRestart \/ (\E h \in Handlers : Timeout(h)) PROVE IInv'
<1>. USE DEF IInv
<1>1. ASSUME Sweep PROVE IInv'
  <2>1. /\ queue' = queue \cup {FanoutTask}
        /\ UNCHANGED <<runs, ready, rpc, rcab, hpc, loc, locks, held, mishaps, whole, orphans>>
    BY <1>1 DEF Sweep, api, hist
  <2>2. TypeOK' BY <2>1, TasksTyped DEF TypeOK
  <2>. QED BY <2>1, <2>2, ElsewhereIInv
<1>2. ASSUME NEW h \in Handlers, Timeout(h) PROVE IInv'
  <2>. DEFINE l == [loc[h] EXCEPT !.late = TRUE]
  <2>1. loc[h] \in Locals BY DEF TypeOK
  <2>2. /\ l \in Locals /\ l.mutex = loc[h].mutex /\ l.sum = loc[h].sum
        /\ l.good = loc[h].good /\ l.todo = loc[h].todo /\ l.task = loc[h].task
    BY <2>1 DEF Locals
  <2>3. /\ loc' = [loc EXCEPT ![h] = l] /\ hpc' = [hpc EXCEPT ![h] = hpc[h]]
        /\ queue' = queue \cup Again(loc[h].task)
        /\ mishaps < MaxMishaps /\ mishaps' = mishaps + 1
        /\ UNCHANGED <<runs, ready, rpc, rcab, hpc, locks, held, whole, orphans>>
    BY <1>2 DEF Timeout, Mishap, api, hist, TypeOK
  <2>. HIDE DEF l
  <2>4. Again(loc[h].task) \subseteq Task BY <2>1, TasksTyped DEF Locals
  <2>5. TypeOK' BY <2>2, <2>3, <2>4, BoundsAssumption DEF TypeOK
  <2>6. Accounted(h)' BY <2>2, <2>3 DEF Accounted, TypeOK
  <2>7. ReadyIsWhole' BY <2>3 DEF ReadyIsWhole
  <2>. QED BY <2>3, <2>5, <2>6, <2>7, StepIInv
<1>3. ASSUME CrashRestart PROVE IInv'
  <2>1. PICK stopped \in SUBSET Interrupted, old \in SUBSET {j \in Rows : runs[j].status \in Active} :
          /\ queue' = queue \cup {loc[h].task : h \in stopped}
                            \cup UNION {Again(loc[h].task) : h \in Interrupted \ stopped}
          /\ runs' = [j \in Rows |-> IF j \in old THEN Closed ELSE runs[j]]
    BY <1>3 DEF CrashRestart
  <2>2. /\ orphans' = orphans \cup {Row(h) : h \in {g \in Handlers : hpc[g] # "idle"}}
        /\ hpc' = [h \in Handlers |-> "idle"]
        /\ loc' = [h \in Handlers |-> Idle]
        /\ locks' = [k \in DOMAIN locks |-> None]
        /\ held' = {}
        /\ mishaps < MaxMishaps /\ mishaps' = mishaps + 1
        /\ UNCHANGED <<ready, rpc, rcab, whole>>
    BY <1>3 DEF CrashRestart, Mishap, api
  <2>3. queue' \subseteq Task
    <3>1. \A h \in Handlers : loc[h].task \in Task /\ Again(loc[h].task) \subseteq Task
      BY TasksTyped DEF TypeOK, Locals
    <3>2. Interrupted \subseteq Handlers BY DEF Interrupted
    <3>. QED BY <2>1, <3>1, <3>2 DEF TypeOK
  <2>4. runs' \in [Rows -> [status : Active \cup {"closed"}, cab : Cabinets \cup {None}]]
    BY <2>1 DEF TypeOK, Closed
  <2>5. orphans' \subseteq Rows BY <2>2, RowTyped DEF TypeOK
  <2>6. TypeOK' BY <2>2, <2>3, <2>4, <2>5, IdleTyped, BoundsAssumption DEF TypeOK
  <2>7. ASSUME NEW h \in Handlers PROVE Accounted(h)'
    BY <2>2, <2>7 DEF Accounted, Idle, NoSummary
  <2>8. ReadyIsWhole' BY <2>2 DEF ReadyIsWhole
  <2>. QED BY <2>6, <2>7, <2>8
<1>. QED BY <1>1, <1>2, <1>3

\* Every step of the specification keeps the invariant.
LEMMA NextIInv == IInv /\ [Next]_vars => IInv'
<1>. SUFFICES ASSUME IInv, [Next]_vars PROVE IInv' OBVIOUS
<1>1. CASE UNCHANGED vars
  BY <1>1 DEF IInv, TypeOK, ReadyIsWhole, Accounted, vars
<1>2. CASE Next
  <2>1. ASSUME NEW r \in Requests, Request(r) PROVE IInv' BY <2>1, RequestIInv
  <2>2. ASSUME NEW h \in Handlers, Handle(h) PROVE IInv'
    BY <2>2, TakeIInv, EndIInv, BeginIInv, WorkIInv, CompleteIInv DEF Handle
  <2>. QED BY <1>2, <2>1, <2>2, TakeIInv, MishapIInv DEF Next
<1>. QED BY <1>1, <1>2

\* The state of the queue, the handlers, the locks and the rows is well typed in
\* every behaviour.
THEOREM TypeCorrect == Spec => []TypeOK
<1>1. IInv => TypeOK BY DEF IInv
<1>. QED BY InitIInv, NextIInv, <1>1, PTL DEF Spec

\* Whatever rate limits, retries of single phases, missed deadlines, failed
\* statements and crashes happen, completeSellerCabinetReadiness says ready only
\* for a run of the whole pipeline in which no phase had an issue.
THEOREM ReadySound == Spec => []ReadyIsWhole
<1>1. IInv => ReadyIsWhole BY DEF IInv
<1>. QED BY InitIInv, NextIInv, <1>1, PTL DEF Spec

-----------------------------------------------------------------------------
(* The lock of a cabinet, as long as one mishap happens at most.            *)

\* From TryLock to Unlock.
Holding(h) == hpc[h] \in {"fanout", "begin", "work", "final", "unlock"}

\* A handler holds a mutex of its own.  One is late and one has the slot at
\* most, and while the late one holds the lock of a cabinet, the map still has
\* its mutex there: the other one of that cabinet has found it, and tries it.
ExclInv ==
    /\ \A h \in Handlers :
         /\ loc[h].late => mishaps # 0 /\ hpc[h] \notin {"idle", "try"}
         /\ Holding(h) => loc[h].mutex \in held
         /\ (mishaps = 0 \/ loc[h].late) /\ hpc[h] \notin {"idle", "delete"} =>
               locks[Cab(h)] = loc[h].mutex
    /\ \A g, h \in Handlers : g # h =>
         /\ hpc[g] # "idle" /\ hpc[h] # "idle" => (loc[g].late # loc[h].late)
         /\ Holding(g) /\ Holding(h) => loc[g].mutex # loc[h].mutex
         /\ loc[g].late /\ Holding(g) /\ hpc[h] # "idle" /\ Cab(g) = Cab(h) =>
               hpc[h] = "try" /\ loc[h].mutex = loc[g].mutex

Places == {"idle", "try", "fanout", "begin", "work", "final", "unlock", "delete"}

\* A handler knows its task, its mutex and whether it is late from its start
\* to its return.
Same(h) == /\ loc'[h].task = loc[h].task /\ loc'[h].mutex = loc[h].mutex
           /\ loc'[h].late = loc[h].late

\* What handler h does with the locks: nothing, return, take, give back.
LEMMA HandleLocks ==
    ASSUME TypeOK, NEW h \in Handlers, Handle(h)
    PROVE  /\ \A g \in Handlers \ {h} : loc'[g] = loc[g] /\ hpc'[g] = hpc[g]
           /\ mishaps' \in {mishaps, mishaps + 1}
           /\ \/ Skip(h) /\ UNCHANGED <<locks, held>> /\ loc'[h] = Idle /\ hpc'[h] = "idle"
              \/ DeleteKey(h) /\ UNCHANGED held /\ loc'[h] = Idle /\ hpc'[h] = "idle"
                   /\ locks' = [locks EXCEPT ![Cab(h)] = None]
              \/ Start(h) /\ Same(h) /\ UNCHANGED locks /\ hpc'[h] \in {"fanout", "begin", "unlock"}
              \/ Unlock(h) /\ Same(h) /\ UNCHANGED locks /\ hpc'[h] = "delete"
              \/ /\ hpc[h] \in {"fanout", "begin", "work", "final"} /\ Same(h)
                 /\ UNCHANGED <<locks, held>> /\ hpc'[h] \in {"begin", "work", "final", "unlock"}
<1>0. /\ loc \in [Handlers -> Locals] /\ loc[h] \in Locals /\ hpc \in [Handlers -> Places]
  BY DEF TypeOK, Places
<1> DEFINE Others == \A g \in Handlers \ {h} : loc'[g] = loc[g] /\ hpc'[g] = hpc[g]
<1>1. CASE Skip(h) \/ DeleteKey(h)
  <2>1. loc' = [loc EXCEPT ![h] = Idle] /\ hpc' = [hpc EXCEPT ![h] = "idle"] /\ mishaps' = mishaps
    BY <1>1 DEF Skip, DeleteKey, Return, Goto
  <2>2. Others /\ loc'[h] = Idle /\ hpc'[h] = "idle"
    BY <1>0, <2>1
  <2> QED BY <1>1, <2>1, <2>2 DEF Skip, DeleteKey
<1>2. CASE Start(h)
  <2>1. PICK pc \in {"fanout", "begin", "unlock"} : hpc' = [hpc EXCEPT ![h] = pc]
    BY <1>2 DEF Start, Goto
  <2>2. loc' = loc /\ locks' = locks /\ mishaps' \in {mishaps, mishaps + 1}
    BY <1>2 DEF Start, Mishap
  <2> QED BY <1>0, <1>2, <2>1, <2>2 DEF Same
<1>3. CASE Unlock(h)
  BY <1>0, <1>3 DEF Unlock, Goto, Same
<1>4. CASE Fanout(h)
  BY <1>0, <1>4 DEF Fanout, Goto, Same, CloseRun, Mishap
<1>5. CASE Begin(h)
  <2>1. PICK b \in BOOLEAN, start \in Starts(h) :
           loc' = [loc EXCEPT ![h].began = b, ![h].todo = start.todo, ![h].sum.issues = start.issue]
    BY <1>5 DEF Begin
  <2>2. /\ hpc' = [hpc EXCEPT ![h] = "work"] /\ hpc[h] = "begin" /\ UNCHANGED <<locks, held>>
        /\ mishaps' \in {mishaps, mishaps + 1}
    BY <1>5 DEF Begin, BeginWrites, Goto, Mishap
  <2>3. Same(h)
    BY <1>0, <2>1 DEF Same, Locals
  <2>4. Others
    BY <1>0, <2>1, <2>2
  <2> QED BY <1>0, <2>2, <2>3, <2>4
<1>6. CASE Work(h)
  <2> DEFINE p == Head(loc[h].todo)
             outcomes == IF loc[h].late THEN LateOutcomes(p) ELSE PhaseOutcomes(p)
  <2>0. PICK o \in outcomes : \E next \in After(h, p, o) :
           loc' = [loc EXCEPT ![h].sum = next.sum, ![h].todo = next.todo,
                              ![h].good = IF o.told = "none" THEN @ \cup {p} ELSE @]
    BY <1>6 DEF Work
  <2>1. PICK next \in After(h, p, o) :
           loc' = [loc EXCEPT ![h].sum = next.sum, ![h].todo = next.todo,
                              ![h].good = IF o.told = "none" THEN @ \cup {p} ELSE @]
    BY <2>0
  <2>2. /\ hpc' = hpc /\ hpc[h] = "work" /\ UNCHANGED <<locks, held, mishaps>>
    BY <1>6 DEF Work
  <2>3. Same(h)
    BY <1>0, <2>1 DEF Same, Locals
  <2>4. Others
    BY <1>0, <2>1, <2>2
  <2> QED BY <1>0, <2>2, <2>3, <2>4
<1>7. CASE Complete(h)
  <2>1. loc' = [loc EXCEPT ![h].began = FALSE, ![h].good = {}]
    BY <1>7 DEF Complete
  <2>2. /\ hpc' = [hpc EXCEPT ![h] = "final"] /\ hpc[h] = "work" /\ UNCHANGED <<locks, held>>
        /\ mishaps' \in {mishaps, mishaps + 1}
    BY <1>7 DEF Complete, Goto, Mishap
  <2>3. Same(h)
    BY <1>0, <2>1 DEF Same, Locals
  <2>4. Others
    BY <1>0, <2>1, <2>2
  <2> QED BY <1>0, <2>2, <2>3, <2>4
<1>8. CASE Finish(h)
  <2>1. loc' = [loc EXCEPT ![h].sum = NoSummary]
    BY <1>8 DEF Finish
  <2>2. /\ hpc' = [hpc EXCEPT ![h] = "unlock"] /\ hpc[h] = "final" /\ UNCHANGED <<locks, held>>
        /\ mishaps' \in {mishaps, mishaps + 1}
    BY <1>8 DEF Finish, Goto, Mishap, CloseRun
  <2>3. Same(h)
    BY <1>0, <2>1 DEF Same, Locals
  <2>4. Others
    BY <1>0, <2>1, <2>2
  <2> QED BY <1>0, <2>2, <2>3, <2>4
<1> QED BY <1>1, <1>2, <1>3, <1>4, <1>5, <1>6, <1>7, <1>8 DEF Handle

\* Handler w takes task t, with the mutex of its cabinet.
Takes(w, t) ==
    /\ hpc[w] = "idle" /\ hpc'[w] = "try" /\ loc'[w].task = t /\ loc'[w].late = FALSE
    /\ \A g \in Handlers \ {w} : /\ loc'[g] = loc[g] /\ hpc'[g] = hpc[g]
                                 /\ hpc[g] # "idle" => loc[g].late
    /\ loc'[w].mutex \in Mutexes /\ locks'[t.cab] = loc'[w].mutex
    /\ \A k \in DOMAIN locks : k # t.cab => locks'[k] = locks[k]
    /\ locks[t.cab] # None => locks' = locks
    /\ UNCHANGED <<held, mishaps, runs, rpc, orphans, ready>> /\ queue' = queue \ {t}

LEMMA DequeueLocks ==
    ASSUME TypeOK, NEW t \in queue, Dequeue(t) PROVE \E w \in Handlers : Takes(w, t)
<1>1. PICK w \in Handlers : w = Worker /\ hpc[w] = "idle"
  BY DEF Dequeue, Worker
<1>2. t \in Task /\ t.cab \in Cabinets \cup {None} /\ loc \in [Handlers -> Locals]
      /\ locks \in [Cabinets \cup {None} -> Mutexes \cup {None}]
  BY DEF TypeOK, Task
<1>3. PICK k \in Mutexes : k = LoadOrStore(t.cab)
  <2>1. CASE locks[t.cab] # None
    <3>1. locks[t.cab] \in Mutexes
      BY <1>2, <2>1
    <3> QED BY <2>1, <3>1 DEF LoadOrStore
  <2>2. CASE locks[t.cab] = None
    <3>1. Unreferenced # {}
      BY <2>2 DEF Dequeue
    <3>2. PICK m : m \in Unreferenced
      BY <3>1
    <3>3. (CHOOSE n \in Unreferenced : TRUE) \in Unreferenced
      BY <3>2
    <3>4. Unreferenced \subseteq Mutexes
      BY DEF Unreferenced
    <3>5. LoadOrStore(t.cab) = CHOOSE n \in Unreferenced : TRUE
      BY <2>2 DEF LoadOrStore
    <3> QED BY <3>3, <3>4, <3>5
  <2> QED BY <2>1, <2>2
<1>4. locks[t.cab] # None => k = locks[t.cab]
  BY <1>3 DEF LoadOrStore
<1> DEFINE l == [Idle EXCEPT !.task = t, !.mutex = k]
<1>5. l.task = t /\ l.mutex = k /\ l.late = FALSE
  BY DEF Idle
<1>6. /\ loc' = [loc EXCEPT ![w] = l] /\ hpc' = [hpc EXCEPT ![w] = "try"]
      /\ queue' = queue \ {t} /\ locks' = [locks EXCEPT ![t.cab] = k]
      /\ UNCHANGED <<runs, ready, rpc, rcab, held, mishaps, whole, orphans>>
  BY <1>1, <1>3 DEF Dequeue, Goto, api, hist
<1> HIDE DEF l
<1>7. \A g \in Handlers \ {w} : hpc[g] # "idle" => loc[g].late
  BY DEF Dequeue, SlotFree
<1>8. hpc \in [Handlers -> Places]
  BY DEF TypeOK, Places
<1>9. /\ locks'[t.cab] = k /\ \A q \in DOMAIN locks : q # t.cab => locks'[q] = locks[q]
      /\ locks[t.cab] # None => locks' = locks
  BY <1>2, <1>4, <1>6
<1>10. /\ loc'[w] = l /\ hpc'[w] = "try"
       /\ \A g \in Handlers \ {w} : loc'[g] = loc[g] /\ hpc'[g] = hpc[g]
  BY <1>1, <1>2, <1>6, <1>8
<1> QED BY <1>1, <1>3, <1>5, <1>6, <1>7, <1>9, <1>10 DEF Takes


\* Steps that leave handlers and locks alone.
LEMMA ElsewhereExcl ==
    ASSUME TypeOK, ExclInv, UNCHANGED <<hpc, loc, locks, held>>, mishaps' \in {mishaps, mishaps + 1}
    PROVE  ExclInv'
<1>1. mishaps \in Nat /\ (mishaps' = 0 => mishaps = 0) /\ (mishaps # 0 => mishaps' # 0)
  BY BoundsAssumption DEF TypeOK
<1> QED BY <1>1 DEF ExclInv, Holding, Cab

\* The task that is started finds the mutex of a late handler of its cabinet.
LEMMA DequeueExcl ==
    ASSUME TypeOK, ExclInv, NEW t \in queue, Dequeue(t) PROVE ExclInv'
<1>0. PICK w \in Handlers : Takes(w, t)
  BY DequeueLocks
<1>1. /\ hpc[w] = "idle" /\ hpc'[w] = "try" /\ loc'[w].task = t /\ loc'[w].late = FALSE
      /\ \A g \in Handlers \ {w} : /\ loc'[g] = loc[g] /\ hpc'[g] = hpc[g]
                                   /\ hpc[g] # "idle" => loc[g].late
      /\ loc'[w].mutex \in Mutexes /\ locks'[t.cab] = loc'[w].mutex
      /\ \A k \in DOMAIN locks : k # t.cab => locks'[k] = locks[k]
      /\ locks[t.cab] # None => locks' = locks
      /\ UNCHANGED <<held, mishaps>>
  BY <1>0 DEF Takes
<1>2. Cab(w)' = t.cab /\ \A g \in Handlers \ {w} : Cab(g)' = Cab(g)
  BY <1>1 DEF Cab
<1>3. ASSUME NEW g \in Handlers, g # w, hpc[g] \notin {"idle", "delete"}
      PROVE  loc[g].late /\ locks[Cab(g)] = loc[g].mutex /\ locks'[Cab(g)] = loc[g].mutex
  <2>1. loc[g].late /\ locks[Cab(g)] = loc[g].mutex
    BY <1>1, <1>3 DEF ExclInv
  <2>2. Holding(g)
    <3>1. hpc[g] \in Places /\ hpc[g] # "try"
      BY <2>1 DEF TypeOK, Places, ExclInv
    <3> QED BY <1>3, <3>1 DEF Holding, Places
  <2>3. loc[g].mutex \in held /\ Cab(g) \in Cabinets \cup {None}
    BY <2>2 DEF ExclInv, TypeOK, Locals, Task, Cab
  <2>4. loc[g].mutex # None
    BY <2>3, NamesAssumption DEF TypeOK
  <2>5. Cab(g) \in DOMAIN locks
    BY <2>3 DEF TypeOK
  <2> QED BY <1>1, <2>1, <2>4, <2>5
<1>4. ASSUME NEW h \in Handlers
      PROVE  /\ loc'[h].late => mishaps' # 0 /\ hpc'[h] \notin {"idle", "try"}
             /\ Holding(h)' => loc'[h].mutex \in held'
             /\ (mishaps' = 0 \/ loc'[h].late) /\ hpc'[h] \notin {"idle", "delete"} =>
                   locks'[Cab(h)'] = loc'[h].mutex
  <2>1. CASE h = w
    BY <1>1, <1>2, <2>1 DEF Holding
  <2>2. CASE h # w
    BY <1>1, <1>2, <1>3, <2>2 DEF Holding, ExclInv
  <2> QED BY <2>1, <2>2
<1>5. ASSUME NEW g \in Handlers, NEW h \in Handlers, g # h
      PROVE  /\ hpc'[g] # "idle" /\ hpc'[h] # "idle" => (loc'[g].late # loc'[h].late)
             /\ Holding(g)' /\ Holding(h)' => loc'[g].mutex # loc'[h].mutex
             /\ loc'[g].late /\ Holding(g)' /\ hpc'[h] # "idle" /\ Cab(g)' = Cab(h)' =>
                   hpc'[h] = "try" /\ loc'[h].mutex = loc'[g].mutex
  <2>0. loc'[g].late \in BOOLEAN /\ loc'[h].late \in BOOLEAN
    <3>1. loc[g].late \in BOOLEAN /\ loc[h].late \in BOOLEAN
      BY DEF TypeOK, Locals
    <3> QED BY <1>1, <3>1
  <2>1. CASE g = w
    BY <1>1, <1>5, <2>0, <2>1 DEF Holding
  <2>2. CASE h = w
    <3>1. hpc'[g] # "idle" => loc'[g].late
      BY <1>1, <1>5, <2>2
    <3>2. Holding(g)' => /\ hpc[g] \notin {"idle", "delete"} /\ loc'[g] = loc[g] /\ Cab(g)' = Cab(g)
      BY <1>1, <1>2, <1>5, <2>2 DEF Holding
    <3>3. Holding(g)' /\ Cab(g)' = Cab(h)' => loc'[h].mutex = loc'[g].mutex
      BY <1>1, <1>2, <1>3, <1>5, <2>2, <3>2
    <3> QED BY <1>1, <1>5, <2>0, <2>2, <3>1, <3>3 DEF Holding
  <2>3. CASE g # w /\ h # w
    <3>1. /\ loc'[g] = loc[g] /\ hpc'[g] = hpc[g] /\ loc'[h] = loc[h] /\ hpc'[h] = hpc[h]
          /\ Cab(g)' = Cab(g) /\ Cab(h)' = Cab(h) /\ Holding(g)' = Holding(g) /\ Holding(h)' = Holding(h)
      BY <1>1, <1>2, <2>3 DEF Holding
    <3> QED BY <1>5, <3>1 DEF ExclInv
  <2> QED BY <2>1, <2>2, <2>3
<1> QED BY <1>4, <1>5 DEF ExclInv

\* The two conjuncts of ExclInv for handlers that keep what they know.
LEMMA HandleExcl ==
    ASSUME TypeOK, ExclInv, NEW h \in Handlers, Handle(h) PROVE ExclInv'
<1>0. /\ \A g \in Handlers \ {h} : loc'[g] = loc[g] /\ hpc'[g] = hpc[g]
      /\ mishaps' \in {mishaps, mishaps + 1}
  BY HandleLocks
<1>1. mishaps \in Nat /\ (mishaps' = 0 => mishaps = 0) /\ (mishaps # 0 => mishaps' # 0)
  BY <1>0, BoundsAssumption DEF TypeOK
<1>2. \A g \in Handlers \ {h} : Cab(g)' = Cab(g) /\ Holding(g)' = Holding(g)
  BY <1>0 DEF Cab, Holding
<1>3. \A g \in Handlers : loc[g].late \in BOOLEAN /\ Cab(g) \in Cabinets \cup {None}
  BY DEF TypeOK, Locals, Cab, Task
<1>4. CASE loc'[h] = Idle /\ hpc'[h] = "idle" /\ UNCHANGED held
           /\ \A g \in Handlers \ {h} : \/ locks'[Cab(g)] = locks[Cab(g)]
                                        \/ hpc[g] \in {"idle", "delete"}
                                        \/ ~(mishaps = 0 \/ loc[g].late)
  <2>1. ASSUME NEW g \in Handlers
        PROVE  /\ loc'[g].late => mishaps' # 0 /\ hpc'[g] \notin {"idle", "try"}
               /\ Holding(g)' => loc'[g].mutex \in held'
               /\ (mishaps' = 0 \/ loc'[g].late) /\ hpc'[g] \notin {"idle", "delete"} =>
                     locks'[Cab(g)'] = loc'[g].mutex
    <3>1. CASE g = h
      BY <1>4, <3>1 DEF Holding, Idle
    <3>2. CASE g # h
      BY <1>0, <1>1, <1>2, <1>4, <3>2 DEF ExclInv, Holding
    <3> QED BY <3>1, <3>2
  <2>2. ASSUME NEW g \in Handlers, NEW k \in Handlers, g # k
        PROVE  /\ hpc'[g] # "idle" /\ hpc'[k] # "idle" => (loc'[g].late # loc'[k].late)
               /\ Holding(g)' /\ Holding(k)' => loc'[g].mutex # loc'[k].mutex
               /\ loc'[g].late /\ Holding(g)' /\ hpc'[k] # "idle" /\ Cab(g)' = Cab(k)' =>
                     hpc'[k] = "try" /\ loc'[k].mutex = loc'[g].mutex
    <3>1. CASE g = h \/ k = h
      BY <1>4, <3>1 DEF Holding
    <3>2. CASE g # h /\ k # h
      BY <1>0, <1>2, <2>2, <3>2 DEF ExclInv, Holding
    <3> QED BY <3>1, <3>2
  <2> QED BY <2>1, <2>2 DEF ExclInv
<1>5. CASE Skip(h) /\ loc'[h] = Idle /\ hpc'[h] = "idle" /\ UNCHANGED <<locks, held>>
  BY <1>4, <1>5
<1>6. CASE DeleteKey(h) /\ loc'[h] = Idle /\ hpc'[h] = "idle" /\ UNCHANGED held
           /\ locks' = [locks EXCEPT ![Cab(h)] = None]
  <2>1. hpc[h] = "delete"
    BY <1>6 DEF DeleteKey
  <2>2. ASSUME NEW g \in Handlers \ {h}, hpc[g] \notin {"idle", "delete"}, mishaps = 0 \/ loc[g].late
        PROVE  locks'[Cab(g)] = locks[Cab(g)]
    <3>1. loc[g].late
      BY <1>3, <2>1, <2>2 DEF ExclInv
    <3>2. Holding(g)
      <4>1. hpc[g] \in Places /\ hpc[g] # "try"
        BY <3>1 DEF TypeOK, Places, ExclInv
      <4> QED BY <2>2, <4>1 DEF Holding, Places
    <3>3. Cab(g) # Cab(h)
      BY <2>1, <3>1, <3>2 DEF ExclInv
    <3> QED BY <1>3, <1>6, <3>3 DEF TypeOK
  <2> QED BY <1>4, <1>6, <2>2
<1>7. CASE Same(h) /\ UNCHANGED locks /\ hpc[h] # "idle" /\ hpc'[h] \notin {"idle", "try"}
           /\ (Holding(h)' => loc[h].mutex \in held')
           /\ (hpc[h] = "delete" => hpc'[h] = "delete")
           /\ (Holding(h) => hpc'[h] = "delete" \/ Holding(h)')
           /\ (\A g \in Handlers \ {h} : Holding(g) =>
                  /\ loc[g].mutex \in held'
                  /\ Holding(h)' => loc[g].mutex # loc[h].mutex)
           /\ (~Holding(h) /\ Holding(h)' => hpc[h] = "try" /\ loc[h].mutex \notin held)
           /\ (Holding(h) \/ hpc[h] = "try")
           /\ (hpc[h] = "try" => Holding(h)')
  <2>0. Cab(h)' = Cab(h)
    BY <1>7 DEF Same, Cab
  <2>1. ASSUME NEW g \in Handlers
        PROVE  /\ loc'[g].late => mishaps' # 0 /\ hpc'[g] \notin {"idle", "try"}
               /\ Holding(g)' => loc'[g].mutex \in held'
               /\ (mishaps' = 0 \/ loc'[g].late) /\ hpc'[g] \notin {"idle", "delete"} =>
                     locks'[Cab(g)'] = loc'[g].mutex
    <3>1. CASE g = h
      <4>1. loc'[h].late => mishaps' # 0
        BY <1>1, <1>7 DEF Same, ExclInv
      <4>2. mishaps' = 0 \/ loc'[h].late => mishaps = 0 \/ loc[h].late
        BY <1>1, <1>7 DEF Same
      <4>3. hpc[h] \notin {"idle", "delete"}
        BY <1>7 DEF Holding
      <4>4. mishaps = 0 \/ loc[h].late => locks[Cab(h)] = loc[h].mutex
        BY <4>3 DEF ExclInv
      <4> QED BY <1>7, <2>0, <3>1, <4>1, <4>2, <4>4 DEF Same
    <3>2. CASE g # h
      BY <1>0, <1>1, <1>2, <1>7, <3>2 DEF ExclInv, Holding
    <3> QED BY <3>1, <3>2
  <2>2. ASSUME NEW g \in Handlers, NEW k \in Handlers, g # k
        PROVE  /\ hpc'[g] # "idle" /\ hpc'[k] # "idle" => (loc'[g].late # loc'[k].late)
               /\ Holding(g)' /\ Holding(k)' => loc'[g].mutex # loc'[k].mutex
               /\ loc'[g].late /\ Holding(g)' /\ hpc'[k] # "idle" /\ Cab(g)' = Cab(k)' =>
                     hpc'[k] = "try" /\ loc'[k].mutex = loc'[g].mutex
    <3>1. CASE g = h
      <4>1. hpc'[k] = hpc[k] /\ loc'[k] = loc[k] /\ Cab(k)' = Cab(k) /\ Holding(k)' = Holding(k)
        BY <1>0, <1>2, <2>2, <3>1
      <4>2. hpc'[g] # "idle" /\ hpc'[k] # "idle" => (loc'[g].late # loc'[k].late)
        BY <1>7, <2>2, <3>1, <4>1 DEF Same, ExclInv
      <4>3. Holding(g)' /\ Holding(k)' => loc'[g].mutex # loc'[k].mutex
        BY <1>7, <2>2, <3>1, <4>1 DEF Same
      <4>4. ASSUME loc'[g].late, Holding(g)', hpc'[k] # "idle", Cab(g)' = Cab(k)'
            PROVE  hpc'[k] = "try" /\ loc'[k].mutex = loc'[g].mutex
        <5>1. loc[h].late /\ hpc[h] # "try"
          BY <1>7, <3>1, <4>4 DEF Same, ExclInv
        <5>2. Holding(h)
          BY <1>7, <5>1
        <5>3. hpc[k] = "try" /\ loc[k].mutex = loc[h].mutex
          BY <2>0, <2>2, <3>1, <4>1, <4>4, <5>1, <5>2 DEF ExclInv
        <5> QED BY <1>7, <3>1, <4>1, <5>3 DEF Same
      <4> QED BY <4>2, <4>3, <4>4
    <3>2. CASE k = h
      <4>1. hpc'[g] = hpc[g] /\ loc'[g] = loc[g] /\ Cab(g)' = Cab(g) /\ Holding(g)' = Holding(g)
        BY <1>0, <1>2, <2>2, <3>2
      <4>2. hpc'[g] # "idle" /\ hpc'[k] # "idle" => (loc'[g].late # loc'[k].late)
        BY <1>7, <2>2, <3>2, <4>1 DEF Same, ExclInv
      <4>3. Holding(g)' /\ Holding(k)' => loc'[g].mutex # loc'[k].mutex
        BY <1>7, <2>2, <3>2, <4>1 DEF Same
      <4>4. ASSUME loc'[g].late, Holding(g)', hpc'[k] # "idle", Cab(g)' = Cab(k)' PROVE FALSE
        <5>1. loc[g].late /\ Holding(g) /\ hpc[h] # "idle" /\ Cab(g) = Cab(h) /\ g # h
          BY <1>7, <2>0, <2>2, <3>2, <4>1, <4>4
        <5>2. hpc[h] = "try" /\ loc[h].mutex = loc[g].mutex /\ loc[g].mutex \in held
          BY <5>1 DEF ExclInv
        <5>3. ~Holding(h)
          BY <5>2 DEF Holding
        <5> QED BY <1>7, <5>2, <5>3
      <4> QED BY <4>2, <4>3, <4>4
    <3>3. CASE g # h /\ k # h
      BY <1>0, <1>2, <2>2, <3>3 DEF ExclInv, Holding
    <3> QED BY <3>1, <3>2, <3>3
  <2> QED BY <2>1, <2>2 DEF ExclInv
<1>8. CASE Start(h) /\ Same(h) /\ UNCHANGED locks /\ hpc'[h] \in {"fanout", "begin", "unlock"}
  <2>1. hpc[h] = "try" /\ loc[h].mutex \notin held /\ held' = held \cup {loc[h].mutex}
    BY <1>8 DEF Start
  <2>2. \A g \in Handlers \ {h} : Holding(g) => loc[g].mutex \in held
    BY DEF ExclInv
  <2>3. ~Holding(h) /\ Holding(h)'
    BY <1>8, <2>1 DEF Holding
  <2> QED BY <1>7, <1>8, <2>1, <2>2, <2>3
<1>9. CASE Unlock(h) /\ Same(h) /\ UNCHANGED locks /\ hpc'[h] = "delete"
  <2>1. hpc[h] = "unlock" /\ held' = held \ {loc[h].mutex}
    BY <1>9 DEF Unlock
  <2>2. Holding(h) /\ ~Holding(h)'
    BY <1>9, <2>1 DEF Holding
  <2>3. \A g \in Handlers \ {h} : Holding(g) => loc[g].mutex \in held'
    BY <2>1, <2>2 DEF ExclInv
  <2> QED BY <1>7, <1>9, <2>1, <2>2, <2>3
<1>10. CASE /\ hpc[h] \in {"fanout", "begin", "work", "final"} /\ Same(h)
            /\ UNCHANGED <<locks, held>> /\ hpc'[h] \in {"begin", "work", "final", "unlock"}
  <2>1. Holding(h) /\ Holding(h)' /\ loc[h].mutex \in held
    BY <1>10 DEF Holding, ExclInv
  <2>2. \A g \in Handlers \ {h} : Holding(g) => loc[g].mutex \in held /\ loc[g].mutex # loc[h].mutex
    BY <2>1 DEF ExclInv
  <2> QED BY <1>7, <1>10, <2>1, <2>2
<1> QED BY <1>5, <1>6, <1>8, <1>9, <1>10, HandleLocks

\* The one deadline that passes makes the only handler there is a late one.
LEMMA TimeoutExcl ==
    ASSUME MaxMishaps <= 1, TypeOK, ExclInv, NEW h \in Handlers, Timeout(h) PROVE ExclInv'
<1>1. /\ hpc[h] \in {"fanout", "begin", "work", "final"} /\ ~loc[h].late
      /\ mishaps < MaxMishaps /\ mishaps' = mishaps + 1
      /\ UNCHANGED <<hpc, locks, held>> /\ loc' = [loc EXCEPT ![h].late = TRUE]
  BY DEF Timeout, Mishap
<1>2. mishaps = 0 /\ mishaps' # 0
  <2>1. MaxMishaps \in Nat /\ mishaps \in Nat
    BY BoundsAssumption DEF TypeOK
  <2> QED BY <1>1, <2>1
<1>3. /\ loc'[h].late = TRUE /\ loc'[h].task = loc[h].task /\ loc'[h].mutex = loc[h].mutex
      /\ \A g \in Handlers \ {h} : loc'[g] = loc[g]
  <2>1. loc \in [Handlers -> Locals] /\ loc[h] \in Locals
    BY DEF TypeOK
  <2> QED BY <1>1, <2>1 DEF Locals
<1>4. \A g \in Handlers : ~loc[g].late /\ (g # h => hpc[g] = "idle")
  <2>1. \A g \in Handlers : ~loc[g].late /\ loc[g].late \in BOOLEAN
    BY <1>2 DEF ExclInv, TypeOK, Locals
  <2> QED BY <1>1, <2>1 DEF ExclInv
<1>5. Cab(h)' = Cab(h) /\ \A g \in Handlers : Holding(g)' = Holding(g)
  BY <1>1, <1>3 DEF Cab, Holding
<1>6. locks[Cab(h)] = loc[h].mutex /\ loc[h].mutex \in held
  BY <1>1, <1>2 DEF ExclInv, Holding
<1>7. ASSUME NEW g \in Handlers
      PROVE  /\ loc'[g].late => mishaps' # 0 /\ hpc'[g] \notin {"idle", "try"}
             /\ Holding(g)' => loc'[g].mutex \in held'
             /\ (mishaps' = 0 \/ loc'[g].late) /\ hpc'[g] \notin {"idle", "delete"} =>
                   locks'[Cab(g)'] = loc'[g].mutex
  <2>1. CASE g = h
    BY <1>1, <1>2, <1>3, <1>5, <1>6, <2>1
  <2>2. CASE g # h
    BY <1>1, <1>2, <1>3, <1>4, <2>2 DEF Holding
  <2> QED BY <2>1, <2>2
<1>8. ASSUME NEW g \in Handlers, NEW k \in Handlers, g # k
      PROVE  (hpc'[g] = "idle" \/ hpc'[k] = "idle") /\ (Holding(g)' => hpc'[k] = "idle")
             /\ ~(Holding(g)' /\ Holding(k)')
  BY <1>1, <1>4, <1>8 DEF Holding
<1> QED BY <1>7, <1>8 DEF ExclInv

LEMMA NextExcl ==
    ASSUME MaxMishaps <= 1, TypeOK, ExclInv, [Next]_vars PROVE ExclInv'
<1>1. CASE UNCHANGED vars
  BY <1>1, ElsewhereExcl DEF vars
<1>2. ASSUME NEW r \in Requests, Request(r) PROVE ExclInv'
  BY <1>2, ElsewhereExcl DEF Request, CheckActive, CreatePending, EnqueueSync, SettleRequest,
     RequestDies, Mishap
<1>3. CASE Sweep
  BY <1>3, ElsewhereExcl DEF Sweep
<1>4. CASE CrashRestart
  <2>1. /\ hpc' = [h \in Handlers |-> "idle"] /\ loc' = [h \in Handlers |-> Idle]
    BY <1>4 DEF CrashRestart
  <2>2. \A h \in Handlers : hpc'[h] = "idle" /\ loc'[h].late = FALSE
    BY <2>1 DEF Idle
  <2> QED BY <2>2 DEF ExclInv, Holding
<1> QED BY <1>1, <1>2, <1>3, <1>4, DequeueExcl, HandleExcl, TimeoutExcl DEF Next

LEMMA InitExcl == Init => ExclInv
BY DEF Init, ExclInv, Holding, Idle

LEMMA Exclusive == ASSUME TypeOK, ExclInv PROVE CabinetExclusive
<1> SUFFICES ASSUME NEW g \in Handlers, NEW h \in Handlers, g # h, Inside(g), Inside(h),
                    Cab(g) = Cab(h)
             PROVE  FALSE
  BY DEF CabinetExclusive
<1>1. Holding(g) /\ Holding(h) /\ hpc[g] # "idle" /\ hpc[h] # "idle"
  BY DEF Inside, Holding
<1>2. loc[g].late \/ loc[h].late
  BY <1>1 DEF ExclInv, TypeOK, Locals
<1>3. hpc[h] = "try" \/ hpc[g] = "try"
  BY <1>1, <1>2 DEF ExclInv
<1> QED BY <1>3 DEF Inside

\* tryWorkspaceSyncLock keeps a task that is started after the deadline of
\* another from syncing its cabinet beside it.  MaxMishaps <= 1 is needed: after
\* two missed deadlines the deferred Unlock and Delete of the first handler
\* leave the second with a mutex the map no longer has, and a third finds none.
THEOREM OneSyncPerCabinet == ASSUME MaxMishaps <= 1 PROVE Spec => []CabinetExclusive
<1>1. IInv => TypeOK
  BY DEF IInv
<1>2. TypeOK /\ ExclInv => CabinetExclusive
  BY Exclusive
<1>3. TypeOK /\ ExclInv /\ [Next]_vars => ExclInv'
  BY NextExcl
<1> QED BY InitIInv, NextIInv, InitExcl, <1>1, <1>2, <1>3, PTL DEF Spec

-----------------------------------------------------------------------------
(* Readiness while a sync is under way.                                     *)

\* A handler that syncs, syncs a cabinet.
CurrentInv ==
    /\ ReadyIsCurrent
    /\ \A h \in Handlers : hpc[h] \in {"begin", "work", "final"} => Cab(h) # None

LEMMA NextCurrent ==
    ASSUME TypeOK, CabinetExclusive, CurrentInv, [Next]_vars PROVE CurrentInv'
<1>0. /\ loc \in [Handlers -> Locals] /\ hpc \in [Handlers -> Places]
      /\ ready \in [Cabinets -> {"none", "running", "ready", "partial", "failed"}]
      /\ \A h \in Handlers : Cab(h) \in Cabinets \cup {None}
  BY DEF TypeOK, Places, Cab, Locals, Task
<1>1. ASSUME NEW h \in Handlers, \A g \in Handlers \ {h} : loc'[g] = loc[g] /\ hpc'[g] = hpc[g],
             UNCHANGED ready,
             /\ hpc'[h] = "work" /\ loc'[h].began => hpc[h] = "work" /\ loc[h].began
                                                     /\ Cab(h)' = Cab(h)
             /\ hpc'[h] \in {"begin", "work", "final"} => Cab(h)' # None
      PROVE  CurrentInv'
  <2>1. \A g \in Handlers \ {h} : Cab(g)' = Cab(g)
    BY <1>1 DEF Cab
  <2> QED BY <1>1, <2>1 DEF CurrentInv, ReadyIsCurrent
<1>2. CASE UNCHANGED <<hpc, loc, ready>>
  BY <1>2 DEF CurrentInv, ReadyIsCurrent, Cab
<1>3. ASSUME NEW r \in Requests, Request(r) PROVE CurrentInv'
  BY <1>2, <1>3 DEF Request, CheckActive, CreatePending, EnqueueSync, SettleRequest, RequestDies
<1>4. CASE Sweep \/ UNCHANGED vars
  BY <1>2, <1>4 DEF Sweep, vars
<1>5. CASE CrashRestart
  <2>1. \A h \in Handlers : hpc'[h] = "idle"
    BY <1>5 DEF CrashRestart
  <2> QED BY <2>1 DEF CurrentInv, ReadyIsCurrent
<1>6. ASSUME NEW t \in queue, Dequeue(t) PROVE CurrentInv'
  <2>1. PICK w \in Handlers : Takes(w, t)
    BY <1>6, DequeueLocks
  <2> QED BY <1>1, <2>1 DEF Takes
<1>7. ASSUME NEW h \in Handlers, Timeout(h) PROVE CurrentInv'
  <2>1. /\ loc' = [loc EXCEPT ![h].late = TRUE] /\ UNCHANGED <<hpc, ready>>
    BY <1>7 DEF Timeout
  <2>2. \A g \in Handlers : loc'[g].began = loc[g].began /\ loc'[g].task = loc[g].task
    BY <1>0, <2>1 DEF Locals
  <2> QED BY <2>1, <2>2 DEF CurrentInv, ReadyIsCurrent, Cab
<1>8. ASSUME NEW h \in Handlers, Handle(h), hpc[h] \in {"begin", "work", "final"} => Cab(h) # None
      PROVE  CurrentInv'
  <2>0. \A g \in Handlers \ {h} : loc'[g] = loc[g] /\ hpc'[g] = hpc[g]
    BY <1>8, HandleLocks
  <2>1. CASE Begin(h)
    <3>1. Same(h) /\ hpc[h] = "begin" /\ Cab(h) \in Cabinets /\ hpc'[h] = "work"
      BY <1>0, <1>8, <2>1, HandleLocks DEF Begin, Goto, Skip, DeleteKey, Start, Unlock
    <3>2. PICK b \in BOOLEAN, start \in Starts(h) :
             /\ loc' = [loc EXCEPT ![h].began = b, ![h].todo = start.todo, ![h].sum.issues = start.issue]
             /\ BeginWrites(h, b)
      BY <2>1 DEF Begin
    <3>3. loc'[h].began = b
      BY <1>0, <3>2 DEF Locals
    <3>4. CASE b
      <4>1. ready' = [ready EXCEPT ![Cab(h)] = "running"]
        BY <3>2, <3>4 DEF BeginWrites
      <4>2. \A g \in Handlers : Cab(g)' = Cab(g)
        BY <2>0, <3>1 DEF Same, Cab
      <4>3. \A c \in Cabinets : ready'[c] \in {ready[c], "running"}
        BY <1>0, <4>1
      <4>4. ready'[Cab(h)] = "running"
        BY <1>0, <3>1, <4>1
      <4>5. ASSUME NEW g \in Handlers \ {h}, hpc[g] = "work", loc[g].began
            PROVE  ready'[Cab(g)] # "ready"
        <5>1. Cab(g) \in Cabinets /\ ready[Cab(g)] # "ready"
          BY <1>0, <4>5 DEF CurrentInv, ReadyIsCurrent
        <5> QED BY <4>3, <5>1
      <4> QED BY <2>0, <3>1, <4>2, <4>4, <4>5 DEF CurrentInv, ReadyIsCurrent
    <3>5. CASE ~b
      <4>1. UNCHANGED ready
        BY <3>2, <3>5 DEF BeginWrites
      <4> QED BY <1>0, <1>1, <2>0, <3>1, <3>3, <3>5, <4>1, NamesAssumption DEF Same, Cab
    <3> QED BY <3>4, <3>5
  <2>2. CASE Complete(h)
    <3>1. Same(h) /\ hpc[h] = "work" /\ Cab(h) # None /\ hpc'[h] = "final"
      BY <1>0, <1>8, <2>2, HandleLocks DEF Complete, Goto, Skip, DeleteKey, Start, Unlock
    <3>2. PICK status : UNCHANGED ready \/ ready' = [ready EXCEPT ![Cab(h)] = status]
      BY <2>2 DEF Complete
    <3>3. \A g \in Handlers : Cab(g)' = Cab(g)
      BY <2>0, <3>1 DEF Same, Cab
    <3>4. ASSUME NEW g \in Handlers \ {h}, hpc[g] = "work", loc[g].began
          PROVE  ready'[Cab(g)] # "ready"
      <4>1. Cab(g) # Cab(h) /\ Cab(g) \in Cabinets /\ ready[Cab(g)] # "ready"
        BY <1>0, <3>1, <3>4 DEF CabinetExclusive, Inside, CurrentInv, ReadyIsCurrent
      <4> QED BY <1>0, <3>2, <4>1
    <3> QED BY <2>0, <3>1, <3>3, <3>4 DEF CurrentInv, ReadyIsCurrent
  <2>3. CASE Work(h)
    <3>1. hpc' = hpc /\ hpc[h] = "work" /\ UNCHANGED ready
      BY <2>3 DEF Work
    <3>2. Same(h)
      BY <1>8, <3>1, HandleLocks DEF Skip, DeleteKey, Start, Unlock
    <3> DEFINE p == Head(loc[h].todo)
               outcomes == IF loc[h].late THEN LateOutcomes(p) ELSE PhaseOutcomes(p)
    <3>3. PICK o \in outcomes : \E next \in After(h, p, o) :
             loc' = [loc EXCEPT ![h].sum = next.sum, ![h].todo = next.todo,
                                ![h].good = IF o.told = "none" THEN @ \cup {p} ELSE @]
      BY <2>3 DEF Work
    <3>4. PICK next \in After(h, p, o) :
             loc' = [loc EXCEPT ![h].sum = next.sum, ![h].todo = next.todo,
                                ![h].good = IF o.told = "none" THEN @ \cup {p} ELSE @]
      BY <3>3
    <3>5. loc'[h].began = loc[h].began
      BY <1>0, <3>4 DEF Locals
    <3>6. hpc'[h] = "work" /\ Cab(h)' = Cab(h)
      BY <3>1, <3>2 DEF Same, Cab
    <3> QED BY <1>1, <1>8, <2>0, <3>1, <3>5, <3>6
  <2>4. CASE Start(h)
    <3>1. loc' = loc /\ UNCHANGED ready /\ hpc'[h] \in {"fanout", "begin", "unlock"}
          /\ (hpc'[h] = "begin" => Cab(h) # None)
      BY <1>0, <2>4 DEF Start, Goto, Cab
    <3> QED BY <1>1, <2>0, <3>1 DEF Cab
  <2>5. CASE Skip(h) \/ Fanout(h) \/ Finish(h) \/ Unlock(h) \/ DeleteKey(h)
    <3>1. hpc'[h] \notin {"begin", "work", "final"} /\ UNCHANGED ready
      BY <1>0, <2>5 DEF Skip, Fanout, Finish, Unlock, DeleteKey, Return, Goto
    <3> QED BY <1>1, <2>0, <3>1
  <2> QED BY <1>8, <2>1, <2>2, <2>3, <2>4, <2>5 DEF Handle
<1> QED BY <1>3, <1>4, <1>5, <1>6, <1>7, <1>8 DEF Next, CurrentInv

LEMMA InitCurrent == Init => CurrentInv
BY DEF Init, CurrentInv, ReadyIsCurrent

\* Bid automation, which asks for a ready cabinet, does not see one whose data a
\* sync that beginSellerCabinetReadiness announced is replacing.
THEOREM AutomationSeesWhole == ASSUME MaxMishaps <= 1 PROVE Spec => []ReadyIsCurrent
<1>1. IInv => TypeOK
  BY DEF IInv
<1>2. TypeOK /\ CabinetExclusive /\ CurrentInv /\ [Next]_vars => CurrentInv'
  BY NextCurrent
<1>3. CurrentInv => ReadyIsCurrent
  BY DEF CurrentInv
<1> QED BY InitIInv, NextIInv, InitCurrent, OneSyncPerCabinet, <1>1, <1>2, <1>3, PTL DEF Spec

-----------------------------------------------------------------------------
(* Rows of job_runs and those who finish them.                              *)

\* While a request settles, its task waits; the row a handler created for
\* itself is open only while it is working, or nobody's.
OwnedInv ==
    /\ OwnedRuns
    /\ \A r \in Requests : rpc[r] = "settle" => \E t \in queue : t.row = r
    /\ \A h \in Handlers : runs[h].status \in Active =>
          h \in orphans \/ (Inside(h) /\ loc[h].task.row = None)

\* A request that gives its row up leaves its task to do so.
LEMMA RequestOwned ==
    ASSUME TypeOK, OwnedInv, NEW r \in Requests, Request(r) PROVE OwnedInv'
<1>0. /\ rpc \in [Requests -> {"new", "create", "enqueue", "settle", "done"}]
      /\ runs \in [Rows -> [status : Active \cup {"closed"}, cab : Cabinets \cup {None}]]
      /\ r \in Rows /\ \A h \in Handlers : h \in Rows /\ h # r
  BY NamesAssumption DEF TypeOK, Rows
<1>1. /\ UNCHANGED <<hpc, loc>> /\ queue \subseteq queue' /\ orphans \subseteq orphans'
      /\ \A q \in Requests \ {r} : rpc'[q] = rpc[q]
      /\ \A j \in Rows \ {r} : runs'[j] = runs[j]
  BY <1>0 DEF Request, CheckActive, CreatePending, EnqueueSync, SettleRequest, RequestDies, SetRun, hist
<1>2. /\ runs'[r] = runs[r] \/ runs'[r].status \notin Active \/ rpc'[r] \in {"enqueue", "settle", "done"}
      /\ rpc'[r] = "settle" => \E t \in queue' : t.row = r
      /\ rpc[r] = "enqueue" => r \in orphans' \/ rpc'[r] \in {"settle"} \/ runs'[r].status \notin Active
      /\ rpc[r] = "settle" => UNCHANGED queue
      /\ rpc[r] \notin {"enqueue", "settle"} => runs'[r] = runs[r] \/ rpc'[r] = "enqueue"
  <2>1. RequestedTask(r, rcab[r]).row = r
    BY DEF RequestedTask, NewTask
  <2>2. Closed.status \notin Active
    BY DEF Closed, Active
  <2> QED BY <1>0, <2>1, <2>2 DEF Request, CheckActive, CreatePending, EnqueueSync, SettleRequest,
                         RequestDies, SetRun, hist
<1>3. ASSUME NEW j \in Rows, runs'[j].status \in Active PROVE Owned(j)' \/ j \in orphans'
  <2>1. CASE j # r
    <3>1. Owned(j) \/ j \in orphans
      BY <1>1, <1>3, <2>1 DEF OwnedInv, OwnedRuns
    <3> QED BY <1>1, <2>1, <3>1 DEF Owned, Row
  <2>2. CASE j = r
    <3>1. rpc[r] = "settle" => \E t \in queue' : t.row = r
      BY <1>1 DEF OwnedInv
    <3>2. CASE rpc[r] \in {"enqueue", "settle"} \/ rpc'[r] \in {"enqueue", "settle"}
      BY <1>2, <1>3, <2>2, <3>1, <3>2 DEF Owned
    <3>3. CASE rpc[r] \notin {"enqueue", "settle"} /\ rpc'[r] \notin {"enqueue", "settle"}
      <4>1. Owned(r) \/ r \in orphans
        BY <1>2, <1>3, <2>2, <3>3 DEF OwnedInv, OwnedRuns
      <4> QED BY <1>1, <2>2, <3>3, <4>1 DEF Owned, Row
    <3> QED BY <3>2, <3>3
  <2> QED BY <2>1, <2>2
<1>4. ASSUME NEW h \in Handlers, runs'[h].status \in Active
      PROVE  h \in orphans' \/ (Inside(h)' /\ loc'[h].task.row = None)
  BY <1>0, <1>1, <1>4 DEF OwnedInv, Inside
<1>5. ASSUME NEW q \in Requests, rpc'[q] = "settle" PROVE \E t \in queue' : t.row = q
  BY <1>1, <1>2, <1>5 DEF OwnedInv
<1> QED BY <1>3, <1>4, <1>5 DEF OwnedInv, OwnedRuns

\* A task that is taken has its row taken with it.
LEMMA DequeueOwned ==
    ASSUME PromptRequests, TypeOK, OwnedInv, NEW t \in queue, Dequeue(t) PROVE OwnedInv'
<1>1. PICK w \in Handlers : Takes(w, t)
  BY DequeueLocks
<1>2. /\ hpc[w] = "idle" /\ hpc'[w] = "try" /\ loc'[w].task = t
      /\ \A g \in Handlers \ {w} : loc'[g] = loc[g] /\ hpc'[g] = hpc[g]
      /\ UNCHANGED <<runs, rpc, orphans>> /\ queue' = queue \ {t}
  BY <1>1 DEF Takes
<1>3. \A r \in Requests : t.row = r => rpc[r] # "settle"
  BY DEF Dequeue
<1>4. ASSUME NEW j \in Rows, Owned(j) PROVE Owned(j)'
  <2>1. CASE j \in Requests /\ rpc[j] \in {"enqueue", "settle"}
    BY <1>2, <2>1 DEF Owned
  <2>2. CASE \E s \in queue : s.row = j
    <3>1. CASE t.row = j
      <4>1. j # None
        BY NamesAssumption DEF Rows
      <4>2. Row(w)' = j
        BY <1>2, <3>1, <4>1 DEF Row
      <4> QED BY <1>2, <4>2 DEF Owned
    <3>2. CASE t.row # j
      BY <1>2, <2>2, <3>2 DEF Owned
    <3> QED BY <3>1, <3>2
  <2>3. CASE \E h \in Handlers : hpc[h] \notin {"idle", "unlock", "delete"} /\ j = Row(h)
    <3>1. PICK h \in Handlers : hpc[h] \notin {"idle", "unlock", "delete"} /\ j = Row(h)
      BY <2>3
    <3>2. h # w
      BY <1>2, <3>1
    <3>3. hpc'[h] = hpc[h] /\ Row(h)' = Row(h)
      BY <1>2, <3>2 DEF Row
    <3> QED BY <3>1, <3>3 DEF Owned
  <2> QED BY <1>4, <2>1, <2>2, <2>3 DEF Owned
<1>5. ASSUME NEW h \in Handlers, runs'[h].status \in Active
      PROVE  h \in orphans' \/ (Inside(h)' /\ loc'[h].task.row = None)
  BY <1>2, <1>5 DEF OwnedInv, Inside
<1>6. ASSUME NEW q \in Requests, rpc'[q] = "settle" PROVE \E s \in queue' : s.row = q
  BY <1>2, <1>3, <1>6 DEF OwnedInv
<1> QED BY <1>2, <1>4, <1>5, <1>6 DEF OwnedInv, OwnedRuns

\* Handler h disturbs its own row only, and leaves it closed, lost or owned.
LEMMA RowLeft ==
    ASSUME TypeOK, OwnedInv, NEW h \in Handlers, NEW r \in Rows, r = Row(h),
           \A g \in Handlers \ {h} : loc'[g] = loc[g] /\ hpc'[g] = hpc[g],
           queue \subseteq queue', rpc' = rpc,
           \A j \in Rows \ {r} : runs'[j] = runs[j],
           orphans \ {r} \subseteq orphans',
           runs'[r].status \in Active => Owned(r)' \/ r \in orphans',
           runs'[h].status \in Active => h \in orphans' \/ (Inside(h)' /\ loc'[h].task.row = None)
    PROVE  OwnedInv'
<1>0. \A g \in Handlers : g # h => g # r /\ g \in Rows
  BY NamesAssumption DEF TypeOK, Locals, Task, Row, Rows
<1>1. ASSUME NEW j \in Rows, runs'[j].status \in Active PROVE Owned(j)' \/ j \in orphans'
  <2>1. CASE j # r
    <3>1. Owned(j) \/ j \in orphans
      BY <1>1, <2>1 DEF OwnedInv, OwnedRuns
    <3>2. CASE \E g \in Handlers : hpc[g] \notin {"idle", "unlock", "delete"} /\ j = Row(g)
      <4>1. PICK g \in Handlers : hpc[g] \notin {"idle", "unlock", "delete"} /\ j = Row(g)
        BY <3>2
      <4>2. g # h /\ Row(g)' = Row(g) /\ hpc'[g] = hpc[g]
        BY <2>1, <4>1 DEF Row
      <4> QED BY <4>1, <4>2 DEF Owned
    <3>3. CASE j \in Requests /\ rpc[j] \in {"enqueue", "settle"}
      BY <3>3 DEF Owned
    <3>4. CASE \E t \in queue : t.row = j
      BY <3>4 DEF Owned
    <3>5. CASE j \in orphans
      BY <2>1, <3>5
    <3> QED BY <3>1, <3>2, <3>3, <3>4, <3>5 DEF Owned
  <2> QED BY <1>1, <2>1
<1>2. ASSUME NEW g \in Handlers, runs'[g].status \in Active
      PROVE  g \in orphans' \/ (Inside(g)' /\ loc'[g].task.row = None)
  BY <1>0, <1>2 DEF OwnedInv, Inside
<1>3. ASSUME NEW q \in Requests, rpc'[q] = "settle" PROVE \E s \in queue' : s.row = q
  BY <1>3 DEF OwnedInv
<1> QED BY <1>1, <1>2, <1>3 DEF OwnedInv, OwnedRuns

\* A handler gives a row up with the last status, or it is lost.
LEMMA HandleOwned ==
    ASSUME TypeOK, OwnedInv, NEW h \in Handlers, Handle(h) PROVE OwnedInv'
<1>0. /\ \A g \in Handlers \ {h} : loc'[g] = loc[g] /\ hpc'[g] = hpc[g]
      /\ runs \in [Rows -> [status : Active \cup {"closed"}, cab : Cabinets \cup {None}]]
      /\ Row(h) \in Rows /\ h \in Rows /\ hpc \in [Handlers -> Places]
      /\ loc[h].task \in Task /\ loc[h].task.row \in Requests \cup {None}
      /\ None \notin Rows /\ \A r \in Requests : r # h
  BY HandleLocks, RowTyped, NamesAssumption DEF TypeOK, Places, Rows, Locals, Task
<1>r. PICK r \in Rows : r = Row(h)
  BY <1>0
<1>c. Closed.status \notin Active
  BY DEF Closed, Active
<1>1. CASE Skip(h)
  <2>1. /\ hpc[h] = "try" /\ UNCHANGED <<queue, rpc, orphans>>
        /\ IF loc[h].task.row = None THEN UNCHANGED runs ELSE SetRun(loc[h].task.row, Closed)
    BY <1>1 DEF Skip, api, hist
  <2>2. runs[h].status \in Active => h \in orphans
    BY <2>1 DEF OwnedInv, Inside
  <2>3. CASE loc[h].task.row = None
    <3>1. Row(h) = h /\ runs' = runs
      BY <2>1, <2>3 DEF Row
    <3> QED BY <1>0, <1>r, <2>1, <2>2, <3>1, RowLeft
  <2>4. CASE loc[h].task.row # None
    <3>1. Row(h) = loc[h].task.row /\ runs' = [runs EXCEPT ![r] = Closed] /\ Row(h) # h
      BY <1>0, <1>r, <2>1, <2>4 DEF Row, SetRun
    <3>2. runs'[r] = Closed /\ \A j \in Rows \ {r} : runs'[j] = runs[j]
      BY <1>0, <1>r, <3>1
    <3> QED BY <1>0, <1>r, <1>c, <2>1, <2>2, <3>1, <3>2, RowLeft
  <2> QED BY <2>3, <2>4
<1>2. CASE Start(h)
  <2>1. hpc[h] = "try" /\ UNCHANGED <<rpc, loc>>
    BY <1>2 DEF Start, api
  <2>2. runs[h].status \in Active => h \in orphans
    BY <2>1 DEF OwnedInv, Inside
  <2>3. CASE /\ SetRun(Row(h), [status |-> "running", cab |-> loc[h].task.cab])
             /\ orphans' = orphans \ {Row(h)}
             /\ Goto(h, IF loc[h].task.cab = None THEN "fanout" ELSE "begin")
             /\ UNCHANGED <<queue, mishaps>>
    <3>1. hpc'[h] \in {"fanout", "begin"} /\ \A j \in Rows \ {r} : runs'[j] = runs[j]
      BY <1>0, <1>r, <2>3 DEF SetRun, Goto
    <3>2. Row(h)' = r /\ Inside(h)'
      BY <1>r, <2>1, <3>1 DEF Row, Inside
    <3>3. Owned(r)'
      BY <3>1, <3>2 DEF Owned
    <3>4. runs'[h].status \in Active => h \in orphans' \/ (Inside(h)' /\ loc'[h].task.row = None)
      BY <1>0, <1>r, <2>1, <2>2, <2>3, <3>1, <3>2 DEF Row
    <3> QED BY <1>0, <1>r, <2>1, <2>3, <3>1, <3>3, <3>4, RowLeft
  <2>4. CASE /\ queue' = queue \cup Again(loc[h].task)
             /\ orphans' = IF loc[h].task.row # None /\ loc[h].task.left = 0
                           THEN orphans \cup {loc[h].task.row} ELSE orphans
             /\ UNCHANGED runs
    <3>1. CASE loc[h].task.row = None
      <4>1. Row(h) = h
        BY <3>1 DEF Row
      <4> QED BY <1>0, <1>r, <2>1, <2>2, <2>4, <4>1, RowLeft
    <3>2. CASE loc[h].task.row # None /\ loc[h].task.left = 0
      BY <1>0, <1>r, <2>1, <2>2, <2>4, <3>2, RowLeft DEF Row
    <3>3. CASE loc[h].task.row # None /\ loc[h].task.left # 0
      <4>1. [loc[h].task EXCEPT !.left = @ - 1] \in queue' /\ Row(h) = loc[h].task.row
        BY <1>0, <1>r, <2>4, <3>3, BoundsAssumption DEF Again, Row, Task
      <4>2. [loc[h].task EXCEPT !.left = @ - 1].row = Row(h)
        BY <1>0, <1>r, <4>1 DEF Task
      <4>3. Owned(r)'
        BY <1>r, <4>1, <4>2 DEF Owned
      <4> QED BY <1>0, <1>r, <2>1, <2>2, <2>4, <3>3, <4>3, RowLeft
    <3> QED BY <3>1, <3>2, <3>3
  <2> QED BY <1>2, <2>3, <2>4 DEF Start
<1>3. CASE Fanout(h) \/ Finish(h)
  <2>1. /\ rpc' = rpc /\ queue \subseteq queue' /\ Inside(h)
        /\ CloseRun(h) \/ (SetRun(r, Closed) /\ UNCHANGED orphans)
    BY <1>r, <1>3 DEF Fanout, Finish, api, Inside
  <2>2. \/ runs' = [runs EXCEPT ![r] = Closed] /\ UNCHANGED orphans
        \/ UNCHANGED runs /\ orphans' = orphans \cup {r}
    BY <1>r, <2>1 DEF CloseRun, SetRun
  <2>3. /\ \A j \in Rows \ {r} : runs'[j] = runs[j]
        /\ runs'[r].status \in Active => r \in orphans'
        /\ orphans \subseteq orphans'
    BY <1>0, <1>r, <1>c, <2>2
  <2>4. runs'[h].status \in Active => h \in orphans'
    <3>1. CASE r = h
      BY <2>3, <3>1
    <3>2. CASE r # h
      <4>1. loc[h].task.row # None
        BY <1>r, <3>2 DEF Row
      <4>2. runs'[h] = runs[h]
        BY <1>0, <2>3, <3>2
      <4> QED BY <2>3, <4>1, <4>2 DEF OwnedInv
    <3> QED BY <3>1, <3>2
  <2> QED BY <1>0, <1>r, <2>1, <2>3, <2>4, RowLeft
<1>4. CASE Begin(h) \/ Work(h) \/ Complete(h)
  <2>1. UNCHANGED <<queue, runs, rpc, orphans>> /\ hpc[h] \in {"begin", "work"} /\ hpc'[h] \in {"work", "final"}
    BY <1>0, <1>r, <1>4 DEF Begin, Work, Complete, Goto, api, hist
  <2>2. Same(h)
    BY <1>4, <2>1, HandleLocks DEF Skip, DeleteKey, Start, Unlock
  <2>3. Row(h)' = r /\ Inside(h) /\ Inside(h)' /\ loc'[h].task = loc[h].task
    BY <1>r, <2>1, <2>2 DEF Row, Same, Inside
  <2>4. Owned(r)'
    BY <2>1, <2>3 DEF Owned
  <2>5. runs[h].status \in Active => h \in orphans \/ (Inside(h) /\ loc[h].task.row = None)
    BY DEF OwnedInv
  <2> QED BY <1>0, <1>r, <2>1, <2>3, <2>4, <2>5, RowLeft
<1>5. CASE Unlock(h) \/ DeleteKey(h)
  <2>1. UNCHANGED <<queue, runs, rpc, orphans>> /\ hpc[h] \in {"unlock", "delete"} /\ hpc'[h] \in {"idle", "delete"}
    BY <1>0, <1>r, <1>5 DEF Unlock, DeleteKey, Return, Goto, api, hist
  <2>2. ASSUME NEW j \in Rows, Owned(j) PROVE Owned(j)'
    <3>1. CASE \E g \in Handlers : hpc[g] \notin {"idle", "unlock", "delete"} /\ j = Row(g)
      <4>1. PICK g \in Handlers : hpc[g] \notin {"idle", "unlock", "delete"} /\ j = Row(g)
        BY <3>1
      <4>2. g # h
        BY <2>1, <4>1
      <4>3. Row(g)' = Row(g) /\ hpc'[g] = hpc[g]
        BY <1>0, <1>r, <4>2 DEF Row
      <4> QED BY <4>1, <4>3 DEF Owned
    <3> QED BY <2>1, <2>2, <3>1 DEF Owned
  <2>3. runs[h].status \in Active => h \in orphans
    BY <2>1 DEF OwnedInv, Inside
  <2>4. runs[Row(h)].status \in Active => Owned(Row(h)) \/ Row(h) \in orphans
    BY <1>0 DEF OwnedInv, OwnedRuns
  <2> QED BY <1>0, <1>r, <2>1, <2>2, <2>3, <2>4, RowLeft
<1> QED BY <1>1, <1>2, <1>3, <1>4, <1>5 DEF Handle

LEMMA NextOwned ==
    ASSUME PromptRequests, TypeOK, OwnedInv, [Next]_vars PROVE OwnedInv'
<1>1. CASE UNCHANGED vars
  BY <1>1 DEF vars, OwnedInv, OwnedRuns, Owned, Row, Inside
<1>2. CASE Sweep
  <2>1. UNCHANGED <<rpc, hpc, loc, runs, orphans>> /\ queue \subseteq queue'
    BY <1>2 DEF Sweep, api, hist
  <2>2. \A j : Owned(j) => Owned(j)'
    BY <2>1 DEF Owned, Row
  <2> QED BY <2>1, <2>2 DEF OwnedInv, OwnedRuns, Inside
<1>3. ASSUME NEW h \in Handlers, Timeout(h) PROVE OwnedInv'
  <2>1. /\ UNCHANGED <<rpc, hpc, runs, orphans>> /\ queue \subseteq queue'
        /\ loc' = [loc EXCEPT ![h].late = TRUE]
    BY <1>3 DEF Timeout, api, hist
  <2>2. \A g \in Handlers : loc'[g].task = loc[g].task
    BY <2>1 DEF TypeOK, Locals
  <2>3. \A j : Owned(j) => Owned(j)'
    BY <2>1, <2>2 DEF Owned, Row
  <2> QED BY <2>1, <2>2, <2>3 DEF OwnedInv, OwnedRuns, Inside
<1>4. CASE CrashRestart
  <2>1. /\ queue \subseteq queue' /\ rpc' = rpc
        /\ orphans' = orphans \cup {Row(h) : h \in {g \in Handlers : hpc[g] # "idle"}}
        /\ \A j \in Rows : runs'[j].status \in Active => runs'[j] = runs[j]
    <3>1. PICK stopped \in SUBSET Interrupted, old \in SUBSET {j \in Rows : runs[j].status \in Active} :
            /\ queue' = queue \cup {loc[h].task : h \in stopped}
                              \cup UNION {Again(loc[h].task) : h \in Interrupted \ stopped}
            /\ runs' = [j \in Rows |-> IF j \in old THEN Closed ELSE runs[j]]
      BY <1>4 DEF CrashRestart
    <3>2. \A j \in Rows : runs'[j] = Closed \/ runs'[j] = runs[j]
      BY <3>1
    <3>3. Closed.status \notin Active
      BY DEF Closed, Active
    <3> QED BY <1>4, <3>1, <3>2, <3>3 DEF CrashRestart, api
  <2>2. ASSUME NEW j \in Rows, Owned(j) PROVE Owned(j)' \/ j \in orphans'
    BY <2>1, <2>2 DEF Owned
  <2>3. ASSUME NEW h \in Handlers, runs'[h].status \in Active PROVE h \in orphans'
    <3>1. h \in Rows
      BY DEF Rows
    <3>2. h \in orphans \/ (hpc[h] # "idle" /\ Row(h) = h)
      BY <2>1, <2>3, <3>1 DEF OwnedInv, Inside, Row
    <3> QED BY <2>1, <3>2
  <2> QED BY <2>1, <2>2, <2>3 DEF OwnedInv, OwnedRuns
<1> QED BY <1>1, <1>2, <1>3, <1>4, RequestOwned, DequeueOwned, HandleOwned DEF Next

LEMMA InitOwned == Init => OwnedInv
<1>1. Closed.status \notin Active
  BY DEF Closed, Active
<1> QED BY <1>1 DEF Init, OwnedInv, OwnedRuns, Rows

\* However often handlers miss their deadline, statements fail and the process
\* restarts: an open row, with which TriggerSellerCabinetSync answers instead of
\* starting a sync, has a request, a task or a handler that will write it again,
\* or one of those lost it.
THEOREM RowsAreOwned == ASSUME PromptRequests PROVE Spec => []OwnedRuns
<1>1. IInv => TypeOK
  BY DEF IInv
<1>2. TypeOK /\ OwnedInv /\ [Next]_vars => OwnedInv'
  BY NextOwned
<1>3. OwnedInv => OwnedRuns
  BY DEF OwnedInv
<1> QED BY InitIInv, NextIInv, InitOwned, <1>1, <1>2, <1>3, PTL DEF Spec

=============================================================================
