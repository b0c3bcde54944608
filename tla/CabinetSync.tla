---------------------------- MODULE CabinetSync ----------------------------
(***************************************************************************)
(* The WB sync of a workspace's seller cabinets, from the request to the   *)
(* readiness that automation trusts: API triggers and hourly sweeps put    *)
(* tasks into the asynq queue, the worker's single slot takes them, an     *)
(* in-memory lock drops duplicates, the phases of the pipeline call WB     *)
(* under persisted cooldowns, rate-limited phases are queued again, and    *)
(* job_runs and seller_cabinet_sync_states say how it ended.               *)
(*                                                                         *)
(* The clock is abstract: a cooldown ends, a handler exceeds its deadline, *)
(* and a row is old enough to be expired, at any time.                     *)
(***************************************************************************)
EXTENDS Naturals, Sequences, FiniteSets, Functions

CONSTANTS
    Cabinets,       \* active WB cabinets of the workspace
    Pipeline,       \* the phases, in the order of syncSingleCabinet
    Handlers,       \* handler goroutines that may exist at the same time
    Requests,       \* requests to sync a cabinet that users make
    Mutexes,        \* sync.Mutex objects
    None,
    MaxPhaseRetry,  \* maxPhaseRetryCount
    MaxRetry,       \* asynq.MaxRetry of a fan-out and of a requested sync
    MaxMishaps,     \* bound: processes that die, deadlines that pass, statements that fail
    PromptRequests  \* no task starts before its request is answered

Phases == {"campaigns", "stats", "phrases", "products", "budgets", "finance",
           "sales_funnel", "business_reports", "tariffs"}

ASSUME PipelineAssumption ==
    /\ Pipeline \in Seq(Phases)
    /\ "campaigns" \in Range(Pipeline)

ASSUME BoundsAssumption ==
    /\ {MaxPhaseRetry, MaxRetry, MaxMishaps} \subseteq Nat
    /\ PromptRequests \in BOOLEAN

ASSUME NamesAssumption ==
    /\ None \notin Cabinets \cup Phases \cup Mutexes \cup Requests \cup Handlers
    /\ Requests \cap Handlers = {}

VARIABLES
    queue,     \* tasks waiting in QueueWBSync
    runs,      \* job_runs: [status, cab], all that is finished being one row
    ready,     \* seller_cabinet_sync_states.status
    rpc, rcab, \* requests: control state, and the cabinet
    hpc, loc,  \* handlers: control state, and locals
    locks,     \* workspaceSyncLocks: cabinet (None: fan-out) -> mutex
    held,      \* locked mutexes
    mishaps,   \* how much of MaxMishaps is used
    whole,     \* history: phases behind a "ready"
    orphans    \* history: rows whose handler died or could not close them

api  == <<rpc, rcab>>
hist == <<whole, orphans>>
vars == <<queue, runs, ready, rpc, rcab, hpc, loc, locks, held, mishaps, whole, orphans>>

\* A request creates one row, a handler one for every task without a row: the
\* rows are named after their creators, and a handler's next row takes the
\* place of its last.
Rows == Requests \cup Handlers

\* A row as FindActiveWBSyncJobRunByCabinet sees it: completed, partial, failed
\* and expired rows, and rows not there yet, are all closed.
Active == {"pending", "running"}
Closed == [status |-> "closed", cab |-> None]

\* cab = None: the fan-out of a workspace; phase = None: the whole pipeline.
\* count is phase_retry_count, left the retries asynq still has.
Task == [cab : Cabinets \cup {None}, phase : Phases \cup {None},
         count : 0 .. MaxPhaseRetry, row : Requests \cup {None}, left : 0 .. MaxRetry]

NewTask(c, p, n, r, l) == [cab |-> c, phase |-> p, count |-> n, row |-> r, left |-> l]

FanoutTask          == NewTask(None, None, 0, None, MaxRetry)
RequestedTask(r, c) == NewTask(c, None, 0, r, MaxRetry)
CabinetTask(c)      == NewTask(c, None, 0, None, 0)
RetryTask(t, p)     == NewTask(t.cab, p, t.count + 1, None, 0)

\* SyncSummary as far as anybody looks at it: data, some evidence was stored;
\* issues; limited, RateLimited > 0; stages, the phases whose issues mention a
\* rate limit; endpoint, the phase of RateLimitEndpoint.
NoSummary == [data |-> FALSE, issues |-> FALSE, limited |-> FALSE, stages |-> {},
              endpoint |-> None]

\* The locals of a handler.  Those nobody reads any more are reset.
Idle == [task |-> FanoutTask, mutex |-> None, late |-> FALSE, todo |-> <<>>,
         sum |-> NoSummary, began |-> FALSE, good |-> {}]

-----------------------------------------------------------------------------
(* What a phase can report.  told: the issue its caller adds, and whether  *)
(* its text shows a rate limit (the text joins the first five issues of    *)
(* the phase only); mark: RateLimitEndpoint is set and a cooldown          *)
(* persisted; data: rows were stored.                                      *)

Ok       == [told |-> "none",  mark |-> FALSE, data |-> FALSE]
Fail     == [told |-> "fail",  mark |-> FALSE, data |-> FALSE]
Limit    == [told |-> "limit", mark |-> TRUE,  data |-> FALSE]
Buried   == [told |-> "fail",  mark |-> TRUE,  data |-> FALSE]
Unmarked == [told |-> "limit", mark |-> FALSE, data |-> FALSE]

Some(o) == {o, [o EXCEPT !.data = TRUE]}

\* guardWBEndpoint: before next_allowed_at a phase reports a rate limit
\* instead of calling WB.
Guarded(outcomes) == outcomes \cup {Limit}

CampaignsPhase == Guarded(Some(Ok) \cup Some(Fail))

StatsPhase == Guarded(Some(Ok) \cup Some(Fail) \cup Some(Limit))

PhrasesPhase == Guarded(Some(Ok) \cup Some(Fail) \cup Some(Limit) \cup Some(Buried))

\* A 429 of the product cards is not marked, and no later sync waits for it.
ProductsPhase == Some(Ok) \cup {Fail, Unmarked}

\* A transient failure to read the budgets is no issue: Ok.
BudgetsPhase == Guarded(Some(Ok) \cup Some(Fail) \cup Some(Limit) \cup Some(Buried))

FinancePhase == Guarded(Some(Ok) \cup Some(Fail) \cup Some(Limit) \cup Some(Buried))

SalesFunnelPhase == Guarded(Some(Ok) \cup Some(Fail) \cup Some(Limit) \cup Some(Buried))

BusinessReportsPhase == Some(Ok) \cup Some(Fail) \cup Some(Unmarked)

TariffsPhase == Guarded(Some(Ok) \cup Some(Fail))

PhaseOutcomes(p) ==
    CASE p = "campaigns"        -> CampaignsPhase
      [] p = "stats"            -> StatsPhase
      [] p = "phrases"          -> PhrasesPhase
      [] p = "products"         -> ProductsPhase
      [] p = "budgets"          -> BudgetsPhase
      [] p = "finance"          -> FinancePhase
      [] p = "sales_funnel"     -> SalesFunnelPhase
      [] p = "business_reports" -> BusinessReportsPhase
      [] p = "tariffs"          -> TariffsPhase

\* After the deadline every call and every statement of the task's context
\* fails; the two phases with a time limit of their own take that for a rate
\* limit, and the budgets for noise.
LateOutcomes(p) ==
    CASE p = "campaigns"        -> {Limit}
      [] p = "business_reports" -> {Unmarked}
      [] p = "budgets"          -> {Ok}
      [] OTHER                  -> {Ok, Fail}

\* addIssue, merge and mergeRateLimitFields
Merge(sum, p, o) ==
    [data     |-> sum.data \/ o.data,
     issues   |-> sum.issues \/ o.told # "none",
     limited  |-> sum.limited \/ o.told = "limit",
     stages   |-> IF o.told = "limit" THEN sum.stages \cup {p} ELSE sum.stages,
     endpoint |-> IF o.mark THEN p ELSE sum.endpoint]

\* syncPhaseForIssueStage and syncPhaseForEndpoint; the budgets are read under
\* an endpoint name the second does not know.
StagePhases    == Phases \ {"products", "tariffs"}
EndpointPhases == {"campaigns", "stats", "phrases", "finance", "sales_funnel"}

RateLimitedPhases(sum) ==
    (sum.stages \cap StagePhases) \cup ({sum.endpoint} \cap EndpointPhases)

\* Slip: an isolated phase is judged like the pipeline.
ReadinessStatusOfAny(phase, sum, began) ==
    CASE ~sum.issues /\ began -> "ready"
      [] sum.data -> "partial"
      [] OTHER -> "failed"

\* cabinetSyncReadinessStatus for the pipeline; an isolated phase never says
\* more than partial.
ReadinessStatus(phase, sum, began) ==
    IF phase = None
    THEN CASE ~sum.issues /\ began -> "ready"
           [] sum.data -> "partial"
           [] OTHER -> "failed"
    ELSE IF sum.issues /\ ~sum.data THEN "failed" ELSE "partial"

-----------------------------------------------------------------------------
Row(h) == IF loc[h].task.row = None THEN h ELSE loc[h].task.row

\* Somebody is going to write the row again.
Owned(j) ==
    \/ j \in Requests /\ rpc[j] \in {"enqueue", "settle"}
    \/ \E t \in queue : t.row = j
    \/ \E h \in Handlers : hpc[h] \notin {"idle", "unlock", "delete"} /\ j = Row(h)

\* UpdateJobRunStatus overwrites the status and the metadata of any row.
SetRun(j, row) == runs' = [runs EXCEPT ![j] = row]

Mishap == mishaps < MaxMishaps /\ mishaps' = mishaps + 1

Init ==
    /\ queue = {}
    /\ runs = [j \in Rows |-> Closed]
    /\ ready = [c \in Cabinets |-> "none"]
    /\ rpc = [r \in Requests |-> "new"]
    /\ rcab \in [Requests -> Cabinets]
    /\ hpc = [h \in Handlers |-> "idle"]
    /\ loc = [h \in Handlers |-> Idle]
    /\ locks = [k \in Cabinets \cup {None} |-> None]
    /\ held = {}
    /\ mishaps = 0
    /\ whole = [c \in Cabinets |-> {}]
    /\ orphans = {}

-----------------------------------------------------------------------------
(* API: TriggerSellerCabinetSync.  When FindActiveWBSyncJobRunByCabinet    *)
(* finds a row the request is answered with it and changes nothing.        *)

FindActive(c) == {j \in Rows : runs[j].status \in Active /\ runs[j].cab = c}

CheckActive(r) ==
    /\ rpc[r] = "new"
    /\ rpc' = [rpc EXCEPT ![r] = IF FindActive(rcab[r]) = {} THEN "create" ELSE "done"]
    /\ UNCHANGED <<queue, runs, ready, rcab, hpc, loc, locks, held, mishaps, hist>>

CreatePending(r) ==
    /\ rpc[r] = "create"
    /\ SetRun(r, [status |-> "pending", cab |-> rcab[r]])
    /\ rpc' = [rpc EXCEPT ![r] = "enqueue"]
    /\ UNCHANGED <<queue, ready, rcab, hpc, loc, locks, held, mishaps, hist>>

\* The payload names the new row, so no other task has the same unique key and
\* the branch for "already_queued" is never taken.
EnqueueSync(r) ==
    /\ rpc[r] = "enqueue"
    /\ \/ /\ queue' = queue \cup {RequestedTask(r, rcab[r])}
          /\ rpc' = [rpc EXCEPT ![r] = "settle"]
          /\ UNCHANGED runs
       \/ /\ SetRun(r, Closed)
          /\ rpc' = [rpc EXCEPT ![r] = "done"]
          /\ UNCHANGED queue
    /\ UNCHANGED <<ready, rcab, hpc, loc, locks, held, mishaps, hist>>

\* The second UpdateJobRunStatus writes the queue status, whatever the row says.
SettleRequest(r) ==
    /\ rpc[r] = "settle"
    /\ SetRun(r, [status |-> "pending", cab |-> rcab[r]])
    /\ rpc' = [rpc EXCEPT ![r] = "done"]
    /\ UNCHANGED <<queue, ready, rcab, hpc, loc, locks, held, mishaps, hist>>

\* The API process dies, or the request's context ends.
RequestDies(r) ==
    /\ rpc[r] \in {"create", "enqueue", "settle"}
    /\ Mishap
    /\ orphans' = IF rpc[r] = "enqueue" THEN orphans \cup {r} ELSE orphans
    /\ rpc' = [rpc EXCEPT ![r] = "done"]
    /\ UNCHANGED <<queue, runs, ready, rcab, hpc, loc, locks, held, whole>>

\* The hourly sweep, and JobRunService.Retry of any workspace sync.
Sweep ==
    /\ queue' = queue \cup {FanoutTask}
    /\ UNCHANGED <<runs, ready, api, hpc, loc, locks, held, mishaps, hist>>

-----------------------------------------------------------------------------
(* Worker: HandleSyncWorkspace and runWithJobRun.                          *)

\* The server runs with Concurrency 1; a handler past its deadline no longer
\* occupies the slot.
SlotFree == \A h \in Handlers : hpc[h] # "idle" => loc[h].late

Goto(h, pc) == hpc' = [hpc EXCEPT ![h] = pc]

Cab(h) == loc[h].task.cab

\* A mutex no goroutine and no map entry refers to.
Unreferenced == {m \in Mutexes : /\ \A k \in DOMAIN locks : locks[k] # m
                                 /\ \A h \in Handlers : loc[h].mutex # m}

\* Slip: a new mutex for every task.
StoreMutex(key) == CHOOSE m \in Unreferenced : TRUE

\* tryWorkspaceSyncLock up to LoadOrStore: the mutex of the key, or a new one.
LoadOrStore(key) ==
    IF locks[key] # None THEN locks[key] ELSE CHOOSE m \in Unreferenced : TRUE

\* Goroutines are interchangeable: the task goes to the first that is idle.
Worker == CHOOSE h \in Handlers : hpc[h] = "idle"

Dequeue(t) ==
    /\ \E h \in Handlers : hpc[h] = "idle"
    /\ SlotFree
    /\ t \in queue
    /\ locks[t.cab] = None => Unreferenced # {}
    /\ PromptRequests => ~\E r \in Requests : t.row = r /\ rpc[r] = "settle"
    /\ queue' = queue \ {t}
    /\ locks' = [locks EXCEPT ![t.cab] = LoadOrStore(t.cab)]
    /\ loc' = [loc EXCEPT ![Worker] = [Idle EXCEPT !.task = t, !.mutex = LoadOrStore(t.cab)]]
    /\ Goto(Worker, "try")
    /\ UNCHANGED <<runs, ready, api, held, mishaps, hist>>

\* asynq runs a task that returned an error, or lost its process, again.
Again(t) == IF t.left > 0 THEN {[t EXCEPT !.left = @ - 1]} ELSE {}

Return(h) ==
    /\ Goto(h, "idle")
    /\ loc' = [loc EXCEPT ![h] = Idle]

\* Slip: a skipped task leaves its row alone.
SkipSilently(h) ==
    /\ hpc[h] = "try"
    /\ loc[h].mutex \in held
    /\ Return(h)
    /\ UNCHANGED <<queue, runs, ready, api, locks, held, mishaps, hist>>

\* The lock is taken: markDuplicateWorkspaceSyncSkipped.
Skip(h) ==
    /\ hpc[h] = "try"
    /\ loc[h].mutex \in held
    /\ IF loc[h].task.row = None THEN UNCHANGED runs ELSE SetRun(loc[h].task.row, Closed)
    /\ Return(h)
    /\ UNCHANGED <<queue, ready, api, locks, held, mishaps, hist>>

\* TryLock succeeds, and runWithJobRun sets the row to running or creates one.
\* When the statement fails the handler returns the error.
Start(h) ==
    LET t == loc[h].task
    IN  /\ hpc[h] = "try"
        /\ loc[h].mutex \notin held
        /\ held' = held \cup {loc[h].mutex}
        /\ \/ /\ SetRun(Row(h), [status |-> "running", cab |-> t.cab])
              /\ orphans' = orphans \ {Row(h)}
              /\ Goto(h, IF t.cab = None THEN "fanout" ELSE "begin")
              /\ UNCHANGED <<queue, mishaps>>
           \/ /\ Mishap
              /\ queue' = queue \cup Again(t)
              /\ orphans' = IF t.row # None /\ t.left = 0 THEN orphans \cup {t.row} ELSE orphans
              /\ Goto(h, "unlock")
              /\ UNCHANGED runs
        /\ UNCHANGED <<ready, api, loc, locks, whole>>

\* The last UpdateJobRunStatus of runWithJobRun has a context of its own, and
\* its failure is only logged.
CloseRun(h) ==
    \/ SetRun(Row(h), Closed) /\ UNCHANGED <<mishaps, orphans>>
    \/ Mishap /\ orphans' = orphans \cup {Row(h)} /\ UNCHANGED runs

\* One task per cabinet.  Its unique key lives as long as the task, 55 minutes
\* at most: that of an active task may have ended.  A cabinet whose task could
\* not be queued makes the run partial, which counts as progress; a fan-out that
\* found no list of cabinets has failed and is retried.
ActiveTask(t) == \E h \in Handlers : hpc[h] # "idle" /\ loc[h].task = t

Fanout(h) ==
    /\ hpc[h] = "fanout"
    /\ \/ /\ ~loc[h].late
          /\ \E doubles \in SUBSET {c \in Cabinets : ActiveTask(CabinetTask(c))} :
                queue' = queue \cup {CabinetTask(c) : c \in Cabinets \ doubles}
          /\ CloseRun(h)
       \/ /\ loc[h].late
          /\ CloseRun(h)
          /\ UNCHANGED queue
       \/ /\ ~loc[h].late
          /\ Mishap
          /\ \/ \E some \in SUBSET Cabinets : queue' = queue \cup {CabinetTask(c) : c \in some}
             \/ queue' = queue \cup Again(loc[h].task)
          /\ SetRun(Row(h), Closed)
          /\ UNCHANGED orphans
    /\ Goto(h, "unlock")
    /\ UNCHANGED <<ready, api, loc, locks, held, whole>>

\* Slip: the row keeps the status of the last sync until this one ends.
BeginWritesNothing(h, began) ==
    IF began THEN UNCHANGED <<ready, whole, mishaps>>
    ELSE Mishap /\ UNCHANGED <<ready, whole>>

\* beginSellerCabinetReadiness, whose failure the pipeline remembers, and the
\* cabinet with its token: without it no phase runs.
BeginWrites(h, began) ==
    IF began
    THEN /\ ready' = [ready EXCEPT ![Cab(h)] = "running"]
         /\ whole' = [whole EXCEPT ![Cab(h)] = {}]
         /\ UNCHANGED mishaps
    ELSE Mishap /\ UNCHANGED <<ready, whole>>

PhasesOf(t) == IF t.phase = None THEN Pipeline ELSE <<t.phase>>

\* An isolated phase takes a cabinet that is gone for nothing to do.
Starts(h) ==
    {[todo |-> <<>>, issue |-> TRUE]}
      \cup (IF loc[h].task.phase # None THEN {[todo |-> <<>>, issue |-> FALSE]} ELSE {})
      \cup (IF loc[h].late THEN {} ELSE {[todo |-> PhasesOf(loc[h].task), issue |-> FALSE]})

Begin(h) ==
    /\ hpc[h] = "begin"
    /\ \E began \in BOOLEAN, start \in Starts(h) :
          /\ BeginWrites(h, began)
          /\ loc' = [loc EXCEPT ![h].began = began,
                                ![h].todo = start.todo,
                                ![h].sum.issues = start.issue]
    /\ Goto(h, "work")
    /\ UNCHANGED <<queue, runs, api, locks, held, orphans>>

\* The campaign list was rate limited and stored nothing: the pipeline falls
\* back on the campaigns of the database.  If they cannot be read it goes on
\* without; if there are none it reports stats and phrases as skipped, in words
\* that look like a rate limit, and runs the two phases that need no campaigns.
WithoutCampaigns ==
    IF {"products", "business_reports"} \subseteq Range(Pipeline)
    THEN <<"products", "business_reports">> ELSE <<>>

Fallback(h, sum, rest) ==
    {[sum |-> sum, todo |-> rest]}
      \cup
    IF loc[h].late THEN {}
    ELSE {[sum |-> [sum EXCEPT !.data = TRUE], todo |-> rest],
          [sum |-> [sum EXCEPT !.stages = @ \cup {"stats", "phrases"}],
           todo |-> WithoutCampaigns]}

After(h, p, o) ==
    LET sum  == Merge(loc[h].sum, p, o)
        rest == Tail(loc[h].todo)
    IN  IF loc[h].task.phase = None /\ p = "campaigns" /\ sum.limited /\ ~sum.data
        THEN Fallback(h, sum, rest)
        ELSE {[sum |-> sum, todo |-> rest]}

\* One phase of the pipeline.
Work(h) ==
    /\ hpc[h] = "work"
    /\ loc[h].todo # <<>>
    /\ LET p == Head(loc[h].todo)
       IN  \E o \in IF loc[h].late THEN LateOutcomes(p) ELSE PhaseOutcomes(p) :
           \E next \in After(h, p, o) :
              loc' = [loc EXCEPT ![h].sum = next.sum,
                                 ![h].todo = next.todo,
                                 ![h].good = IF o.told = "none" THEN @ \cup {p} ELSE @]
    /\ UNCHANGED <<queue, runs, ready, api, hpc, locks, held, mishaps, hist>>

\* Slip: a sync that stored nothing returns before it says so.
CompleteUnlessFailed(h) ==
    LET status == ReadinessStatus(loc[h].task.phase, loc[h].sum, loc[h].began)
    IN  /\ hpc[h] = "work"
        /\ loc[h].todo = <<>>
        /\ IF status = "failed" THEN UNCHANGED <<ready, whole>>
           ELSE /\ ready' = [ready EXCEPT ![Cab(h)] = status]
                /\ whole' = [whole EXCEPT ![Cab(h)] = IF status = "ready" THEN loc[h].good ELSE {}]
        /\ loc' = [loc EXCEPT ![h].began = FALSE, ![h].good = {}]
        /\ Goto(h, "final")
        /\ UNCHANGED <<queue, runs, api, locks, held, mishaps, orphans>>

\* completeSellerCabinetReadiness; when it fails the row stays as it is.
Complete(h) ==
    LET status == ReadinessStatus(loc[h].task.phase, loc[h].sum, loc[h].began)
    IN  /\ hpc[h] = "work"
        /\ loc[h].todo = <<>>
        /\ \/ /\ ready' = [ready EXCEPT ![Cab(h)] = status]
              /\ whole' = [whole EXCEPT ![Cab(h)] = IF status = "ready" THEN loc[h].good ELSE {}]
              /\ UNCHANGED mishaps
           \/ Mishap /\ UNCHANGED <<ready, whole>>
        /\ loc' = [loc EXCEPT ![h].began = FALSE, ![h].good = {}]
        /\ Goto(h, "final")
        /\ UNCHANGED <<queue, runs, api, locks, held, orphans>>

\* enqueueRateLimitedSingleCabinetRetries, one task for every phase that met a
\* rate limit unless it cannot be queued, and the end of the run.  The cabinet
\* counts as progress: whatever happened, the task is not retried.
RetryTasks(h) ==
    LET t == loc[h].task
    IN  IF loc[h].sum.limited /\ t.count < MaxPhaseRetry
        THEN {RetryTask(t, p) : p \in RateLimitedPhases(loc[h].sum)}
        ELSE {}

Finish(h) ==
    /\ hpc[h] = "final"
    /\ \E tasks \in SUBSET RetryTasks(h) : queue' = queue \cup tasks
    /\ CloseRun(h)
    /\ loc' = [loc EXCEPT ![h].sum = NoSummary]
    /\ Goto(h, "unlock")
    /\ UNCHANGED <<ready, api, locks, held, whole>>

\* The deferred function: Unlock, then Delete of whatever the key holds.
Unlock(h) ==
    /\ hpc[h] = "unlock"
    /\ held' = held \ {loc[h].mutex}
    /\ Goto(h, "delete")
    /\ UNCHANGED <<queue, runs, ready, api, loc, locks, mishaps, hist>>

DeleteKey(h) ==
    /\ hpc[h] = "delete"
    /\ locks' = [locks EXCEPT ![Cab(h)] = None]
    /\ Return(h)
    /\ UNCHANGED <<queue, runs, ready, api, held, mishaps, hist>>

-----------------------------------------------------------------------------
(* What happens to a worker.                                               *)

\* The deadline, an hour after the task started, passes in its work: asynq gives the slot
\* to another task and this one to the queue, the goroutine goes on.
Timeout(h) ==
    /\ hpc[h] \in {"fanout", "begin", "work", "final"}
    /\ ~loc[h].late
    /\ Mishap
    /\ loc' = [loc EXCEPT ![h].late = TRUE]
    /\ queue' = queue \cup Again(loc[h].task)
    /\ UNCHANGED <<runs, ready, api, hpc, locks, held, hist>>

\* The process dies and another one starts.  A task whose handler could still
\* be told to stop is queued as it was, one whose lease ran out only if it has
\* a retry left.  Start expires the unfinished rows that are old enough.
Interrupted == {h \in Handlers : hpc[h] # "idle" /\ ~loc[h].late}

CrashRestart ==
    /\ \E h \in Handlers : hpc[h] # "idle"
    /\ Mishap
    /\ \E stopped \in SUBSET Interrupted, old \in SUBSET {j \in Rows : runs[j].status \in Active} :
          /\ queue' = queue \cup {loc[h].task : h \in stopped}
                            \cup UNION {Again(loc[h].task) : h \in Interrupted \ stopped}
          /\ runs' = [j \in Rows |-> IF j \in old THEN Closed ELSE runs[j]]
    /\ orphans' = orphans \cup {Row(h) : h \in {g \in Handlers : hpc[g] # "idle"}}
    /\ hpc' = [h \in Handlers |-> "idle"]
    /\ loc' = [h \in Handlers |-> Idle]
    /\ locks' = [k \in DOMAIN locks |-> None]
    /\ held' = {}
    /\ UNCHANGED <<ready, api, whole>>

-----------------------------------------------------------------------------
Request(r) ==
    \/ CheckActive(r) \/ CreatePending(r) \/ EnqueueSync(r) \/ SettleRequest(r)
    \/ RequestDies(r)

Handle(h) ==
    \/ Skip(h) \/ Start(h) \/ Fanout(h) \/ Begin(h) \/ Work(h) \/ Complete(h)
    \/ Finish(h) \/ Unlock(h) \/ DeleteKey(h)

Next ==
    \/ \E r \in Requests : Request(r)
    \/ Sweep
    \/ \E t \in queue : Dequeue(t)
    \/ \E h \in Handlers : Handle(h) \/ Timeout(h)
    \/ CrashRestart

\* asynq serves the queue in order, so no task waits forever; the scheduler's
\* sweep and every goroutine make progress.
Fairness ==
    /\ WF_vars(Sweep)
    /\ \A t \in {FanoutTask} \cup {CabinetTask(c) : c \in Cabinets} :
          SF_vars(Dequeue(t))
    /\ \A h \in Handlers : WF_vars(Handle(h))

Spec == Init /\ [][Next]_vars
LiveSpec == Spec /\ Fairness

-----------------------------------------------------------------------------
Summary == [data : BOOLEAN, issues : BOOLEAN, limited : BOOLEAN, stages : SUBSET Phases,
            endpoint : Phases \cup {None}]
Locals == [task : Task, mutex : Mutexes \cup {None}, late : BOOLEAN, todo : Seq(Phases),
           sum : Summary, began : BOOLEAN, good : SUBSET Phases]

TypeOK ==
    /\ queue \subseteq Task
    /\ runs \in [Rows -> [status : Active \cup {"closed"}, cab : Cabinets \cup {None}]]
    /\ ready \in [Cabinets -> {"none", "running", "ready", "partial", "failed"}]
    /\ rpc \in [Requests -> {"new", "create", "enqueue", "settle", "done"}]
    /\ rcab \in [Requests -> Cabinets]
    /\ hpc \in [Handlers -> {"idle", "try", "fanout", "begin", "work", "final", "unlock",
                             "delete"}]
    /\ loc \in [Handlers -> Locals]
    /\ locks \in [Cabinets \cup {None} -> Mutexes \cup {None}]
    /\ held \subseteq Mutexes
    /\ mishaps \in 0 .. MaxMishaps
    /\ whole \in [Cabinets -> SUBSET Phases]
    /\ orphans \subseteq Rows

\* Between taking the lock and giving it back no two handlers work on the same
\* key: tryWorkspaceSyncLock keeps a task that asynq starts after the deadline
\* of another from syncing the cabinet next to it.
Inside(h) == hpc[h] \in {"fanout", "begin", "work", "final"}

CabinetExclusive ==
    \A g, h \in Handlers : g # h /\ Inside(g) /\ Inside(h) => Cab(g) # Cab(h)

\* "Only the complete multi-phase pipeline may publish a ready state": when a
\* cabinet reads ready, every phase of the pipeline ended without an issue in
\* the run that said so, isolated retries and late handlers notwithstanding.
ReadyIsWhole ==
    \A c \in Cabinets : ready[c] = "ready" => whole[c] = Range(Pipeline)

\* No cabinet reads ready while a handler that announced its sync is replacing
\* the data: bid automation, which asks for ready, does not see half of it.
ReadyIsCurrent ==
    \A h \in Handlers : hpc[h] = "work" /\ loc[h].began => ready[Cab(h)] # "ready"

\* A row of job_runs that reads pending or running, and makes
\* TriggerSellerCabinetSync answer with it instead of starting a sync, has a
\* task, a handler or a request that will finish it, or lost it in a crash or a
\* failed statement.
OwnedRuns ==
    \A j \in Rows : runs[j].status \in Active => Owned(j) \/ j \in orphans

\* A cabinet does not read running forever: whatever happened to its handler,
\* a later sync says how it ended.
SyncSettles ==
    \A c \in Cabinets : (ready[c] = "running") ~> (ready[c] # "running")

=============================================================================
