----------------------------- MODULE PriceQueue -----------------------------
(***************************************************************************)
(* The price changes of one WB cabinet: manual requests, rollbacks,        *)
(* schedules and strategies become rows of price_changes, rows are claimed *)
(* in batches and uploaded to WB, WB processes a batch some time later,    *)
(* polling learns the result, and price_schedule_entries follow.  API      *)
(* requests run beside one worker slot; either may die between two         *)
(* statements, and an upload may be accepted by WB without an answer.      *)
(*                                                                         *)
(* The clock is abstract: a planned entry may be due, and a row without an *)
(* owner stale, at any time.                                               *)
(***************************************************************************)
EXTENDS Naturals, Sequences, FiniteSets, FiniteSetsExt, PriceEngine

CONSTANTS
    Products,     \* the goods of the cabinet
    Apis,         \* API requests running at the same time
    Worker,       \* the single slot of the repricer server
    Entries,      \* price_schedule_entries
    RevertOf,     \* revert_of: an entry, or None for a primary entry
    None,
    StartPrice,   \* base price of every product at first
    Discount,     \* seller discount, which no request changes
    Economics,    \* of every product, what its economics may be, now or later (PriceEngine)
    Strategy,     \* parameters and market signals of the active strategies
    Targets,      \* base prices that users and schedules ask for
    MaxChanges,   \* bound: rows of price_changes
    MaxMishaps,   \* bound: deaths, lost answers, failed statements, freezes
    MaxSyncs,     \* bound: price syncs
    RejectRetries \* WB may refuse the retry of an upload it has accepted

Procs == Apis \cup {Worker}

FloorOf(econ) == IF HasMarginFloor(econ) THEN ComputeMinEffectivePrice(econ) ELSE Missing

Floors(p) == {FloorOf(econ) : econ \in Economics[p]}

Effective(base) == effectiveOf(base, Discount)

ASSUME NamesAssumption ==
    /\ Worker \notin Apis
    /\ None \notin Entries
    /\ RevertOf \in [Entries -> Entries \cup {None}]

ASSUME BoundsAssumption ==
    /\ {MaxChanges, MaxMishaps, MaxSyncs} \subseteq Nat
    /\ RejectRetries \in BOOLEAN

ASSUME PriceAssumption ==
    /\ StartPrice \in Nat /\ Targets \subseteq Nat \ {0}
    /\ Discount \in 0 .. 95
    /\ Economics \in [Products -> SUBSET [known : BOOLEAN, cost : Nat, percent : Nat]]
    /\ Strategy \in [step : 0 .. 10, min : Nat, max : Nat, uplift : Nat, dead : 0 .. 100,
                     intensity : 0 .. 100, competitor : Nat, undercut : 0 .. 100]

VARIABLES
    changes,  \* price_changes in the order of their creation
    entries,  \* price_schedule_entries: [status, tasks (executed_task_ids)]
    tasks,    \* price_upload_tasks.status of every WB task, "none" without a row
    wb,       \* WB's upload tasks: [items, open, bad (goods that failed)]
    wbPrice,  \* base prices on WB
    synced,   \* product_prices: [price, at (the product's last change before synced_at)]
    syncs,    \* how much of MaxSyncs is used
    cooling,  \* the upload endpoint is in its cooldown
    paused,   \* the repricer of the cabinet is frozen
    pc, loc,  \* control state and locals of every process
    mishaps   \* how much of MaxMishaps is used

rows == <<changes, entries, tasks>>
site == <<wb, wbPrice>>
store == <<synced, syncs>>
flags == <<cooling, paused>>
vars == <<changes, entries, tasks, wb, wbPrice, synced, syncs, cooling, paused, pc, loc, mishaps>>

Transport == {"submitting", "submit_unknown", "uploaded"}
InFlight  == Transport \cup {"pending"}
Intended  == InFlight \cup {"applied"}
Ended     == {"done", "failed", "canceled"}

Ids == DOMAIN changes

Of(p, statuses) == {i \in Ids : changes[i].prod = p /\ changes[i].status \in statuses}

\* floor is min_price_rub, the floor the new price was decided with.
Intent(p, old, new, entry, undo, floor) ==
    [prod |-> p, old |-> old, new |-> new, entry |-> entry, undo |-> undo, floor |-> floor]

\* The locals of a process: job; read, WB's prices it has read; todo, intents
\* still to be saved; accepted, one was saved; entry, the schedule entry in
\* hand; batch, changes it is submitting; retry, the batch was submitted
\* before; task, WB's answer; polls, tasks still to be polled; deferred,
\* entries to be planned again.  Those nobody reads any more are reset.
Idle == [job |-> "none", read |-> <<>>, todo |-> {}, accepted |-> FALSE, entry |-> None,
         batch |-> {}, retry |-> FALSE, task |-> 0, polls |-> {}, deferred |-> {}]

Goto(pr, l, new) ==
    /\ pc' = [pc EXCEPT ![pr] = l]
    /\ loc' = [loc EXCEPT ![pr] = new]

Return(pr) == Goto(pr, "idle", Idle)

Mishap == mishaps < MaxMishaps /\ mishaps' = mishaps + 1

\* A statement whose error is swallowed: what it would have shown is not seen.
Unseen(blind) == IF blind THEN Mishap ELSE UNCHANGED mishaps

Init ==
    /\ changes = <<>>
    /\ entries = [e \in Entries |-> [status |-> "none", tasks |-> {}]]
    /\ tasks = <<>>
    /\ wb = <<>>
    /\ wbPrice = [p \in Products |-> StartPrice]
    /\ synced = [p \in Products |-> [price |-> StartPrice, at |-> 0]]
    /\ syncs = 0
    /\ cooling = FALSE /\ paused = FALSE
    /\ pc = [pr \in Procs |-> "idle"]
    /\ loc = [pr \in Procs |-> Idle]
    /\ mishaps = 0

-----------------------------------------------------------------------------
(* Prices as requests see them.                                            *)

\* overlayLatestPriceIntents: a request starts from the latest change that has
\* not failed, unless it is applied and prices were synced after its creation.
Baseline(p) ==
    LET mine == Of(p, Intended)
        last == Max(mine)
    IN  IF mine = {} \/ (changes[last].status = "applied" /\ last <= synced[p].at)
        THEN synced[p].price
        ELSE changes[last].new

\* marginFloors.  Costs are imported at any time, so each request finds its own
\* floors.  When a page of the economics cannot be read, its goods have none.
MarginFloors ==
    {f \in [Products -> UNION {Floors(p) : p \in Products} \cup {Missing}] :
        \A p \in Products : f[p] \in Floors(p) \cup {Missing}}

AllRead(floors) == \A p \in Products : floors[p] \in Floors(p)

\* The intents of a request for the base price v of the products S.
RequestIntents(S, v, e, floors) ==
    LET new(p) == Requested(Baseline(p), Discount, v, floors[p])
    IN  {Intent(p, Baseline(p), new(p), e, 0, floors[p]) :
            p \in {q \in S : new(q) \notin {0, Baseline(q)}}}

-----------------------------------------------------------------------------
(* API requests, up to the intents they save.                              *)

\* ApplyManualBulk, without force.
Bulk(a) ==
    /\ pc[a] = "idle"
    /\ Len(changes) < MaxChanges
    /\ \E S \in SUBSET Products \ {{}}, v \in Targets, floors \in MarginFloors :
          LET todo == RequestIntents(S, v, None, floors)
          IN  /\ todo # {}
              /\ Unseen(~AllRead(floors))
              /\ Goto(a, "enqueue", [Idle EXCEPT !.job = "manual", !.todo = todo])
    /\ UNCHANGED <<rows, site, store, flags>>

\* Rollback: an applied change that is no rollback itself, whose price still is
\* the product's, and with no newer change, no child and none in flight.  The
\* last two go unseen when their statements fail.  No floor is looked at.
CanRollback(i, blind) ==
    LET c == changes[i]
    IN  /\ c.status = "applied" /\ c.undo = 0
        /\ synced[c.prod].price = c.new
        /\ ~\E j \in Of(c.prod, Intended) : j > i
        /\ blind \/ /\ ~\E j \in Ids : changes[j].undo = i /\ changes[j].status \in Intended
                    /\ Of(c.prod, InFlight) = {}

Rollback(a) ==
    /\ pc[a] = "idle"
    /\ \E i \in Ids, blind \in BOOLEAN :
          /\ CanRollback(i, blind)
          /\ Unseen(blind)
          /\ LET c == changes[i]
             IN  Goto(a, "enqueue", [Idle EXCEPT !.job = "rollback",
                                         !.todo = {Intent(c.prod, c.new, c.old, None, i, Missing)}])
    /\ UNCHANGED <<rows, site, store, flags>>

\* CreatePriceScheduleEntry or, with revert_at, CreatePriceSchedulePair.
CreateSchedule(e) ==
    LET pair == {e} \cup {r \in Entries : RevertOf[r] = e}
    IN  /\ RevertOf[e] = None
        /\ entries[e].status = "none"
        /\ entries' = [x \in Entries |-> IF x \in pair THEN [entries[x] EXCEPT !.status = "planned"]
                                         ELSE entries[x]]
        /\ UNCHANGED <<changes, tasks, site, store, flags, pc, loc, mishaps>>

\* CancelSchedule looks at the entry, and then writes it.
CancelRead(a, e) ==
    /\ pc[a] = "idle"
    /\ entries[e].status = "planned"
    /\ Goto(a, "cancel", [Idle EXCEPT !.job = "cancel", !.entry = e])
    /\ UNCHANGED <<rows, site, store, flags, mishaps>>

\* UpdatePriceScheduleEntryStatus leaves entries that have ended alone.
UpdateEntries(S, status) ==
    entries' = [e \in Entries |-> IF e \in S /\ entries[e].status \notin Ended
                                  THEN [entries[e] EXCEPT !.status = status]
                                  ELSE entries[e]]

CancelWrite(a) ==
    /\ pc[a] = "cancel"
    /\ UpdateEntries({loc[a].entry}, "canceled")
    /\ Return(a)
    /\ UNCHANGED <<changes, tasks, site, store, flags, mishaps>>

-----------------------------------------------------------------------------
(* The worker's jobs, up to the intents they save.                         *)

\* SyncPrices, alone or at the start of RunForWorkspace: WB's prices are read,
\* and then stored with the time of storing.
SyncRead ==
    /\ pc[Worker] = "idle"
    /\ syncs < MaxSyncs /\ syncs' = syncs + 1
    /\ Goto(Worker, "store", [Idle EXCEPT !.job = "reprice", !.read = wbPrice])
    /\ UNCHANGED <<rows, site, synced, flags, mishaps>>

\* The economics that one run reads.
EconomicsRead ==
    {f \in [Products -> UNION {Economics[p] : p \in Products}] :
        \A p \in Products : f[p] \in Economics[p]}

\* What the strategies may make of an effective price.
Decisions(cur, econ) ==
    LET s     == Strategy
        floor == resolveFloor(econ, s.min)
    IN  {DecideMarginFloor(cur, floor),
         DecideInventoryDemand(cur, floor, s.step, TRUE, FALSE, s.max),
         DecideInventoryDemand(cur, floor, s.step, FALSE, TRUE, s.max),
         DecideAdLinked(cur, floor, s.step, TRUE),
         DecidePeakHours(cur, floor, s.step, s.uplift, s.dead, s.intensity, s.max),
         DecideCompetitorFollow(cur, floor, s.step, s.competitor, s.undercut)}

\* evaluateProduct: nothing for a product in flight (its cooldown and its daily
\* cap are over, or not, at any time), and nothing WB would quarantine.
Evaluated(p, price, econ, blind) ==
    LET cur == Effective(price)
    IN  IF (~blind /\ Of(p, InFlight) # {}) \/ cur = 0 \/ ~HasFloor(econ, Strategy.min) THEN {}
        ELSE {t \in Decisions(cur, econ) \ {cur} : t > cur \/ t * 3 > cur}

\* The intents that RunForWorkspace can arrive at: of the products S.
StrategyIntents(price, S, econ, blind) ==
    {{Intent(p, price[p], basePriceForTarget(t[p], Discount), None, 0,
             resolveFloor(econ[p], Strategy.min)) : p \in S} :
        t \in {f \in [S -> UNION {Evaluated(p, price[p], econ[p], blind) : p \in S}] :
                  \A p \in S : f[p] \in Evaluated(p, price[p], econ[p], blind)}}

\* The rest of RunForWorkspace.  There is nothing to do without strategies in
\* auto mode, when they contradict each other, and in a frozen cabinet.  A freeze
\* and changes in flight go unseen when their statements fail.
SyncStore ==
    LET read == loc[Worker].read
    IN  /\ pc[Worker] = "store"
        /\ synced' = [p \in Products |-> [price |-> read[p], at |-> Max({0} \cup {i \in Ids : changes[i].prod = p})]]
        /\ \/ Return(Worker) /\ UNCHANGED mishaps
           \/ /\ Len(changes) < MaxChanges
              /\ \E S \in SUBSET Products \ {{}}, econ \in EconomicsRead, blind \in BOOLEAN :
                    \E todo \in StrategyIntents(read, S, econ, blind) :
                       /\ paused => blind
                       /\ Unseen(blind)
                       /\ Goto(Worker, "enqueue", [Idle EXCEPT !.job = "reprice", !.todo = todo])
        /\ UNCHANGED <<rows, site, syncs, flags>>

\* ExecuteDueSchedules, a job of its own, claims one entry after the other.
\* ClaimDuePriceScheduleEntry takes the earliest: a primary before its revert.
\* A job that finds none does nothing.
ClaimDue(e) ==
    /\ pc[Worker] \in {"idle", "due"}
    /\ entries[e].status = "planned"
    /\ RevertOf[e] # None => entries[RevertOf[e]].status # "planned"
    /\ entries' = [entries EXCEPT ![e].status = "executing"]
    /\ Goto(Worker, "execute", [loc[Worker] EXCEPT !.job = "schedule", !.entry = e])
    /\ UNCHANGED <<changes, tasks, site, store, flags, mishaps>>

\* No further entry is due, or the batch is full: the job ends and plans the
\* deferred entries again.
ScheduleEnd ==
    /\ pc[Worker] = "due"
    /\ UpdateEntries(loc[Worker].deferred, "planned")
    /\ Return(Worker)
    /\ UNCHANGED <<changes, tasks, site, store, flags, mishaps>>

\* buildExactScheduleRevert: the primary's changes, if each is applied, is the
\* latest of its product, its price is the current one and the one before is not
\* below a floor.
CanRevert(prim, floors) ==
    LET mine == {i \in Ids : changes[i].entry = prim}
    IN  /\ mine # {}
        /\ \A i \in mine :
              LET c == changes[i]
              IN  /\ c.status = "applied"
                  /\ i = Max(Of(c.prod, Intended))
                  /\ Baseline(c.prod) = c.new
                  /\ floors[c.prod] # Missing => Effective(c.old) >= floors[c.prod]

RevertIntents(e, floors) ==
    {Intent(changes[i].prod, changes[i].new, changes[i].old, e, 0, floors[changes[i].prod]) :
        i \in {j \in Ids : changes[j].entry = RevertOf[e]}}

NextEntry(deferred) ==
    Goto(Worker, "due", [Idle EXCEPT !.job = "schedule",
                             !.deferred = loc[Worker].deferred \cup deferred])

FailEntry(e) ==
    /\ UpdateEntries({e}, "failed")
    /\ NextEntry({})

SaveEntry(e, todo) ==
    IF todo = {} THEN FailEntry(e)
    ELSE /\ Goto(Worker, "enqueue", [loc[Worker] EXCEPT !.todo = todo])
         /\ UNCHANGED entries

\* The intents of an entry: a revert's are those of its primary entry undone.
ExecuteEntry(e, floors) ==
    LET prim == RevertOf[e]
    IN  IF prim = None
        THEN \E S \in SUBSET Products \ {{}}, v \in Targets :
                SaveEntry(e, RequestIntents(S, v, e, floors))
        ELSE SaveEntry(e, IF CanRevert(prim, floors) THEN RevertIntents(e, floors) ELSE {})

\* executeScheduleEntry.  A revert waits for its primary entry, and a frozen
\* cabinet keeps every entry waiting, unless the freeze cannot be read.
Execute ==
    LET e       == loc[Worker].entry
        primary == IF RevertOf[e] = None THEN "done" ELSE entries[RevertOf[e]].status
    IN  /\ pc[Worker] = "execute"
        /\ \/ /\ primary \in {"planned", "executing"}
              /\ NextEntry({e}) /\ UNCHANGED <<entries, mishaps>>
           \/ /\ primary \in {"none", "failed", "canceled"}
              /\ FailEntry(e) /\ UNCHANGED mishaps
           \/ /\ primary = "done"
              /\ \/ paused /\ NextEntry({e}) /\ UNCHANGED <<entries, mishaps>>
                 \/ \E floors \in MarginFloors :
                       /\ Unseen(paused \/ ~AllRead(floors))
                       /\ ExecuteEntry(e, floors)
        /\ UNCHANGED <<changes, tasks, site, store, flags>>

-----------------------------------------------------------------------------
(* enqueueAndApplyIntents                                                  *)

Refused(pr, it) ==
    \/ QuarantineRisk(Effective(it.old), Effective(it.new))
    \/ loc[pr].job # "reprice" /\ RaiseAnomaly(Effective(it.old), Effective(it.new))

\* EnqueuePriceChange: in one statement the pending change of the product is
\* superseded and the new one saved.
Saved(it) ==
    Append([i \in Ids |-> IF changes[i].prod = it.prod /\ changes[i].status = "pending"
                          THEN [changes[i] EXCEPT !.status = "failed"]
                          ELSE changes[i]],
           [prod |-> it.prod, old |-> it.old, new |-> it.new, entry |-> it.entry,
            undo |-> it.undo, floor |-> it.floor, status |-> "pending", batch |-> 0, task |-> 0])

\* One intent; its statement may fail, and does once MaxChanges is reached.
Enqueue(pr) ==
    /\ pc[pr] = "enqueue"
    /\ \E it \in loc[pr].todo :
          IF Refused(pr, it)
          THEN /\ Goto(pr, "enqueue", [loc[pr] EXCEPT !.todo = @ \ {it}])
               /\ UNCHANGED <<changes, mishaps>>
          ELSE \/ /\ Len(changes) < MaxChanges
                  /\ changes' = Saved(it)
                  /\ Goto(pr, "enqueue", [loc[pr] EXCEPT !.todo = @ \ {it}, !.accepted = TRUE])
                  /\ UNCHANGED mishaps
               \/ /\ Mishap \/ (Len(changes) = MaxChanges /\ UNCHANGED mishaps)
                  /\ Goto(pr, "enqueue", [loc[pr] EXCEPT !.todo = @ \ {it}])
                  /\ UNCHANGED changes
    /\ UNCHANGED <<entries, tasks, site, store, flags>>

\* Slip: an entry ends as soon as all its changes have left the queue.
AggregatedEarly(cs, ts, es, e) ==
    LET mine == {i \in DOMAIN cs : cs[i].entry = e}
    IN  CASE es[e].status # "executing" \/ mine = {} -> es[e].status
          [] \E i \in mine : cs[i].status = "failed" -> "failed"
          [] \A i \in mine : cs[i].status # "pending" -> "done"
          [] OTHER -> "executing"

\* aggregatePriceSchedules: what an entry becomes, from the rows.
Aggregated(cs, ts, es, e) ==
    LET mine     == {i \in DOMAIN cs : cs[i].entry = e}
        lost     == \E i \in mine : cs[i].status = "failed"
        terminal == /\ mine # {}
                    /\ \A i \in mine : cs[i].status \notin InFlight
                    /\ \A t \in es[e].tasks : ts[t] # "uploaded"
                    /\ es[e].tasks # {} \/ lost
    IN  CASE es[e].status # "executing" \/ ~terminal -> es[e].status
          [] es[e].status = "executing" /\ terminal
             /\ (lost \/ \E t \in es[e].tasks : ts[t] \in {"partial", "failed"}) -> "failed"
          [] OTHER -> "done"

\* The entries after the statement, for the entries S.
Aggregate(cs, ts, es, S) ==
    [e \in Entries |-> IF e \in S THEN [es[e] EXCEPT !.status = Aggregated(cs, ts, es, e)]
                       ELSE es[e]]

OfTask(es, t) == {e \in Entries : t \in es[e].tasks}

\* All intents are saved, or none: then a schedule entry fails, and any other
\* caller gets the errors.
EnqueueEnd(pr) ==
    /\ pc[pr] = "enqueue"
    /\ loc[pr].todo = {}
    /\ CASE loc[pr].accepted ->
                /\ entries' = Aggregate(changes, tasks, entries, Entries)
                /\ Goto(pr, "drain", [loc[pr] EXCEPT !.accepted = FALSE])
         [] ~loc[pr].accepted /\ loc[pr].job = "schedule" -> FailEntry(loc[pr].entry)
         [] OTHER -> Return(pr) /\ UNCHANGED entries
    /\ UNCHANGED <<changes, tasks, site, store, flags, mishaps>>

\* The end of enqueueScheduleIntents.
EntryEnd ==
    /\ pc[Worker] = "through"
    /\ entries' = Aggregate(changes, tasks, entries, Entries)
    /\ NextEntry({})
    /\ UNCHANGED <<changes, tasks, site, store, flags, mishaps>>

-----------------------------------------------------------------------------
(* drainPendingPriceChanges                                                *)

DrainEnd(pr) ==
    IF loc[pr].job = "schedule"
    THEN Goto(pr, "through", [loc[pr] EXCEPT !.batch = {}, !.task = 0, !.retry = FALSE])
    ELSE Return(pr)

SetStatus(S, status) ==
    changes' = [i \in Ids |-> IF i \in S THEN [changes[i] EXCEPT !.status = status] ELSE changes[i]]

Unknown == {i \in Ids : changes[i].status = "submit_unknown"}

\* Slip: a product with a change in transport is claimed again.
ClaimableAlways == {i \in Ids : changes[i].status = "pending"}

Claimable == {i \in Ids : changes[i].status = "pending" /\ Of(changes[i].prod, Transport) = {}}

\* ClaimUnknownPriceChanges: a batch whose outcome is not known goes first, the
\* same changes again.
ClaimUnknown(pr) ==
    /\ pc[pr] = "drain" /\ ~cooling
    /\ \E b \in {changes[i].batch : i \in Unknown} :
          LET S == {i \in Unknown : changes[i].batch = b}
          IN  /\ SetStatus(S, "submitting")
              /\ Goto(pr, "upload", [loc[pr] EXCEPT !.batch = S, !.retry = TRUE])
    /\ UNCHANGED <<entries, tasks, site, store, flags, mishaps>>

\* ClaimPendingPriceChanges: every pending change whose product has none in
\* transport.  A batch is named after its first change.
ClaimPending(pr) ==
    /\ pc[pr] = "drain" /\ ~cooling
    /\ Unknown = {}
    /\ Claimable # {}
    /\ changes' = [i \in Ids |-> IF i \in Claimable
                                 THEN [changes[i] EXCEPT !.status = "submitting",
                                                         !.batch = Min(Claimable)]
                                 ELSE changes[i]]
    /\ Goto(pr, "upload", [loc[pr] EXCEPT !.batch = Claimable, !.retry = FALSE])
    /\ UNCHANGED <<entries, tasks, site, store, flags, mishaps>>

ClaimNothing(pr) ==
    /\ pc[pr] = "drain"
    /\ cooling \/ (Unknown = {} /\ Claimable = {})
    /\ DrainEnd(pr)
    /\ UNCHANGED <<rows, site, store, flags, mishaps>>

-----------------------------------------------------------------------------
(* UploadPriceTask.  WB (external) recognizes the payload of an earlier    *)
(* task (HTTP 208) as long as nothing was uploaded for its goods since.    *)

Payload(S) ==
    [p \in {changes[i].prod : i \in S} |->
        changes[CHOOSE i \in S : changes[i].prod = p].new]

SameTasks(S) ==
    {t \in DOMAIN wb :
        /\ wb[t].items = Payload(S)
        /\ \A u \in DOMAIN wb : u > t => DOMAIN wb[u].items \cap DOMAIN wb[t].items = {}}

WBAccepts(S) ==
    /\ SameTasks(S) = {}
    /\ wb' = Append(wb, [items |-> Payload(S), open |-> TRUE, bad |-> {}])
    /\ tasks' = Append(tasks, "none")

\* What an upload can bring: a new task, a task WB has already, an unknown
\* outcome (no answer, 429, 5xx) with or without a new task, or a refusal.
Upload(pr) ==
    LET me == loc[pr]
    IN  /\ pc[pr] = "upload"
        /\ \/ /\ WBAccepts(me.batch)
              /\ Goto(pr, "link", [me EXCEPT !.task = Len(wb) + 1])
              /\ UNCHANGED mishaps
           \/ /\ \E t \in SameTasks(me.batch) : Goto(pr, "link", [me EXCEPT !.task = t])
              /\ UNCHANGED <<wb, tasks, mishaps>>
           \/ /\ WBAccepts(me.batch) \/ UNCHANGED <<wb, tasks>>
              /\ Mishap
              /\ Goto(pr, "unknown", me)
        /\ UNCHANGED <<changes, entries, wbPrice, store, flags>>

Submitting(pr) == {i \in loc[pr].batch : changes[i].status = "submitting"}

\* FailSubmittingPriceChanges after a definite refusal.
UploadRefused(pr) ==
    /\ pc[pr] = "upload"
    /\ ~loc[pr].retry \/ RejectRetries
    /\ SetStatus(Submitting(pr), "failed")
    /\ DrainEnd(pr)
    /\ UNCHANGED <<entries, tasks, site, store, flags, mishaps>>

\* Slip: an unknown outcome is taken for a refusal.
MarkFailed(pr) ==
    /\ pc[pr] = "unknown"
    /\ SetStatus(Submitting(pr), "failed")
    /\ cooling' \in {cooling, TRUE}
    /\ DrainEnd(pr)
    /\ UNCHANGED <<entries, tasks, site, store, paused, mishaps>>

\* Slip: a status that price_changes does not know.
MarkLost(pr) ==
    /\ pc[pr] = "unknown"
    /\ SetStatus(Submitting(pr), "unknown")
    /\ cooling' \in {cooling, TRUE}
    /\ DrainEnd(pr)
    /\ UNCHANGED <<entries, tasks, site, store, paused, mishaps>>

\* MarkSubmittingPriceChangesUnknown; a 429 starts the cooldown.
MarkUnknown(pr) ==
    /\ pc[pr] = "unknown"
    /\ SetStatus(Submitting(pr), "submit_unknown")
    /\ cooling' \in {cooling, TRUE}
    /\ DrainEnd(pr)
    /\ UNCHANGED <<entries, tasks, site, store, paused, mishaps>>

\* The statement after an upload fails: the changes stay as they are until
\* RecoverStaleRepricerState finds them.
MarkFails(pr) ==
    /\ pc[pr] \in {"unknown", "link"}
    /\ Mishap
    /\ DrainEnd(pr)
    /\ UNCHANGED <<rows, site, store, flags>>

\* The changes of a processed task get its results and, where a rollback is
\* applied, the change it undoes is rolled back.
Resolved(cs, t) ==
    LET mine == {i \in DOMAIN cs : cs[i].task = t /\ cs[i].status = "uploaded"}
        good == {i \in mine : cs[i].prod \notin wb[t].bad}
    IN  [i \in DOMAIN cs |->
           CASE i \in good -> [cs[i] EXCEPT !.status = "applied"]
             [] i \in mine \ good -> [cs[i] EXCEPT !.status = "failed"]
             [] i \notin mine /\ (\E j \in good : cs[j].undo = i) ->
                    [cs[i] EXCEPT !.status = "rolled_back"]
             [] OTHER -> cs[i]]

LinkedStatus(task) == IF task \in {"applied", "failed"} THEN task ELSE "uploaded"

\* CreatePriceUploadTaskAndLinkChanges, and what follows it.  A new task gets a
\* row; a task that has one keeps its status, and the changes take it over or,
\* if it is partial, the results of their goods.  A task that had failed,
\* or in part, ends the drain.
Link(pr) ==
    LET t    == loc[pr].task
        mine == Submitting(pr)
        st   == IF tasks[t] = "none" THEN "uploaded" ELSE tasks[t]
        ts   == [tasks EXCEPT ![t] = st]
        cs   == [i \in Ids |-> IF i \in mine
                               THEN [changes[i] EXCEPT !.task = t, !.status = LinkedStatus(st)]
                               ELSE changes[i]]
        es   == [e \in Entries |->
                   IF entries[e].status = "executing" /\ \E i \in mine : changes[i].entry = e
                   THEN [entries[e] EXCEPT !.tasks = @ \cup {t}]
                   ELSE entries[e]]
    IN  /\ pc[pr] = "link"
        /\ tasks' = ts
        /\ changes' = IF st = "partial" THEN Resolved(cs, t) ELSE cs
        /\ entries' = Aggregate(changes', ts, es, OfTask(es, t))
        /\ IF st \in {"failed", "partial"} THEN DrainEnd(pr)
           ELSE Goto(pr, "drain", [loc[pr] EXCEPT !.batch = {}, !.task = 0, !.retry = FALSE])
        /\ UNCHANGED <<site, store, flags, mishaps>>

-----------------------------------------------------------------------------
(* The results of WB.                                                      *)

\* WB (external): an open task is processed, each of its goods well or not.
WBProcess(t) ==
    /\ wb[t].open
    /\ \E bad \in SUBSET DOMAIN wb[t].items :
          /\ wb' = [wb EXCEPT ![t].open = FALSE, ![t].bad = bad]
          /\ wbPrice' = [p \in Products |-> IF p \in DOMAIN wb[t].items \ bad
                                            THEN wb[t].items[p] ELSE wbPrice[p]]
    /\ UNCHANGED <<rows, store, flags, pc, loc, mishaps>>

\* terminalPriceTaskResult, and the partial status.
TaskResult(t) ==
    CASE wb[t].bad = {} -> "applied"
      [] wb[t].bad = DOMAIN wb[t].items -> "failed"
      [] OTHER -> "partial"

\* Slip: recovery finds nothing.
NoOrphans == {}

\* RecoverStaleRepricerState: changes whose submitter is gone are to be retried
\* as they are, entries without a change are planned again.
Orphans == {i \in Ids : /\ changes[i].status = "submitting"
                        /\ \A pr \in Procs : i \notin loc[pr].batch}

\* Slip: entries that have saved changes are planned again as well.
ReplannedAll == {e \in Entries : entries[e].status = "executing" /\ entries[e].tasks = {}}

\* Slip: entries stay with the executor that died.
ReplannedNone == {}

Replanned == {e \in Entries : /\ entries[e].status = "executing"
                              /\ entries[e].tasks = {}
                              /\ ~\E i \in Ids : changes[i].entry = e}

Polling(todo) ==
    Goto(Worker, IF todo = {} THEN "drain" ELSE "poll",
         [Idle EXCEPT !.job = "poll", !.polls = todo])

\* PollUploadTasks, up to the list of tasks.
PollStart ==
    /\ pc[Worker] = "idle"
    /\ SetStatus(Orphans, "submit_unknown")
    /\ entries' = Aggregate(changes', tasks,
                            [e \in Entries |-> IF e \in Replanned
                                               THEN [entries[e] EXCEPT !.status = "planned"]
                                               ELSE entries[e]],
                            Entries)
    /\ Polling({t \in DOMAIN tasks : tasks[t] = "uploaded"})
    /\ UNCHANGED <<tasks, site, store, flags, mishaps>>

\* pollOneTask.  A task WB has not processed, and a poll or a statement that
\* fails, leave everything as it is (bumpPoll).
Poll(t) ==
    /\ pc[Worker] = "poll"
    /\ t \in loc[Worker].polls
    /\ \/ /\ ~wb[t].open
          /\ changes' = Resolved(changes, t)
          /\ tasks' = [tasks EXCEPT ![t] = TaskResult(t)]
          /\ entries' = Aggregate(changes', tasks', entries, OfTask(entries, t))
          /\ UNCHANGED mishaps
       \/ /\ IF wb[t].open THEN UNCHANGED mishaps ELSE Mishap
          /\ UNCHANGED <<changes, tasks, entries>>
    /\ Polling(loc[Worker].polls \ {t})
    /\ UNCHANGED <<site, store, flags>>

-----------------------------------------------------------------------------
(* The rest of the world.                                                  *)

\* A process dies, or its context ends, before its next statement.
Crash(pr) ==
    /\ pc[pr] # "idle"
    /\ Mishap
    /\ Return(pr)
    /\ UNCHANGED <<rows, site, store, flags>>

CooldownEnds ==
    /\ cooling
    /\ cooling' = FALSE
    /\ UNCHANGED <<rows, site, store, paused, pc, loc, mishaps>>

\* SetPause
Freeze ==
    /\ ~paused
    /\ Mishap
    /\ paused' = TRUE
    /\ UNCHANGED <<rows, site, store, cooling, pc, loc>>

Unfreeze ==
    /\ paused
    /\ paused' = FALSE
    /\ UNCHANGED <<rows, site, store, cooling, pc, loc, mishaps>>

Apply(pr) ==
    \/ Enqueue(pr) \/ EnqueueEnd(pr)
    \/ ClaimUnknown(pr) \/ ClaimPending(pr) \/ ClaimNothing(pr)
    \/ Upload(pr) \/ UploadRefused(pr)
    \/ MarkUnknown(pr) \/ MarkFails(pr) \/ Link(pr)

\* A request or a job that has begun goes on.
ApiStep(a) == CancelWrite(a) \/ Apply(a)

WorkerStep ==
    \/ SyncStore
    \/ Execute \/ EntryEnd \/ ScheduleEnd
    \/ \E t \in DOMAIN tasks : Poll(t)
    \/ Apply(Worker)

Next ==
    \/ \E a \in Apis : Bulk(a) \/ Rollback(a) \/ ApiStep(a)
    \/ \E a \in Apis, e \in Entries : CancelRead(a, e)
    \/ \E e \in Entries : CreateSchedule(e) \/ ClaimDue(e)
    \/ SyncRead \/ PollStart
    \/ WorkerStep
    \/ \E t \in DOMAIN wb : WBProcess(t)
    \/ \E pr \in Procs : Crash(pr)
    \/ CooldownEnds \/ Freeze \/ Unfreeze

\* Requests and jobs that have begun go on.  The cron puts polls and schedule
\* runs into the queue again and again, the repricer server's slot gets to them,
\* and the time of every entry comes.  WB processes what it has accepted, cooldowns end, and a frozen
\* cabinet is released some day.
Fairness ==
    /\ \A a \in Apis : WF_vars(ApiStep(a))
    /\ WF_vars(WorkerStep)
    /\ SF_vars(PollStart)
    /\ \A e \in Entries : SF_vars(ClaimDue(e))
    /\ \A t \in 1 .. MaxChanges + MaxMishaps : WF_vars(t \in DOMAIN wb /\ WBProcess(t))
    /\ WF_vars(CooldownEnds) /\ WF_vars(Unfreeze)

Spec == Init /\ [][Next]_vars

FairSpec == Spec /\ Fairness

-----------------------------------------------------------------------------
(* Properties.                                                             *)

Change == [prod : Products, old : Nat, new : Nat, entry : Entries \cup {None}, undo : Nat, floor : Nat,
           status : InFlight \cup {"applied", "failed", "rolled_back"}, batch : Nat, task : Nat]

\* The rows and locals have their types: in particular every status is one that
\* the schema knows, and every linked task one that WB has returned.
TypeOK ==
    /\ changes \in Seq(Change) /\ Len(changes) <= MaxChanges
    /\ entries \in [Entries -> [status : Ended \cup {"none", "planned", "executing"},
                                tasks : SUBSET DOMAIN tasks]]
    /\ tasks \in Seq({"none", "uploaded", "applied", "partial", "failed"})
    /\ Len(tasks) = Len(wb)
    /\ wbPrice \in [Products -> Nat]
    /\ synced \in [Products -> [price : Nat, at : Nat]]
    /\ syncs \in 0 .. MaxSyncs
    /\ {cooling, paused} \subseteq BOOLEAN
    /\ mishaps \in 0 .. MaxMishaps
    /\ \A pr \in Procs : loc[pr].batch \subseteq Ids

\* While WB still has an upload to process, a change in transport holds the lock
\* of each of its products (ClaimPendingPriceChanges), and it is the change to
\* the price that WB will set: the tool never forgets a write that can still
\* happen, whatever answers were lost and whichever process died.
LockCoversWrites ==
    \A t \in DOMAIN wb : wb[t].open =>
        \A p \in DOMAIN wb[t].items :
            \E i \in Of(p, Transport) : changes[i].new = wb[t].items[p]

\* When nothing of a product is in transport, WB shows the price of the latest
\* change that price_changes reports as applied: uploads of one product are
\* never applied out of order.
LastAppliedWins ==
    \A p \in Products :
        LET won == Of(p, {"applied", "rolled_back"})
        IN  won # {} /\ Of(p, Transport) = {} => wbPrice[p] = changes[Max(won)].new

\* WB answered the uploads of two batches with the same task.
Reused(t) ==
    /\ t # 0
    /\ \E k, l \in Ids : changes[k].task = t /\ changes[l].task = t /\ changes[k].batch # changes[l].batch

\* A schedule entry is reported done only when every change saved for it was
\* applied by WB (aggregatePriceSchedules), however its changes were spread over
\* uploads.  The executor saves them one by one, though: if another request
\* uploads the first ones before the rest is saved, and WB answers with a task
\* whose result is known already, the entry is done when the rest arrives.
DoneMeansApplied ==
    \A i \in Ids : changes[i].entry # None /\ entries[changes[i].entry].status = "done" =>
        \/ changes[i].status \in {"applied", "rolled_back"}
        \/ \E j \in Ids : j < i /\ changes[j].entry = changes[i].entry /\ Reused(changes[j].task)

\* An entry that is planned again, because it waits for another one or for the
\* end of a freeze or because its executor died, never changes a product twice.
ScheduleOnce ==
    \A i, j \in Ids : i # j /\ changes[i].entry # None /\ changes[i].entry = changes[j].entry =>
        changes[i].prod # changes[j].prod

\* The change keeps the floor it was decided with, or raises the price it builds on.
KeepsFloor(c) == Effective(c.new) >= c.floor \/ Effective(c.new) > Effective(c.old)

\* The effective price v of p is not below the one p had at first, or not below
\* the floor of some decision about p.  A rollback decides nothing.
Bounded(p, v) ==
    \/ Effective(v) >= Effective(StartPrice)
    \/ \E i \in Ids : /\ changes[i].prod = p /\ changes[i].undo = 0
                      /\ Effective(v) >= changes[i].floor

\* Every request, schedule, revert and strategy keeps the margin floor it has read
\* (clampToMarginFloor, resolveFloor), or raises the price; and whatever becomes
\* of the changes (superseded, lost, repeated, rolled back without a look at the
\* floor, or decided before the costs rose), WB never sells a product below the
\* lowest floor that a decision about it has read.  Economics that could not be
\* read are no floor at all: such a decision may go anywhere.
MarginKept ==
    /\ \A i \in Ids : changes[i].undo = 0 => KeepsFloor(changes[i])
    /\ \A p \in Products : Bounded(p, wbPrice[p])

\* "such a change must never leave the tool" (checkQuarantineRisk): no upload
\* that WB has yet to process cuts the price it would meet to a third or less.
NeverQuarantined ==
    \A t \in DOMAIN wb : wb[t].open =>
        \A p \in DOMAIN wb[t].items :
            ~QuarantineRisk(Effective(wbPrice[p]), Effective(wb[t].items[p]))

\* Every saved change gets a final status: none waits for ever in the queue, for
\* an answer that was lost or for a submitter that died.
ChangesSettle ==
    \A i \in 1 .. MaxChanges : [](i \in Ids => <>(i \in Ids /\ changes[i].status \notin InFlight))

\* Every planned entry ends, also when its executor died, the cabinet was frozen
\* or it is the revert of an entry that failed.
EntriesSettle ==
    \A e \in Entries : entries[e].status = "planned" ~> entries[e].status \in Ended

=============================================================================
