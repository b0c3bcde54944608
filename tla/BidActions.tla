----------------------------- MODULE BidActions -----------------------------
(***************************************************************************)
(* Automated bid writes of one workspace on Wildberries (WB).              *)
(*                                                                         *)
(* A worker runs one job at a time (the WB asynq server, Concurrency 1): *)
(* a bid-automation run, a sync of an advertised target, or the            *)
(* reconciliation of bid actions whose outcome is uncertain.  Every        *)
(* automated write goes through a row of wb_bid_actions: claim the row,    *)
(* re-check the operator controls while holding the workspace's advisory   *)
(* lock, call WB, release the lock, write the audit row (bid_changes),     *)
(* complete the action row.  API requests change the workspace settings    *)
(* under the same advisory lock.                                           *)
(*                                                                         *)
(* PostgreSQL runs READ COMMITTED: the snapshot a statement reads is taken *)
(* when the statement STARTS.  The claim and the pre-write guard take the  *)
(* advisory lock inside the statement that reads the state, so both steps  *)
(* are split here: ...Begin takes the snapshot, ...Exec is the moment the  *)
(* lock is granted and the statement goes on with that snapshot.           *)
(***************************************************************************)
EXTENDS Integers, Sequences, FiniteSets

CONSTANTS
    Workers,          \* worker processes
    Scopes,           \* bid targets: [product, query], None is SQL NULL
    Bids,             \* bid values
    SettingsSet,      \* automation settings an API request may commit
    None,             \* SQL NULL / nobody
    Admin,            \* the settings transaction, as a holder of the lock
    PromptWorkers,    \* TRUE: a live worker finishes an action in five minutes
    ReconcileLimit,   \* LIMIT of the stale-action query
    MaxActions,       \* bound: no new decision with this many action rows
    MaxVersions,      \* bound: stored observations per target
    MaxDays,          \* bound: Moscow calendar days
    MaxUpdates,       \* bound: changes of settings and strategy by operators
    MaxEdits,         \* bound: bid edits and removals made in the WB cabinet
    MaxFaults         \* bound: crashes and lost database connections

ASSUME ScopesAssumption == Scopes \subseteq [product : {s.product : s \in Scopes},
                                             query   : {s.query : s \in Scopes}]
ASSUME SettingsAssumption ==
    SettingsSet \subseteq [enabled : BOOLEAN, hold : BOOLEAN, cap : Nat]
ASSUME NamesAssumption == /\ None \notin Workers \cup Scopes \cup Bids \cup {Admin}
                          /\ None \notin Nat
                          /\ Admin \notin Workers
ASSUME BoundsAssumption ==
    /\ ReconcileLimit \in Nat \ {0}
    /\ {MaxActions, MaxVersions, MaxDays, MaxUpdates, MaxEdits,
        MaxFaults} \subseteq Nat
    /\ PromptWorkers \in BOOLEAN

VARIABLES
    settings,   \* committed workspaces.settings->'automation'
    strategy,   \* strategies.is_active
    lock,       \* holder of the advisory lock ':workspace-daily-bid-actions'
    acts,       \* table wb_bid_actions, in insertion order, with its audit row
    obs,        \* synced bid of every target (campaign_products / phrases)
    wb,         \* the bids Wildberries really uses
    member,     \* targets that WB still lists in the campaign
    day,        \* current Moscow day
    pc,         \* control state of every worker
    loc,        \* locals of the bid run or sync of a worker
    snap,       \* snapshot of the statement a worker has under way
    left,       \* bindings a bid run has still to visit
    todo,       \* stale actions a reconciliation still has to look at
    updates,    \* operator changes so far
    edits,      \* edits made in the WB cabinet so far
    faults,     \* crashes so far
    late        \* history: writes of a worker since the controls last changed

db    == <<settings, strategy, lock, acts, obs>>
env   == <<wb, member, day, updates, edits, faults>>
vars  == <<settings, strategy, lock, acts, obs, wb, member, day, pc, loc, snap,
           left, todo, updates, edits, faults, late>>

-----------------------------------------------------------------------------
(* Rows and statuses.                                                      *)

Unresolved == {"pending", "unknown"}
Counted    == Unresolved \cup {"applied"}
Terminal   == {"applied", "failed", "blocked", "not_applied", "superseded"}
Statuses   == Unresolved \cup Terminal

\* A row of wb_bid_actions.  created is the observation version when the row
\* was created (created_at), window the day the runner counts against, audit
\* the wb_status of the bid_changes row or None.  grant, writes and landed are
\* history: the cap the pre-write guard checked, the WB calls made for the
\* row, and whether one of them took effect.
ActionRow == [scope : Scopes, old : Bids, new : Bids, ver : Nat, created : Nat,
              day : Nat, window : Nat, status : Statuses,
              audit : Statuses \cup {None},
              grant : Nat \cup {None}, writes : Nat, landed : BOOLEAN]

MatchesNullable(x, y) == x = None \/ y = None \/ x = y

Overlaps(s, t) == /\ MatchesNullable(s.product, t.product)
                  /\ MatchesNullable(s.query, t.query)

\* Slip: an action whose write timed out is taken for a settled one.
HasUnresolvedPendingOnly(rows, scope) ==
    \E i \in DOMAIN rows : /\ rows[i].status = "pending"
                           /\ Overlaps(rows[i].scope, scope)

\* The EXISTS of HasUnresolvedAutomationBidAction and of claim_state.unresolved.
HasUnresolved(rows, scope) ==
    \E i \in DOMAIN rows : /\ rows[i].status \in Unresolved
                           /\ Overlaps(rows[i].scope, scope)

\* daily_action_count: rows of the window that are pending, unknown or applied.
CountedOn(rows, d) ==
    {i \in DOMAIN rows : rows[i].status \in Counted /\ rows[i].day = d}

EffectiveCap(configured, observed) ==
    IF configured <= observed THEN configured ELSE observed

\* workspaceAutomationGuardrailReason(settings) = ""
Ready(s) == s.enabled /\ ~s.hold /\ s.cap > 0

\* The controls an operator can stop automation with.
Running == Ready(settings) /\ strategy

NoLocals == [scope |-> None, old |-> None, new |-> None, ver |-> 0, cap |-> 0,
             window |-> 0, id |-> 0, out |-> None]

NoSnap == [settings |-> None, rows |-> <<>>, day |-> 0, ver |-> 0]

BidPCs == {"runSettings", "binding", "unresolved", "cap", "claim", "claimWait",
           "reload", "reloadStrategy", "reloadCap", "lease", "leaseWait",
           "write", "record", "complete", "finish"}
PCs    == BidPCs \cup {"idle", "syncStore", "recObserve", "recAudit", "recUpdate"}

\* From its claim to its completion an action belongs to a live worker.
InFlight(i) == \E w \in Workers :
    /\ pc[w] \in {"reload", "reloadStrategy", "reloadCap", "lease", "leaseWait",
                  "write", "record", "complete", "finish"}
    /\ loc[w].id = i

-----------------------------------------------------------------------------
Init ==
    /\ settings \in SettingsSet
    /\ strategy = TRUE
    /\ lock = None
    /\ acts = <<>>
    /\ wb \in [Scopes -> Bids]
    /\ obs = [s \in Scopes |-> [bid |-> wb[s], ver |-> 1, found |-> TRUE]]
    /\ member = Scopes
    /\ day = 1
    /\ pc = [w \in Workers |-> "idle"]
    /\ loc = [w \in Workers |-> NoLocals]
    /\ snap = [w \in Workers |-> NoSnap]
    /\ left = [w \in Workers |-> {}]
    /\ todo = [w \in Workers |-> {}]
    /\ updates = 0
    /\ edits = 0
    /\ faults = 0
    /\ late = [w \in Workers |-> 0]

Goto(w, to) == pc' = [pc EXCEPT ![w] = to]

\* The binding is done with (continue): the worker forgets its locals.
NextBinding(w) ==
    /\ Goto(w, "binding")
    /\ loc' = [loc EXCEPT ![w] = NoLocals]

\* The strategy is done with (break, return): the job ends.
EndJob(w) ==
    /\ Goto(w, "idle")
    /\ loc' = [loc EXCEPT ![w] = NoLocals]
    /\ left' = [left EXCEPT ![w] = {}]

TakeSnapshot(w) ==
    snap' = [snap EXCEPT ![w] =
        [settings |-> settings, rows |-> acts, day |-> day,
         ver |-> obs[loc[w].scope].ver]]

DropSnapshot(w) == snap' = [snap EXCEPT ![w] = NoSnap]

SetRow(i, row) == acts' = [acts EXCEPT ![i] = row]

-----------------------------------------------------------------------------
(* API: UpdateSettings holds the advisory lock from before its read to its *)
(* commit; strategies are switched on and off without it.                  *)

SettingsBegin ==
    /\ updates < MaxUpdates
    /\ updates' = updates + 1
    /\ lock = None
    /\ lock' = Admin
    /\ UNCHANGED <<settings, strategy, acts, obs, wb, member, day, edits, faults, pc,
                   loc, snap, left, todo, late>>

\* History: writes are counted afresh whenever the controls change.
RestartLate ==
    late' = IF <<settings, strategy>>' = <<settings, strategy>>
            THEN late ELSE [w \in Workers |-> 0]

SettingsCommit(s) ==
    /\ lock = Admin
    /\ lock' = None
    /\ settings' = s
    /\ UNCHANGED <<strategy, acts, obs, env, pc, loc, snap, left, todo>>
    /\ RestartLate

SetStrategyActive(active) ==
    /\ updates < MaxUpdates
    /\ updates' = updates + 1
    /\ strategy' = active
    /\ UNCHANGED <<settings, lock, acts, obs, wb, member, day, edits, faults, pc, loc,
                   snap, left, todo>>
    /\ RestartLate

-----------------------------------------------------------------------------
(* A bid-automation run: RunForWorkspace, then executeStrategy per binding.*)

\* ListActive, then GetWorkspaceSettings: two reads at two moments.
RunForWorkspace(w) ==
    /\ pc[w] = "idle"
    /\ strategy
    /\ Goto(w, "runSettings")
    /\ UNCHANGED <<db, env, loc, snap, left, todo, late>>

LoadRunSettings(w) ==
    /\ pc[w] = "runSettings"
    /\ \/ /\ Ready(settings)
          /\ Goto(w, "binding")
          /\ left' = [left EXCEPT ![w] = Scopes]
       \/ /\ ~Ready(settings)
          /\ Goto(w, "idle")
          /\ UNCHANGED left
    /\ UNCHANGED <<db, env, loc, snap, todo, late>>

EndRun(w) ==
    /\ pc[w] = "binding"
    /\ EndJob(w)
    /\ UNCHANGED <<db, env, snap, todo, late>>

\* The engine proposes a new bid from the synced one; a binding whose guards
\* or engine say no is one that is not chosen here.
Decide(w, scope, new) ==
    /\ pc[w] = "binding"
    /\ scope \in left[w]
    /\ left' = [left EXCEPT ![w] = @ \ {scope}]
    /\ Len(acts) < MaxActions
    /\ obs[scope].ver < MaxVersions
    /\ obs[scope].found
    /\ new # obs[scope].bid
    /\ Goto(w, "unresolved")
    /\ loc' = [loc EXCEPT ![w] = [NoLocals EXCEPT
                  !.scope = scope, !.old = obs[scope].bid, !.new = new,
                  !.ver = obs[scope].ver]]
    /\ UNCHANGED <<db, env, snap, todo, late>>

CheckUnresolved(w) ==
    /\ pc[w] = "unresolved"
    /\ \/ /\ HasUnresolved(acts, loc[w].scope)
          /\ NextBinding(w)
       \/ /\ ~HasUnresolved(acts, loc[w].scope)
          /\ Goto(w, "cap")
          /\ UNCHANGED loc
    /\ UNCHANGED <<db, env, snap, left, todo, late>>

\* currentWorkspaceAutomationCap, then automationBidDayWindow(time.Now()).
LoadCap(w) ==
    /\ pc[w] = "cap"
    /\ \/ /\ ~Ready(settings)
          /\ NextBinding(w)
       \/ /\ Ready(settings)
          /\ Goto(w, "claim")
          /\ loc' = [loc EXCEPT ![w].cap = settings.cap, ![w].window = day]
    /\ UNCHANGED <<db, env, snap, left, todo, late>>

ClaimBegin(w) ==
    /\ pc[w] = "claim"
    /\ Goto(w, "claimWait")
    /\ TakeSnapshot(w)
    /\ UNCHANGED <<db, env, loc, left, todo, late>>

\* Slip: the unique index covers unresolved rows only.
KeyTakenUnresolved(scope, ver) ==
    \E i \in DOMAIN acts : /\ acts[i].scope = scope /\ acts[i].ver = ver
                           /\ acts[i].status \in Unresolved

\* Both unique indexes: the observation key is a prefix of the automation key.
KeyTaken(scope, ver) ==
    \E i \in DOMAIN acts : acts[i].scope = scope /\ acts[i].ver = ver

ClaimStatus(s, rows, observed, window) ==
    LET cap == EffectiveCap(s.cap, observed)
    IN  IF \/ ~s.enabled
           \/ s.hold
           \/ cap <= 0
           \/ Cardinality(CountedOn(rows, window)) >= cap
        THEN "blocked" ELSE "pending"

NewRow(w, status) ==
    [scope |-> loc[w].scope, old |-> loc[w].old, new |-> loc[w].new,
     ver |-> loc[w].ver, created |-> snap[w].ver, day |-> snap[w].day,
     window |-> loc[w].window, status |-> status, audit |-> None,
     grant |-> None, writes |-> 0, landed |-> FALSE]

\* The statement owns the lock for its own duration only.
ClaimExec(w) ==
    LET status == ClaimStatus(snap[w].settings, snap[w].rows,
                              loc[w].cap, loc[w].window)
        refused == \/ HasUnresolved(snap[w].rows, loc[w].scope)
                   \/ KeyTaken(loc[w].scope, loc[w].ver)
    IN  /\ pc[w] = "claimWait"
        /\ lock = None
        /\ DropSnapshot(w)
        /\ \/ /\ refused
              /\ NextBinding(w)
              /\ UNCHANGED <<acts, left>>
           \/ /\ ~refused
              /\ acts' = Append(acts, NewRow(w, status))
              /\ \/ /\ status = "blocked"
                    /\ EndJob(w)
                 \/ /\ status = "pending"
                    /\ Goto(w, "reload")
                    /\ loc' = [loc EXCEPT ![w].id = Len(acts) + 1]
                    /\ UNCHANGED left
        /\ UNCHANGED <<settings, strategy, lock, obs, env, todo, late>>

\* liveBidWriteGuardrail reads the settings, then the strategy.
ReloadSettings(w) ==
    /\ pc[w] = "reload"
    /\ \/ Ready(settings) /\ Goto(w, "reloadStrategy")
       \/ ~Ready(settings) /\ Goto(w, "finish")
    /\ UNCHANGED <<db, env, loc, snap, left, todo, late>>

\* Slip: the strategy of the run's start is taken for the current one.
ReloadStrategyStale(w) ==
    /\ pc[w] = "reloadStrategy"
    /\ Goto(w, "reloadCap")
    /\ UNCHANGED <<db, env, loc, snap, left, todo, late>>

ReloadStrategy(w) ==
    /\ pc[w] = "reloadStrategy"
    /\ \/ strategy /\ Goto(w, "reloadCap")
       \/ ~strategy /\ Goto(w, "finish")
    /\ UNCHANGED <<db, env, loc, snap, left, todo, late>>

\* currentWorkspaceAutomationCap inside liveBidPreWriteGuardrail
ReloadCap(w) ==
    /\ pc[w] = "reloadCap"
    /\ \/ /\ Ready(settings)
          /\ Goto(w, "lease")
          /\ loc' = [loc EXCEPT ![w].cap = settings.cap]
       \/ /\ ~Ready(settings)
          /\ Goto(w, "finish")
          /\ UNCHANGED loc
    /\ UNCHANGED <<db, env, snap, left, todo, late>>

LeaseBegin(w) ==
    /\ pc[w] = "lease"
    /\ Goto(w, "leaseWait")
    /\ TakeSnapshot(w)
    /\ UNCHANGED <<db, env, loc, left, todo, late>>

\* Slips: the guard trusts the count the claim was made with; or it forgets
\* that the claimed row is among those it counts.
PreWriteGuardNoCount(s, rows, i, observed, window) ==
    /\ rows[i].status = "pending"
    /\ s.enabled /\ ~s.hold
    /\ EffectiveCap(s.cap, observed) > 0

PreWriteGuardOffByOne(s, rows, i, observed, window) ==
    /\ PreWriteGuardNoCount(s, rows, i, observed, window)
    /\ Cardinality(CountedOn(rows, window)) - 1 <= EffectiveCap(s.cap, observed)

\* automationBidActionPreWriteGuard returns '': the claimed row is counted.
PreWriteGuard(s, rows, i, observed, window) ==
    LET cap == EffectiveCap(s.cap, observed)
    IN  /\ rows[i].status = "pending"
        /\ s.enabled
        /\ ~s.hold
        /\ cap > 0
        /\ Cardinality(CountedOn(rows, window)) <= cap

\* A passed guard keeps the transaction, and with it the lock, open.
LeaseExec(w) ==
    LET i  == loc[w].id
        s  == snap[w].settings
        ok == PreWriteGuard(s, snap[w].rows, i, loc[w].cap, loc[w].window)
    IN  /\ pc[w] = "leaseWait"
        /\ lock = None
        /\ DropSnapshot(w)
        /\ \/ /\ ok
              /\ lock' = w
              /\ SetRow(i, [acts[i] EXCEPT !.grant = EffectiveCap(s.cap, loc[w].cap)])
              /\ Goto(w, "write")
           \/ /\ ~ok
              /\ Goto(w, "finish")
              /\ UNCHANGED <<lock, acts>>
        /\ UNCHANGED <<settings, strategy, obs, env, loc, left, todo, late>>

\* A guard that cannot be evaluated (preWriteErr) blocks the write.
GuardError(w) ==
    /\ faults < MaxFaults
    /\ faults' = faults + 1
    /\ pc[w] \in {"reload", "reloadStrategy", "reloadCap", "lease", "leaseWait"}
    /\ Goto(w, "finish")
    /\ DropSnapshot(w)
    /\ UNCHANGED <<db, wb, member, day, updates, edits, loc, left, todo, late>>

\* CompleteAutomationBidAction(status): only a pending row changes.
Completed(row, status) ==
    [row EXCEPT !.status = IF @ = "pending" THEN status ELSE @]

FinishBlocked(w) ==
    /\ pc[w] = "finish"
    /\ SetRow(loc[w].id, Completed(acts[loc[w].id], "blocked"))
    /\ NextBinding(w)
    /\ UNCHANGED <<settings, strategy, lock, obs, env, snap, left, todo, late>>

\* The database connection drops while WB is being called: the server ends
\* the transaction and with it the lease.
LoseLease(w) ==
    /\ faults < MaxFaults
    /\ faults' = faults + 1
    /\ pc[w] = "write"
    /\ lock = w
    /\ lock' = None
    /\ UNCHANGED <<settings, strategy, acts, obs, wb, member, day, updates,
                   edits, pc, loc, snap, left, todo, late>>

\* UpdateCampaignBid / SetClusterBids, then releaseAutomationBidWriteLease.
\* A call whose outcome is unknown may have taken effect or not.
WBCall(w, out, lands, next) ==
    LET i == loc[w].id
    IN  /\ pc[w] = "write"
        /\ out = "applied" => lands
        /\ out = "failed" => ~lands
        /\ Goto(w, next)
        /\ loc' = [loc EXCEPT ![w].out = out]
        /\ wb' = IF lands THEN [wb EXCEPT ![acts[i].scope] = acts[i].new] ELSE wb
        /\ SetRow(i, [acts[i] EXCEPT !.writes = @ + 1, !.landed = @ \/ lands])
        /\ lock' = IF lock = w THEN None ELSE lock
        /\ late' = IF Running THEN late ELSE [late EXCEPT ![w] = @ + 1]
        /\ UNCHANGED <<settings, strategy, obs, member, day, updates, edits, faults,
                       snap, left, todo>>

\* Slip: a call of unknown outcome is repeated.
WBWriteRetry(w, out, lands) ==
    /\ pc[w] = "write" => acts[loc[w].id].writes < 2
    /\ WBCall(w, out, lands, IF out = "unknown" THEN "write" ELSE "record")

WBWrite(w, out, lands) == WBCall(w, out, lands, "record")

\* CreateBidChange: a second audit row of an action violates the unique
\* index, and then the action is not completed.
RecordBidChange(w) ==
    LET i == loc[w].id
    IN  /\ pc[w] = "record"
        /\ \/ /\ acts[i].audit = None
              /\ SetRow(i, [acts[i] EXCEPT !.audit = loc[w].out])
              /\ Goto(w, "complete")
              /\ UNCHANGED loc
           \/ /\ acts[i].audit # None
              /\ NextBinding(w)
              /\ UNCHANGED acts
        /\ UNCHANGED <<settings, strategy, lock, obs, env, snap, left, todo, late>>

CompleteAction(w) ==
    /\ pc[w] = "complete"
    /\ SetRow(loc[w].id, Completed(acts[loc[w].id], loc[w].out))
    /\ NextBinding(w)
    /\ UNCHANGED <<settings, strategy, lock, obs, env, snap, left, todo, late>>

-----------------------------------------------------------------------------
(* Sync of a target: what was fetched is stored under the time of storing. *)

SyncFetch(w, scope) ==
    /\ pc[w] = "idle"
    /\ obs[scope].ver < MaxVersions
    /\ Goto(w, "syncStore")
    /\ loc' = [loc EXCEPT ![w] = [NoLocals EXCEPT
                  !.scope = scope,
                  !.new = IF scope \in member THEN wb[scope] ELSE None]]
    /\ UNCHANGED <<db, env, snap, left, todo, late>>

SyncStore(w) ==
    LET s == loc[w].scope
        b == loc[w].new
    IN  /\ pc[w] = "syncStore"
        /\ obs' = [obs EXCEPT ![s] =
                     [bid   |-> IF b = None THEN @.bid ELSE b,
                      ver   |-> @.ver + 1,
                      found |-> b # None]]
        /\ EndJob(w)
        /\ UNCHANGED <<settings, strategy, lock, acts, env, snap, todo, late>>

-----------------------------------------------------------------------------
(* Reconciliation: ReconcileStaleBidActions never calls WB.                *)

\* Slips: no five-minute delay before an action counts as stale; only rows
\* the worker left pending are looked for.
StaleAtOnce == {i \in DOMAIN acts : acts[i].status \in Unresolved}

StalePending ==
    {i \in DOMAIN acts : /\ acts[i].status = "pending"
                         /\ PromptWorkers => ~InFlight(i)}

StaleActions ==
    {i \in DOMAIN acts : /\ acts[i].status \in Unresolved
                         /\ PromptWorkers => ~InFlight(i)}

\* ORDER BY created_at ASC LIMIT n
Oldest(ids, n) == {i \in ids : Cardinality({j \in ids : j < i}) < n}

IsFirst(i, ids) == i \in ids /\ \A j \in ids : i <= j

ReconcileList(w) ==
    /\ pc[w] = "idle"
    /\ StaleActions # {}
    /\ Goto(w, "recObserve")
    /\ todo' = [todo EXCEPT ![w] = Oldest(StaleActions, ReconcileLimit)]
    /\ UNCHANGED <<db, env, loc, snap, left, late>>

\* The loop goes on to the next action, or the job ends.
NextStale(w, i) ==
    LET rest == todo[w] \ {i}
    IN  /\ todo' = [todo EXCEPT ![w] = rest]
        /\ loc' = [loc EXCEPT ![w] = NoLocals]
        /\ Goto(w, IF rest = {} THEN "idle" ELSE "recObserve")

\* automationBidReconciliationStatus
ReconciledStatus(row, actual) ==
    CASE actual = row.new -> "applied"
      [] actual = row.old -> "not_applied"
      [] OTHER            -> "superseded"

ObserveOne(w, i, usable) ==
    /\ pc[w] = "recObserve"
    /\ IsFirst(i, todo[w])
    /\ \/ /\ ~usable
          /\ NextStale(w, i)
       \/ /\ usable
          /\ Goto(w, "recAudit")
          /\ loc' = [loc EXCEPT ![w] = [NoLocals EXCEPT
                        !.id = i,
                        !.out = ReconciledStatus(acts[i], obs[acts[i].scope].bid)]]
          /\ UNCHANGED todo
    /\ UNCHANGED <<db, env, snap, left, late>>

\* Slip: any synced bid will do, also one older than the action.
ReconcileObserveAny(w) ==
    \E i \in todo[w] : ObserveOne(w, i, obs[acts[i].scope].found)

\* Only a bid synced after the row was created, and after the bid the decision
\* was made from, settles it; otherwise the action waits for a later pass.
ReconcileObserve(w) ==
    \E i \in todo[w] :
        LET o == obs[acts[i].scope]
        IN  ObserveOne(w, i, o.found /\ o.ver > acts[i].created /\ o.ver > acts[i].ver)

\* Slip: ON CONFLICT DO NOTHING instead of DO UPDATE.
ReconcileAuditKeeps(w) ==
    LET i == loc[w].id
    IN  /\ pc[w] = "recAudit"
        /\ \/ /\ acts[i].status \in Unresolved
              /\ SetRow(i, [acts[i] EXCEPT !.audit = IF @ = None THEN loc[w].out ELSE @])
              /\ Goto(w, "recUpdate")
              /\ UNCHANGED <<loc, todo>>
           \/ /\ acts[i].status \notin Unresolved
              /\ NextStale(w, i)
              /\ UNCHANGED acts
        /\ UNCHANGED <<settings, strategy, lock, obs, env, snap, left, late>>

\* UpsertReconciledAutomationBidChange
ReconcileAudit(w) ==
    LET i == loc[w].id
    IN  /\ pc[w] = "recAudit"
        /\ \/ /\ acts[i].status \in Unresolved
              /\ SetRow(i, [acts[i] EXCEPT !.audit = loc[w].out])
              /\ Goto(w, "recUpdate")
              /\ UNCHANGED <<loc, todo>>
           \/ /\ acts[i].status \notin Unresolved
              /\ NextStale(w, i)
              /\ UNCHANGED acts
        /\ UNCHANGED <<settings, strategy, lock, obs, env, snap, left, late>>

\* ReconcileAutomationBidAction
ReconcileUpdate(w) ==
    LET i == loc[w].id
    IN  /\ pc[w] = "recUpdate"
        /\ SetRow(i, [acts[i] EXCEPT
                        !.status = IF @ \in Unresolved THEN loc[w].out ELSE @])
        /\ NextStale(w, i)
        /\ UNCHANGED <<settings, strategy, lock, obs, env, snap, left, late>>

-----------------------------------------------------------------------------
(* Environment.                                                            *)

\* The process dies, or a failed statement makes it give the binding up.
\* The database releases what it held; its row keeps its status.
Crash(w) ==
    /\ faults < MaxFaults
    /\ faults' = faults + 1
    /\ pc[w] # "idle"
    /\ pc' = [pc EXCEPT ![w] = "idle"]
    /\ loc' = [loc EXCEPT ![w] = NoLocals]
    /\ DropSnapshot(w)
    /\ left' = [left EXCEPT ![w] = {}]
    /\ todo' = [todo EXCEPT ![w] = {}]
    /\ lock' = IF lock = w THEN None ELSE lock
    /\ UNCHANGED <<settings, strategy, acts, obs, wb, member, day, updates,
                   edits, late>>

\* The seller changes a bid, or removes the target, in the WB cabinet.
SellerEdit(scope) ==
    /\ edits < MaxEdits
    /\ edits' = edits + 1
    /\ \/ \E b \in Bids : wb' = [wb EXCEPT ![scope] = b] /\ UNCHANGED member
       \/ member' = member \ {scope} /\ UNCHANGED wb
    /\ UNCHANGED <<db, day, updates, faults, pc, loc, snap, left, todo, late>>

NextDay ==
    /\ day < MaxDays
    /\ day' = day + 1
    /\ UNCHANGED <<db, wb, member, updates, edits, faults, pc, loc, snap, left, todo, late>>

-----------------------------------------------------------------------------
Outcomes == {"applied", "failed", "unknown"}

\* The steps a worker takes by itself once a job has started.
Progress(w) ==
    \/ LoadRunSettings(w)
    \/ CheckUnresolved(w) \/ LoadCap(w) \/ ClaimBegin(w) \/ ClaimExec(w)
    \/ ReloadSettings(w) \/ ReloadStrategy(w) \/ ReloadCap(w)
    \/ LeaseBegin(w) \/ LeaseExec(w)
    \/ FinishBlocked(w)
    \/ \E out \in Outcomes, lands \in BOOLEAN : WBWrite(w, out, lands)
    \/ RecordBidChange(w) \/ CompleteAction(w)
    \/ SyncStore(w)
    \/ ReconcileObserve(w) \/ ReconcileAudit(w) \/ ReconcileUpdate(w)

WorkerStep(w) ==
    \/ RunForWorkspace(w) \/ EndRun(w)
    \/ \E scope \in Scopes, new \in Bids : Decide(w, scope, new)
    \/ \E scope \in Scopes : SyncFetch(w, scope)
    \/ ReconcileList(w)
    \/ Progress(w)
    \/ GuardError(w) \/ LoseLease(w) \/ Crash(w)

Next ==
    \/ SettingsBegin
    \/ \E s \in SettingsSet : SettingsCommit(s)
    \/ \E active \in BOOLEAN : SetStrategyActive(active)
    \/ \E w \in Workers : WorkerStep(w)
    \/ \E scope \in Scopes : SellerEdit(scope)
    \/ NextDay

Spec == Init /\ [][Next]_vars

\* A started job goes on and the lock, for which PostgreSQL queues waiters,
\* is granted in the end; queued sync and reconciliation tasks, which asynq
\* keeps until a worker has taken them, are not passed over for ever; the
\* settings transaction ends.
Fairness ==
    /\ \A w \in Workers : /\ WF_vars(Progress(w)) /\ WF_vars(EndRun(w))
                          /\ SF_vars(ClaimExec(w)) /\ SF_vars(LeaseExec(w))
    /\ \A scope \in Scopes : SF_vars(\E w \in Workers : SyncFetch(w, scope))
    /\ SF_vars(\E w \in Workers : ReconcileList(w))
    /\ WF_vars(\E s \in SettingsSet : SettingsCommit(s))

FairSpec == Spec /\ Fairness

-----------------------------------------------------------------------------
(* Properties.                                                             *)

LocalsType == [scope : Scopes \cup {None}, old : Bids \cup {None},
               new : Bids \cup {None}, ver : Nat, cap : Nat, window : Nat,
               id : Nat, out : Statuses \cup {None}]

SnapType == [settings : SettingsSet \cup {None}, rows : Seq(ActionRow),
             day : Nat, ver : Nat]

\* Type invariant of the tables, the controls and the workers' locals.
TypeOK ==
    /\ settings \in SettingsSet
    /\ strategy \in BOOLEAN
    /\ lock \in Workers \cup {Admin, None}
    /\ acts \in Seq(ActionRow)
    /\ obs \in [Scopes -> [bid : Bids, ver : Nat, found : BOOLEAN]]
    /\ wb \in [Scopes -> Bids]
    /\ member \subseteq Scopes
    /\ day \in Nat /\ updates \in Nat /\ edits \in Nat /\ faults \in Nat
    /\ pc \in [Workers -> PCs]
    /\ loc \in [Workers -> LocalsType]
    /\ snap \in [Workers -> SnapType]
    /\ left \in [Workers -> SUBSET Scopes]
    /\ todo \in [Workers -> SUBSET Nat]
    /\ late \in [Workers -> Nat]

\* The rows up to and including i that count against the day i was checked for.
CountedUpTo(rows, i) == {j \in CountedOn(rows, rows[i].window) : j <= i}

\* The daily cap holds for real writes although claims are decided on a
\* snapshot that can be older than the lock: whenever WB has been called for
\* an action, the counted actions claimed up to it (itself included, when it
\* was claimed on the day it was checked for) are no more than the cap its
\* pre-write guard used.
WithinDailyCap ==
    \A i \in DOMAIN acts :
        acts[i].writes > 0 => /\ acts[i].grant \in Nat
                              /\ Cardinality(CountedUpTo(acts, i)) <= acts[i].grant

\* WB is called at most once for an action, whatever crashes, retries and
\* reconciliations happen, and never for one the log shows as blocked.
WriteOnce ==
    \A i \in DOMAIN acts : /\ acts[i].writes <= 1
                           /\ acts[i].status = "blocked" => acts[i].writes = 0

\* What a manual hold, a kill switch or a deactivated strategy still lets
\* through: after the change of the controls that left automation stopped,
\* every worker finishes at most one write, the one that was past its reload
\* of the controls at that moment.
AtMostOneLateWrite == ~Running => \A w \in Workers : late[w] <= 1

\* No run acts on a bid that an earlier action has already changed: as long as
\* nobody edits bids in the WB cabinet, the bid a decision was made from, which
\* was synced at any time before, is the one WB uses when the write goes out.
\* For one worker: of two, one may store an observation fetched before the
\* write of the other.
ActsOnCurrentBid ==
    edits = 0 => \A w \in Workers :
        pc[w] = "write" => wb[acts[loc[w].id].scope] = acts[loc[w].id].old

\* Two actions of unknown outcome never concern the same target, nor a target
\* and the wider one that contains it.
UnresolvedExclusive ==
    \A i, j \in DOMAIN acts :
        /\ acts[i].status \in Unresolved
        /\ acts[j].status \in Unresolved
        /\ Overlaps(acts[i].scope, acts[j].scope)
        => i = j

\* As long as nobody edits bids in the WB cabinet, the final status of an
\* action, from the WB reply or from reconciliation, says whether WB took it.
StatusTellsTheTruth ==
    edits = 0 => \A i \in DOMAIN acts :
        /\ acts[i].status = "applied" => acts[i].landed
        /\ acts[i].status \in {"failed", "not_applied"} => ~acts[i].landed
        /\ acts[i].status # "superseded"

\* The user-facing history (bid_changes) shows the final status of every
\* action that reached WB or was reconciled.
AuditAgrees ==
    \A i \in DOMAIN acts :
        acts[i].status \in Terminal \ {"blocked"} => acts[i].audit = acts[i].status

\* wb_bid_actions is a BidLedger, as long as a live worker finishes within
\* the five minutes after which reconciliation takes an action over.
Ledger == INSTANCE BidLedger WITH
    ledger <- [i \in DOMAIN acts |-> [status  |-> acts[i].status,
                                      written |-> acts[i].writes > 0]]

\* The abstract specification, as a property of this one.
LedgerSpec == Ledger!Spec

\* An action of unknown outcome is resolved in the end, unless its target has
\* left the campaign, and its target is free for automation again.
EventuallyResolved ==
    \A i \in 1..(MaxActions + Cardinality(Workers)) :
        (i \in DOMAIN acts /\ acts[i].status \in Unresolved)
            ~> /\ i \in DOMAIN acts
               /\ acts[i].status \notin Unresolved \/ acts[i].scope \notin member
=============================================================================
