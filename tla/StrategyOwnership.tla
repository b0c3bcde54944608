------------------------- MODULE StrategyOwnership -------------------------
(***************************************************************************)
(* Which live strategy owns a campaign or a product of it: StrategyService *)
(* lets two strategies with overlapping bindings exist, but not both live. *)
(* Requests that make a strategy live, or bind it, take an advisory lock   *)
(* of the workspace and check in one transaction; creating, detaching,     *)
(* deleting and the downgrade of an autopilot take no lock.                *)
(*                                                                         *)
(* One workspace.  The cabinet of a strategy or a campaign never changes.  *)
(* A binding without a campaign stands for product-only and Ozon bindings. *)
(***************************************************************************)
EXTENDS Naturals, FiniteSets

CONSTANTS
    Strategies, Campaigns, Products, Cabinets,
    CabinetOf,      \* the cabinet of every strategy and campaign
    BindingIds,     \* bound: bindings at the same time
    Clients,        \* API requests under way at the same time
    Levels,         \* automation levels requested; 0 is "not given"
    None,           \* SQL's NULL
    MaxRequests     \* bound: update and attach requests

ASSUME DomainAssumption ==
    /\ CabinetOf \in [Strategies \cup Campaigns -> Cabinets]
    /\ None \notin Campaigns \cup Products \cup Clients \cup BindingIds
    /\ Levels \subseteq Nat
    /\ MaxRequests \in Nat

VARIABLES
    status,     \* of every strategy row: absent, present, gone
    active,     \* is_active
    level,      \* params.automation_level
    bindings,   \* rows of strategy_bindings
    owner,      \* holder of the advisory lock
    pc,         \* control state of every request
    req,        \* its input
    requests    \* requests made so far

vars == <<status, active, level, bindings, owner, pc, req, requests>>

Scope == [campaign : Campaigns \cup {None}, product : Products \cup {None}]

NoScope == [campaign |-> None, product |-> None]

Update(s, a, l) == [kind |-> "update", strategy |-> s, active |-> a, level |-> l,
                    scope |-> NoScope]
Attach(s, sc)   == [kind |-> "attach", strategy |-> s, active |-> FALSE, level |-> 0,
                    scope |-> sc]

UpdateRequests == {Update(s, a, l) : s \in Strategies, a \in BOOLEAN, l \in Levels}
AttachRequests == {Attach(s, sc) : s \in Strategies, sc \in Scope}

Init ==
    /\ status = [s \in Strategies |-> "absent"]
    /\ active = [s \in Strategies |-> FALSE]
    /\ level = [s \in Strategies |-> 0]
    /\ bindings = {}
    /\ owner = None
    /\ pc = [c \in Clients |-> "idle"]
    /\ req = [c \in Clients |-> None]
    /\ requests = 0

\* strategyRequiresLiveOwnership, and the same condition in the SQL checks:
\* level 0 or none is the default level 1.
RequiresLive(a, l) == a /\ (IF l = 0 THEN 1 ELSE l) >= 3

Live(s) == status[s] = "present" /\ RequiresLive(active[s], level[s])

\* strategyBindingScopesOverlap
Overlap(x, y) ==
    /\ x.campaign # None /\ x.campaign = y.campaign
    /\ x.product = None \/ y.product = None \/ x.product = y.product

SameCabinet(s, t) == CabinetOf[s] = CabinetOf[t]

\* HasLiveStrategyOwnershipConflictForScope: the target itself is not excluded.
ConflictForScope(s, scope) ==
    \E b \in bindings :
        /\ SameCabinet(s, b.strategy)
        /\ Live(b.strategy)
        /\ Overlap(scope, b)

\* Slip: a binding conflicts with itself.
ConflictForBindingsWithItself(s) ==
    \E t \in bindings, o \in bindings :
        /\ t.strategy = s
        /\ SameCabinet(s, o.strategy)
        /\ o.strategy = s \/ Live(o.strategy)
        /\ Overlap(t, o)

\* HasLiveStrategyOwnershipConflictForBindings
ConflictForBindings(s) ==
    \E t \in bindings, o \in bindings :
        /\ t.strategy = s /\ o.id # t.id
        /\ SameCabinet(s, o.strategy)
        /\ o.strategy = s \/ Live(o.strategy)
        /\ Overlap(t, o)

Conflict(r) == IF r.kind = "update" THEN ConflictForBindings(r.strategy)
                                    ELSE ConflictForScope(r.strategy, r.scope)

-----------------------------------------------------------------------------
(* Requests under the lock: Update and AttachBinding.                      *)

Goto(c, to) == pc' = [pc EXCEPT ![c] = to]

\* Bound: an id is left for every attach request under way.
Room == LET attaching == {c \in Clients : pc[c] # "idle" /\ req[c].kind = "attach"}
        IN  Cardinality(bindings) + Cardinality(attaching) < Cardinality(BindingIds)

Receive(c, r) ==
    /\ pc[c] = "idle"
    /\ requests < MaxRequests
    /\ r.kind = "attach" => Room
    /\ requests' = requests + 1
    /\ Goto(c, "lock")
    /\ req' = [req EXCEPT ![c] = r]
    /\ UNCHANGED <<status, active, level, bindings, owner>>

\* Slip: the lock is not waited for.
BeginTxAtOnce(c) ==
    /\ pc[c] = "lock"
    /\ owner' = c
    /\ Goto(c, "load")
    /\ UNCHANGED <<status, active, level, bindings, req, requests>>

\* BeginStrategyOwnershipTx waits for the lock in a statement of its own, so
\* the statements that follow see what the holder before it has committed.
BeginTx(c) ==
    /\ pc[c] = "lock"
    /\ owner = None
    /\ owner' = c
    /\ Goto(c, "load")
    /\ UNCHANGED <<status, active, level, bindings, req, requests>>

\* Slip: a refused request keeps its transaction, and the lock, open.
RollbackLeaks(c) ==
    /\ Goto(c, "idle")
    /\ req' = [req EXCEPT ![c] = None]
    /\ UNCHANGED <<status, active, level, bindings, owner, requests>>

\* The deferred rollback; the end of the transaction releases the lock.
Rollback(c) ==
    /\ Goto(c, "idle")
    /\ req' = [req EXCEPT ![c] = None]
    /\ owner' = IF owner = c THEN None ELSE owner
    /\ UNCHANGED <<status, active, level, bindings, requests>>

\* Will the strategy be live, or is the one to bind live?
WantsLive(r) == IF r.kind = "update" THEN RequiresLive(r.active, r.level)
                                     ELSE RequiresLive(active[r.strategy], level[r.strategy])

Load(c) ==
    /\ pc[c] = "load"
    /\ IF status[req[c].strategy] # "present" THEN Rollback(c)
       ELSE /\ Goto(c, IF WantsLive(req[c]) THEN "check" ELSE "write")
            /\ UNCHANGED <<status, active, level, bindings, owner, req, requests>>

Check(c) ==
    /\ pc[c] = "check"
    /\ IF Conflict(req[c]) THEN Rollback(c)
       ELSE /\ Goto(c, "write")
            /\ UNCHANGED <<status, active, level, bindings, owner, req, requests>>

\* Does the statement find its rows?  The campaign of a binding belongs to the
\* cabinet of its strategy.
Writable(r) ==
    /\ status[r.strategy] = "present"
    /\ r.scope.campaign # None => SameCabinet(r.strategy, r.scope.campaign)

\* UPDATE strategies, or INSERT INTO strategy_bindings and the rollout row.
\* From here the row of the strategy is locked until the transaction ends.
Write(c) ==
    /\ pc[c] = "write"
    /\ IF ~Writable(req[c]) THEN Rollback(c)
       ELSE /\ Goto(c, "commit")
            /\ UNCHANGED <<status, active, level, bindings, owner, req, requests>>

CommitUpdate(r) ==
    /\ active' = [active EXCEPT ![r.strategy] = r.active]
    /\ level' = [level EXCEPT ![r.strategy] = r.level]
    /\ UNCHANGED bindings

NewBinding(id, r) == [id |-> id, strategy |-> r.strategy,
                      campaign |-> r.scope.campaign, product |-> r.scope.product]

FreeIds == BindingIds \ {b.id : b \in bindings}

CommitAttach(r) ==
    /\ \E id \in FreeIds : bindings' = bindings \cup {NewBinding(id, r)}
    /\ UNCHANGED <<active, level>>

Commit(c) ==
    /\ pc[c] = "commit"
    /\ IF req[c].kind = "update" THEN CommitUpdate(req[c]) ELSE CommitAttach(req[c])
    /\ Goto(c, "idle")
    /\ req' = [req EXCEPT ![c] = None]
    /\ owner' = None
    /\ UNCHANGED <<status, requests>>

\* A statement fails, the commit fails, the client goes away, the API dies.
Fail(c) == pc[c] # "idle" /\ Rollback(c)

-----------------------------------------------------------------------------
(* Statements without the lock.                                            *)

\* Is the row of the strategy locked by a transaction that changed it?
RowLocked(s, kinds) ==
    \E c \in Clients : pc[c] = "commit" /\ req[c].strategy = s /\ req[c].kind \in kinds

Create(s, a, l) ==
    /\ status[s] = "absent"
    /\ status' = [status EXCEPT ![s] = "present"]
    /\ active' = [active EXCEPT ![s] = a]
    /\ level' = [level EXCEPT ![s] = l]
    /\ UNCHANGED <<bindings, owner, pc, req, requests>>

\* Cascades to the bindings; waits for a locked row.
Delete(s) ==
    /\ status[s] = "present"
    /\ ~RowLocked(s, {"update", "attach"})
    /\ status' = [status EXCEPT ![s] = "gone"]
    /\ active' = [active EXCEPT ![s] = FALSE]
    /\ level' = [level EXCEPT ![s] = 0]
    /\ bindings' = {b \in bindings : b.strategy # s}
    /\ UNCHANGED <<owner, pc, req, requests>>

DetachBinding(id) ==
    /\ \E b \in bindings : b.id = id
    /\ bindings' = {b \in bindings : b.id # id}
    /\ UNCHANGED <<status, active, level, owner, pc, req, requests>>

\* DowngradeOzonAIForImpact: waits for an update of the row, not for a binding.
Downgrade(s) ==
    /\ status[s] = "present" /\ active[s] /\ level[s] = 3
    /\ ~RowLocked(s, {"update"})
    /\ level' = [level EXCEPT ![s] = 2]
    /\ UNCHANGED <<status, active, bindings, owner, pc, req, requests>>

-----------------------------------------------------------------------------
ClientStep(c) ==
    \/ \E r \in UpdateRequests : Receive(c, r)
    \/ \E r \in AttachRequests : Receive(c, r)
    \/ BeginTx(c) \/ Load(c) \/ Check(c) \/ Write(c) \/ Commit(c) \/ Fail(c)

StrategyStep(s) ==
    \/ \E a \in BOOLEAN, l \in Levels : Create(s, a, l)
    \/ Delete(s) \/ Downgrade(s)

Next ==
    \/ \E c \in Clients : ClientStep(c)
    \/ \E s \in Strategies : StrategyStep(s)
    \/ \E id \in BindingIds : DetachBinding(id)

Spec == Init /\ [][Next]_vars

-----------------------------------------------------------------------------
Binding == [id : BindingIds, strategy : Strategies,
            campaign : Campaigns \cup {None}, product : Products \cup {None}]

InTx == {"load", "check", "write", "commit"}

\* Type invariant of the rows, the lock and the requests.
TypeOK ==
    /\ status \in [Strategies -> {"absent", "present", "gone"}]
    /\ active \in [Strategies -> BOOLEAN]
    /\ level \in [Strategies -> Nat]
    /\ bindings \subseteq Binding
    /\ owner \in Clients \cup {None}
    /\ pc \in [Clients -> {"idle", "lock"} \cup InTx]
    /\ req \in [Clients -> UpdateRequests \cup AttachRequests \cup {None}]
    /\ \A c \in Clients : pc[c] # "idle" => req[c] \in UpdateRequests \cup AttachRequests
    /\ requests \in Nat

\* At any time a campaign, or a product of it, has at most one binding of a
\* live strategy, of whatever cabinet: no two strategies write the same bid.
OneLiveOwner ==
    \A b, d \in bindings :
        b.id # d.id /\ Live(b.strategy) /\ Live(d.strategy) => ~Overlap(b, d)

\* The owners if the request were granted.
LiveIf(r, s) ==
    IF r.kind = "update" /\ s = r.strategy THEN RequiresLive(r.active, r.level) ELSE Live(s)

ClashIf(r) ==
    LET owners == {b \in bindings : LiveIf(r, b.strategy)}
    IN  \/ \E b, d \in owners : b.id # d.id /\ Overlap(b, d)
        \/ /\ r.kind = "attach" /\ Live(r.strategy)
           /\ \E b \in owners : Overlap(r.scope, b)

\* The ownership check refuses exactly the requests that would give a scope
\* two live owners: the SQL conditions agree with strategyBindingScopesOverlap.
RefusalIsExact ==
    \A c \in Clients :
        pc[c] = "check" /\ Writable(req[c])
            /\ (req[c].kind = "attach" => Live(req[c].strategy))
        => (Conflict(req[c]) <=> ClashIf(req[c]))

\* The lock is held only by a request inside its transaction: no refusal,
\* failure or commit leaves the other requests of the workspace waiting.
LockNotLeaked == owner # None => pc[owner] \in InTx
=============================================================================
