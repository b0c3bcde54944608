----------------------- MODULE StrategyOwnershipProofs -----------------------
(***************************************************************************)
(* Proof that a scope never has two live owners, and that the check which  *)
(* sees to it refuses nothing else, for any number of strategies, bindings *)
(* and concurrent requests.                                                *)
(***************************************************************************)
EXTENDS StrategyOwnership, TLAPS

Requests == UpdateRequests \cup AttachRequests

LEMMA RequestFields ==
    ASSUME NEW r \in Requests
    PROVE  /\ r.kind \in {"update", "attach"}
           /\ r.strategy \in Strategies /\ r.active \in BOOLEAN /\ r.level \in Nat
           /\ r.scope.campaign \in Campaigns \cup {None}
           /\ r.scope.product \in Products \cup {None}
<1>1. CASE r \in UpdateRequests
  <2>1. PICK s \in Strategies, a \in BOOLEAN, l \in Levels : r = Update(s, a, l)
    BY <1>1 DEF UpdateRequests
  <2>2. l \in Nat
    BY DomainAssumption
  <2> QED BY <2>1, <2>2 DEF Update, NoScope
<1>2. CASE r \in AttachRequests
  <2>1. PICK s \in Strategies, sc \in Scope : r = Attach(s, sc)
    BY <1>2 DEF AttachRequests
  <2> QED BY <2>1 DEF Attach, Scope
<1> QED BY <1>1, <1>2 DEF Requests

LEMMA InitType == Init => TypeOK
BY DEF Init, TypeOK

\* What the end of a request without effect leaves behind.
LEMMA RollbackType == ASSUME TypeOK, NEW c \in Clients, Rollback(c) PROVE TypeOK'
BY DEF TypeOK, Rollback, Goto

LEMMA NextType == ASSUME TypeOK, [Next]_vars PROVE TypeOK'
<1> USE DEF TypeOK
<1>1. CASE UNCHANGED vars
  BY <1>1 DEF vars
<1>2. ASSUME NEW c \in Clients, ClientStep(c) PROVE TypeOK'
  <2>1. ASSUME NEW r \in Requests, Receive(c, r) PROVE TypeOK'
    BY <2>1 DEF Receive, Goto, Requests
  <2>2. CASE BeginTx(c)
    BY <2>2 DEF BeginTx, Goto, InTx
  <2>3. CASE Load(c)
    BY <2>3, RollbackType DEF Load, Goto, InTx
  <2>4. CASE Check(c)
    BY <2>4, RollbackType DEF Check, Goto, InTx
  <2>5. CASE Write(c)
    BY <2>5, RollbackType DEF Write, Goto, InTx
  <2>6. CASE Commit(c)
    <3>1. req[c] \in Requests
      BY <2>6 DEF Commit, Requests
    <3>2. active' \in [Strategies -> BOOLEAN] /\ level' \in [Strategies -> Nat]
      BY <2>6, <3>1, RequestFields DEF Commit, CommitUpdate, CommitAttach
    <3>3. bindings' \subseteq Binding
      <4>1. \A id \in FreeIds : NewBinding(id, req[c]) \in Binding
        BY <3>1, RequestFields DEF NewBinding, Binding, FreeIds
      <4> QED BY <2>6, <4>1 DEF Commit, CommitUpdate, CommitAttach
    <3> QED BY <2>6, <3>2, <3>3 DEF Commit, Goto, InTx
  <2>7. CASE Fail(c)
    BY <2>7, RollbackType DEF Fail
  <2> QED BY <1>2, <2>1, <2>2, <2>3, <2>4, <2>5, <2>6, <2>7 DEF ClientStep, Requests
<1>3. ASSUME NEW s \in Strategies, StrategyStep(s) PROVE TypeOK'
  <2>1. ASSUME NEW a \in BOOLEAN, NEW l \in Levels, Create(s, a, l) PROVE TypeOK'
    BY <2>1, DomainAssumption DEF Create
  <2>2. CASE Delete(s)
    BY <2>2 DEF Delete
  <2>3. CASE Downgrade(s)
    BY <2>3 DEF Downgrade
  <2> QED BY <1>3, <2>1, <2>2, <2>3 DEF StrategyStep
<1>4. ASSUME NEW id \in BindingIds, DetachBinding(id) PROVE TypeOK'
  BY <1>4 DEF DetachBinding
<1> QED BY <1>1, <1>2, <1>3, <1>4 DEF Next

\* The strategies, the bindings, the lock and the requests keep their types.
THEOREM TypeCorrect == Spec => []TypeOK
BY InitType, NextType, PTL DEF Spec

-----------------------------------------------------------------------------
\* The request may be committed: it brings about no second owner.
Clear(r) ==
    IF r.kind = "update"
    THEN RequiresLive(r.active, r.level) => ~ConflictForBindings(r.strategy)
    ELSE Live(r.strategy) => ~ConflictForScope(r.strategy, r.scope)

\* Bindings belong to a strategy that exists, and to campaigns of its cabinet:
\* the conflict checks look at one cabinet only.
AtHome ==
    \A b \in bindings :
        /\ status[b.strategy] = "present"
        /\ b.campaign # None => SameCabinet(b.strategy, b.campaign)

\* Only the holder of the lock is inside its transaction, and it is.
Locked == LockNotLeaked /\ \A c \in Clients : pc[c] \in InTx => owner = c

\* What a transaction has found out so far stays true until it commits.
Checked ==
    \A c \in Clients :
        /\ pc[c] \in {"check", "write", "commit"} => status[req[c].strategy] # "absent"
        /\ pc[c] \in {"write", "commit"} => Clear(req[c])
        /\ pc[c] = "commit" => Writable(req[c])

OwnerInv == TypeOK /\ OneLiveOwner /\ AtHome /\ Locked /\ Checked

LEMMA InitOwner == Init => OwnerInv
<1> SUFFICES ASSUME Init PROVE OwnerInv
  OBVIOUS
<1> QED BY InitType DEF OwnerInv, OneLiveOwner, AtHome, Locked, LockNotLeaked, Checked, Init,
          InTx

LEMMA OverlapSymmetric == \A x, y : Overlap(x, y) => Overlap(y, x)
BY DEF Overlap

\* Fewer bindings and fewer live strategies keep what was found out.
LEMMA Shrink ==
    ASSUME TypeOK, OwnerInv, NEW r \in Requests,
           bindings' \subseteq bindings,
           \A b \in bindings : Live(b.strategy)' => Live(b.strategy),
           Live(r.strategy)' => Live(r.strategy),
           Clear(r)
    PROVE  Clear(r)'
<1>1. ConflictForBindings(r.strategy)' => ConflictForBindings(r.strategy)
  BY DEF ConflictForBindings, SameCabinet, Overlap
<1>2. ConflictForScope(r.strategy, r.scope)' => ConflictForScope(r.strategy, r.scope)
  BY DEF ConflictForScope, SameCabinet, Overlap
<1> QED BY <1>1, <1>2 DEF Clear

LEMMA ShrinkOwners ==
    ASSUME OneLiveOwner, bindings' \subseteq bindings,
           \A b \in bindings : Live(b.strategy)' => Live(b.strategy)
    PROVE  OneLiveOwner'
BY DEF OneLiveOwner, Overlap

\* A step of one request that changes no row.
LEMMA SameRows ==
    ASSUME OwnerInv, UNCHANGED <<status, active, level, bindings>>
    PROVE  /\ OneLiveOwner' /\ AtHome'
           /\ \A r : (Clear(r)' <=> Clear(r)) /\ (Writable(r)' <=> Writable(r))
BY DEF OwnerInv, OneLiveOwner, AtHome, Clear, Writable, Live, ConflictForBindings,
   ConflictForScope, SameCabinet, Overlap

LEMMA RollbackOwner == ASSUME OwnerInv, NEW c \in Clients, Rollback(c) PROVE OwnerInv'
<1>1. TypeOK /\ TypeOK'
  BY RollbackType DEF OwnerInv
<1>2. /\ OneLiveOwner' /\ AtHome'
      /\ \A r : (Clear(r)' <=> Clear(r)) /\ (Writable(r)' <=> Writable(r))
  BY SameRows DEF Rollback
<1>3. \A d \in Clients : d # c => pc'[d] = pc[d] /\ req'[d] = req[d]
  BY <1>1 DEF Rollback, Goto, TypeOK
<1>4. pc'[c] = "idle"
  BY <1>1 DEF Rollback, Goto, TypeOK
<1>5. Locked'
  BY <1>1, <1>3, <1>4 DEF OwnerInv, Locked, LockNotLeaked, InTx, Rollback, TypeOK
<1>6. Checked'
  BY <1>1, <1>2, <1>3, <1>4 DEF OwnerInv, Checked, Rollback
<1> QED BY <1>1, <1>2, <1>5, <1>6 DEF OwnerInv

\* A request moves on inside its transaction and changes no row.
LEMMA StepOwner ==
    ASSUME OwnerInv, TypeOK', NEW c \in Clients, NEW to,
           UNCHANGED <<status, active, level, bindings, owner, req>>,
           pc' = [pc EXCEPT ![c] = to],
           owner = c, to \in InTx,
           to \in {"check", "write", "commit"} => status[req[c].strategy] # "absent",
           to \in {"write", "commit"} => Clear(req[c]),
           to = "commit" => Writable(req[c])
    PROVE  OwnerInv'
<1>1. TypeOK
  BY DEF OwnerInv
<1>2. /\ OneLiveOwner' /\ AtHome'
      /\ \A r : (Clear(r)' <=> Clear(r)) /\ (Writable(r)' <=> Writable(r))
  BY SameRows
<1>3. /\ \A d \in Clients : d # c => pc'[d] = pc[d]
      /\ pc'[c] = to
  BY <1>1 DEF TypeOK
<1>4. Locked'
  BY <1>3 DEF OwnerInv, Locked, LockNotLeaked
<1>5. Checked'
  BY <1>2, <1>3 DEF OwnerInv, Checked
<1> QED BY <1>2, <1>4, <1>5 DEF OwnerInv

\* An update that commits leaves every scope with one live owner: a second one
\* would be a binding the check has looked at, for bindings of one campaign
\* belong to strategies of one cabinet.
LEMMA UpdateOwner ==
    ASSUME OwnerInv, NEW r \in Requests, r.kind = "update", Clear(r), CommitUpdate(r),
           UNCHANGED status
    PROVE  OneLiveOwner'
<1>1. TypeOK /\ r.strategy \in Strategies /\ r.active \in BOOLEAN /\ r.level \in Nat
  BY RequestFields DEF OwnerInv
<1>2. \A s \in Strategies : s # r.strategy => (Live(s)' <=> Live(s))
  BY <1>1 DEF CommitUpdate, Live, TypeOK
<1>3. Live(r.strategy)' => RequiresLive(r.active, r.level)
  BY <1>1 DEF CommitUpdate, Live, TypeOK
<1>4. bindings' = bindings /\ \A b \in bindings : b.strategy \in Strategies
  BY <1>1 DEF CommitUpdate, TypeOK, Binding
<1>5. ASSUME NEW b \in bindings, NEW d \in bindings, b.id # d.id, b.strategy = r.strategy,
             Live(b.strategy)', Live(d.strategy)', Overlap(b, d)
      PROVE  FALSE
  <2>1. ~ConflictForBindings(r.strategy)
    BY <1>3, <1>5 DEF Clear
  <2>2. SameCabinet(r.strategy, d.strategy)
    BY <1>5 DEF OwnerInv, AtHome, SameCabinet, Overlap
  <2>3. d.strategy = r.strategy \/ Live(d.strategy)
    BY <1>2, <1>4, <1>5
  <2> QED BY <1>5, <2>1, <2>2, <2>3 DEF ConflictForBindings
<1>6. ASSUME NEW b \in bindings, NEW d \in bindings, b.id # d.id,
             Live(b.strategy)', Live(d.strategy)', Overlap(b, d)
      PROVE  FALSE
  <2>1. CASE b.strategy = r.strategy
    BY <1>5, <1>6, <2>1
  <2>2. CASE d.strategy = r.strategy
    <3>1. Overlap(d, b)
      BY <1>6, OverlapSymmetric
    <3> QED BY <1>5, <1>6, <2>2, <3>1
  <2>3. CASE b.strategy # r.strategy /\ d.strategy # r.strategy
    <3>1. Live(b.strategy) /\ Live(d.strategy)
      BY <1>2, <1>4, <1>6, <2>3
    <3> QED BY <1>6, <3>1 DEF OwnerInv, OneLiveOwner
  <2> QED BY <2>1, <2>2, <2>3
<1>7. \A b, d \in bindings : Overlap(b, d)' <=> Overlap(b, d)
  BY DEF Overlap
<1> QED BY <1>4, <1>6, <1>7 DEF OneLiveOwner

LEMMA AttachOwner ==
    ASSUME OwnerInv, NEW r \in Requests, r.kind # "update", Clear(r), Writable(r),
           NEW id \in FreeIds, bindings' = bindings \cup {NewBinding(id, r)},
           UNCHANGED <<status, active, level>>
    PROVE  OneLiveOwner' /\ AtHome'
<1> DEFINE n == NewBinding(id, r)
<1>1. /\ n.id = id /\ n.strategy = r.strategy
      /\ n.campaign = r.scope.campaign /\ n.product = r.scope.product
  BY DEF NewBinding
<1>2. \A s : Live(s)' <=> Live(s)
  BY DEF Live
<1>3. ASSUME NEW d \in bindings, Live(r.strategy), Live(d.strategy), Overlap(n, d)
      PROVE  FALSE
  <2>1. ~ConflictForScope(r.strategy, r.scope)
    BY <1>3 DEF Clear
  <2>2. SameCabinet(r.strategy, d.strategy)
    BY <1>1, <1>3 DEF OwnerInv, AtHome, Writable, SameCabinet, Overlap
  <2>3. Overlap(r.scope, d)
    BY <1>1, <1>3 DEF Overlap
  <2> QED BY <1>3, <2>1, <2>2, <2>3 DEF ConflictForScope
<1>4. AtHome'
  <2>1. status[n.strategy] = "present" /\ (n.campaign # None => SameCabinet(n.strategy, n.campaign))
    BY <1>1 DEF Writable
  <2> QED BY <2>1 DEF OwnerInv, AtHome, SameCabinet
<1>5. ASSUME NEW b \in bindings', NEW d \in bindings', b.id # d.id,
             Live(b.strategy), Live(d.strategy), Overlap(b, d)
      PROVE  FALSE
  <2>1. CASE b \in bindings /\ d \in bindings
    BY <1>5, <2>1 DEF OwnerInv, OneLiveOwner
  <2>2. CASE b = n /\ d \in bindings
    BY <1>1, <1>3, <1>5, <2>2
  <2>3. CASE b \in bindings /\ d = n
    <3>1. Overlap(d, b)
      BY <1>5, OverlapSymmetric
    <3> QED BY <1>1, <1>3, <1>5, <2>3, <3>1
  <2>4. CASE b = n /\ d = n
    BY <1>5, <2>4
  <2> QED BY <2>1, <2>2, <2>3, <2>4
<1>6. OneLiveOwner'
  <2>1. \A b, d : Overlap(b, d)' <=> Overlap(b, d)
    BY DEF Overlap
  <2> QED BY <1>2, <1>5, <2>1 DEF OneLiveOwner
<1> QED BY <1>4, <1>6

LEMMA CommitOwner ==
    ASSUME OwnerInv, TypeOK', NEW c \in Clients, Commit(c)
    PROVE  OwnerInv'
<1>1. TypeOK /\ pc[c] = "commit" /\ req[c] \in Requests
  BY DEF OwnerInv, Commit, TypeOK, Requests
<1>2. Clear(req[c]) /\ Writable(req[c])
  BY <1>1 DEF OwnerInv, Checked
<1>3. owner = c /\ \A d \in Clients : d # c => pc[d] \notin InTx
  BY <1>1 DEF OwnerInv, Locked, InTx
<1>4. \A d \in Clients : pc'[d] \notin InTx
  BY <1>1, <1>3 DEF Commit, Goto, TypeOK, InTx
<1>5. Locked' /\ Checked'
  BY <1>4 DEF Locked, LockNotLeaked, Checked, InTx, Commit
<1>6. CASE req[c].kind = "update"
  <2>1. CommitUpdate(req[c]) /\ UNCHANGED status
    BY <1>6 DEF Commit
  <2>2. OneLiveOwner'
    BY <1>1, <1>2, <1>6, <2>1, UpdateOwner
  <2>3. AtHome'
    BY <2>1 DEF OwnerInv, AtHome, CommitUpdate, SameCabinet
  <2> QED BY <1>5, <2>2, <2>3 DEF OwnerInv
<1>7. CASE req[c].kind # "update"
  <2>1. PICK id \in FreeIds : bindings' = bindings \cup {NewBinding(id, req[c])}
    BY <1>7 DEF Commit, CommitAttach
  <2>2. UNCHANGED <<status, active, level>>
    BY <1>7 DEF Commit, CommitAttach
  <2>3. OneLiveOwner' /\ AtHome'
    BY <1>1, <1>2, <1>7, <2>1, <2>2, AttachOwner
  <2> QED BY <1>5, <2>3 DEF OwnerInv
<1> QED BY <1>6, <1>7

\* Statements without the lock: they take owners away, or create a strategy
\* nothing is bound to and no request has seen.
LEMMA FreeStatement ==
    ASSUME OwnerInv, TypeOK', UNCHANGED <<owner, pc, req>>,
           bindings' \subseteq bindings,
           \A b \in bindings : Live(b.strategy)' => Live(b.strategy),
           \A b \in bindings' : status'[b.strategy] = "present",
           \A s \in Strategies :
               status[s] # "absent" => status'[s] # "absent" /\ (Live(s)' => Live(s)),
           \A c \in Clients : pc[c] = "commit" /\ status[req[c].strategy] = "present"
               => status'[req[c].strategy] = "present"
    PROVE  OwnerInv'
<1>1. TypeOK
  BY DEF OwnerInv
<1>2. OneLiveOwner'
  BY ShrinkOwners DEF OwnerInv
<1>3. AtHome'
  BY DEF OwnerInv, AtHome, SameCabinet
<1>4. Locked'
  BY DEF OwnerInv, Locked, LockNotLeaked
<1>5. ASSUME NEW c \in Clients, pc[c] # "idle"
      PROVE  req[c] \in Requests /\ req[c].strategy \in Strategies
  BY <1>1, <1>5, RequestFields DEF TypeOK, Requests
<1>6. ASSUME NEW c \in Clients, pc[c] \in {"write", "commit"} PROVE Clear(req[c])'
  <2>1. /\ req[c] \in Requests /\ req[c].strategy \in Strategies
        /\ status[req[c].strategy] # "absent" /\ Clear(req[c])
    BY <1>5, <1>6 DEF OwnerInv, Checked
  <2>2. PICK r \in Requests : r = req[c] /\ r = req'[c]
    BY <2>1
  <2>3. Clear(r)'
    BY <1>1, <2>1, <2>2, Shrink
  <2> QED BY <2>2, <2>3
<1>7. ASSUME NEW c \in Clients, pc[c] = "commit" PROVE Writable(req[c])'
  BY <1>7 DEF OwnerInv, Checked, Writable, SameCabinet
<1>8. \A c \in Clients :
        pc[c] \in {"check", "write", "commit"} => status'[req[c].strategy] # "absent"
  BY <1>5 DEF OwnerInv, Checked
<1>9. Checked'
  BY <1>6, <1>7, <1>8 DEF Checked
<1> QED BY <1>2, <1>3, <1>4, <1>9 DEF OwnerInv

LEMMA NextOwner == ASSUME OwnerInv, [Next]_vars PROVE OwnerInv'
<1>1. TypeOK /\ TypeOK'
  BY NextType DEF OwnerInv
<1>2. CASE UNCHANGED vars
  <2>1. UNCHANGED <<status, active, level, bindings, owner, pc, req>>
    BY <1>2 DEF vars
  <2>2. /\ OneLiveOwner' /\ AtHome'
        /\ \A r : (Clear(r)' <=> Clear(r)) /\ (Writable(r)' <=> Writable(r))
    BY <2>1, SameRows
  <2>3. Locked' /\ Checked'
    BY <2>1, <2>2 DEF OwnerInv, Locked, LockNotLeaked, Checked
  <2> QED BY <1>1, <2>2, <2>3 DEF OwnerInv
<1>3. ASSUME NEW c \in Clients, ClientStep(c) PROVE OwnerInv'
  <2>1. ASSUME NEW r \in Requests, Receive(c, r) PROVE OwnerInv'
    <3>1. /\ OneLiveOwner' /\ AtHome'
          /\ \A q : (Clear(q)' <=> Clear(q)) /\ (Writable(q)' <=> Writable(q))
      BY <2>1, SameRows DEF Receive
    <3>2. /\ \A d \in Clients : d # c => pc'[d] = pc[d] /\ req'[d] = req[d]
          /\ pc'[c] = "lock"
      BY <1>1, <2>1 DEF Receive, Goto, TypeOK
    <3>3. Locked' /\ Checked'
      BY <1>1, <2>1, <3>1, <3>2 DEF OwnerInv, Locked, LockNotLeaked, Checked, InTx, Receive,
         TypeOK
    <3> QED BY <1>1, <3>1, <3>3 DEF OwnerInv
  <2>2. CASE BeginTx(c)
    <3>1. /\ OneLiveOwner' /\ AtHome'
          /\ \A q : (Clear(q)' <=> Clear(q)) /\ (Writable(q)' <=> Writable(q))
      BY <2>2, SameRows DEF BeginTx
    <3>2. \A d \in Clients : pc[d] \notin InTx
      BY <2>2, DomainAssumption DEF OwnerInv, Locked, BeginTx
    <3>3. /\ \A d \in Clients : d # c => pc'[d] = pc[d] /\ req'[d] = req[d]
          /\ pc'[c] = "load" /\ owner' = c
      BY <1>1, <2>2 DEF BeginTx, Goto, TypeOK
    <3>4. Locked' /\ Checked'
      BY <3>2, <3>3 DEF Locked, LockNotLeaked, Checked, InTx
    <3> QED BY <1>1, <3>1, <3>4 DEF OwnerInv
  <2>3. CASE Load(c)
    <3>1. owner = c
      BY <2>3 DEF OwnerInv, Locked, InTx, Load
    <3>2. CASE status[req[c].strategy] # "present"
      BY <2>3, <3>2, RollbackOwner DEF Load
    <3>3. CASE status[req[c].strategy] = "present" /\ WantsLive(req[c])
      BY <1>1, <2>3, <3>1, <3>3, StepOwner DEF Load, Goto, InTx
    <3>4. CASE status[req[c].strategy] = "present" /\ ~WantsLive(req[c])
      <4>1. Clear(req[c])
        BY <3>4 DEF Clear, WantsLive, Live
      <4> QED BY <1>1, <2>3, <3>1, <3>4, <4>1, StepOwner DEF Load, Goto, InTx
    <3> QED BY <3>2, <3>3, <3>4
  <2>4. CASE Check(c)
    <3>1. owner = c /\ status[req[c].strategy] # "absent"
      BY <2>4 DEF OwnerInv, Locked, Checked, InTx, Check
    <3>2. CASE Conflict(req[c])
      BY <2>4, <3>2, RollbackOwner DEF Check
    <3>3. CASE ~Conflict(req[c])
      <4>1. Clear(req[c])
        BY <3>3 DEF Clear, Conflict
      <4> QED BY <1>1, <2>4, <3>1, <3>3, <4>1, StepOwner DEF Check, Goto, InTx
    <3> QED BY <3>2, <3>3
  <2>5. CASE Write(c)
    <3>1. owner = c /\ status[req[c].strategy] # "absent" /\ Clear(req[c])
      BY <2>5 DEF OwnerInv, Locked, Checked, InTx, Write
    <3>2. CASE ~Writable(req[c])
      BY <2>5, <3>2, RollbackOwner DEF Write
    <3>3. CASE Writable(req[c])
      BY <1>1, <2>5, <3>1, <3>3, StepOwner DEF Write, Goto, InTx
    <3> QED BY <3>2, <3>3
  <2>6. CASE Commit(c)
    BY <1>1, <2>6, CommitOwner
  <2>7. CASE Fail(c)
    BY <2>7, RollbackOwner DEF Fail
  <2> QED BY <1>3, <2>1, <2>2, <2>3, <2>4, <2>5, <2>6, <2>7 DEF ClientStep, Requests
<1>4. ASSUME NEW s \in Strategies, StrategyStep(s) PROVE OwnerInv'
  <2>1. ASSUME NEW a \in BOOLEAN, NEW l \in Levels, Create(s, a, l) PROVE OwnerInv'
    <3>1. \A t \in Strategies : t # s => status'[t] = status[t] /\ (Live(t)' <=> Live(t))
      BY <1>1, <2>1 DEF Create, Live, TypeOK
    <3>2. \A b \in bindings : b.strategy \in Strategies /\ b.strategy # s
      BY <1>1, <2>1 DEF OwnerInv, AtHome, Create, TypeOK, Binding
    <3>3. status[s] = "absent" /\ status'[s] = "present"
          /\ UNCHANGED <<bindings, owner, pc, req>>
      BY <1>1, <2>1 DEF Create, TypeOK
    <3>4. \A b \in bindings : status'[b.strategy] = "present"
      BY <3>1, <3>2 DEF OwnerInv, AtHome
    <3>5. \A c \in Clients : pc[c] = "commit" => req[c].strategy \in Strategies
      BY <1>1, RequestFields DEF TypeOK, Requests
    <3> QED BY <1>1, <3>1, <3>2, <3>3, <3>4, <3>5, FreeStatement
  <2>2. CASE Delete(s)
    <3>1. \A t \in Strategies : t # s => status'[t] = status[t] /\ (Live(t)' <=> Live(t))
      BY <1>1, <2>2 DEF Delete, Live, TypeOK
    <3>2. status'[s] = "gone" /\ ~Live(s)' /\ UNCHANGED <<owner, pc, req>>
      BY <1>1, <2>2 DEF Delete, Live, TypeOK
    <3>3. /\ bindings' \subseteq bindings
          /\ \A b \in bindings' : b.strategy # s
          /\ \A b \in bindings : b.strategy \in Strategies
      BY <1>1, <2>2 DEF Delete, TypeOK, Binding
    <3>4. \A b \in bindings' : status'[b.strategy] = "present"
      BY <3>1, <3>3 DEF OwnerInv, AtHome
    <3>5. \A c \in Clients :
            pc[c] = "commit" => req[c].strategy \in Strategies /\ req[c].strategy # s
      BY <1>1, <2>2, RequestFields DEF TypeOK, Requests, Delete, RowLocked
    <3> QED BY <1>1, <3>1, <3>2, <3>3, <3>4, <3>5, FreeStatement
  <2>3. CASE Downgrade(s)
    <3>1. UNCHANGED <<status, bindings, owner, pc, req>>
      BY <2>3 DEF Downgrade
    <3>2. \A t \in Strategies : Live(t)' => Live(t)
      BY <1>1, <2>3 DEF Downgrade, Live, RequiresLive, TypeOK
    <3>3. \A b \in bindings : b.strategy \in Strategies
      BY <1>1 DEF TypeOK, Binding
    <3>4. \A b \in bindings' : status'[b.strategy] = "present"
      BY <3>1 DEF OwnerInv, AtHome
    <3> QED BY <1>1, <3>1, <3>2, <3>3, <3>4, FreeStatement
  <2> QED BY <1>4, <2>1, <2>2, <2>3 DEF StrategyStep
<1>5. ASSUME NEW id \in BindingIds, DetachBinding(id) PROVE OwnerInv'
  <2>1. UNCHANGED <<status, active, level, owner, pc, req>> /\ bindings' \subseteq bindings
    BY <1>5 DEF DetachBinding
  <2>2. \A t : Live(t)' <=> Live(t)
    BY <2>1 DEF Live
  <2>3. \A b \in bindings' : status'[b.strategy] = "present"
    BY <2>1 DEF OwnerInv, AtHome
  <2> QED BY <1>1, <2>1, <2>2, <2>3, FreeStatement
<1> QED BY <1>2, <1>3, <1>4, <1>5 DEF Next

\* A campaign, or a product of it, never has the bindings of two live
\* strategies, nor two of one: the ownership lock, and the check under it,
\* suffice although deletions and downgrades take no lock.
THEOREM SingleOwner == Spec => []OneLiveOwner
<1>1. OwnerInv => OneLiveOwner
  BY DEF OwnerInv
<1> QED BY <1>1, InitOwner, NextOwner, PTL DEF Spec

\* The ownership lock is held by a request inside its transaction or by none.
THEOREM LockIsReturned == Spec => []LockNotLeaked
<1>1. OwnerInv => LockNotLeaked
  BY DEF OwnerInv, Locked
<1> QED BY <1>1, InitOwner, NextOwner, PTL DEF Spec

-----------------------------------------------------------------------------
\* Load sends an update to the check only if the strategy is to be live.
Aimed == \A c \in Clients : pc[c] = "check" /\ req[c].kind = "update" =>
             RequiresLive(req[c].active, req[c].level)

LEMMA NextAimed == ASSUME OwnerInv, Aimed, [Next]_vars PROVE Aimed'
<1>0. pc \in [Clients -> {"idle", "lock"} \cup InTx]
      /\ req \in [Clients -> UpdateRequests \cup AttachRequests \cup {None}]
  BY DEF OwnerInv, TypeOK
<1>1. CASE UNCHANGED <<pc, req>>
  BY <1>1 DEF Aimed
<1>2. ASSUME NEW c \in Clients, pc'[c] # "check",
             \A d \in Clients \ {c} : pc'[d] = pc[d] /\ req'[d] = req[d]
      PROVE  Aimed'
  BY <1>2 DEF Aimed
<1>3. ASSUME NEW c \in Clients, Rollback(c) PROVE Aimed'
  BY <1>0, <1>2, <1>3 DEF Rollback, Goto
<1>4. ASSUME NEW c \in Clients, ClientStep(c) PROVE Aimed'
  <2>1. ASSUME NEW r \in Requests, Receive(c, r) PROVE Aimed'
    BY <1>0, <1>2, <2>1 DEF Receive, Goto
  <2>2. CASE BeginTx(c)
    BY <1>0, <1>2, <2>2 DEF BeginTx, Goto
  <2>3. CASE Load(c)
    <3>1. CASE Rollback(c)
      BY <1>3, <3>1
    <3>2. CASE ~Rollback(c)
      <4>1. pc' = [pc EXCEPT ![c] = IF WantsLive(req[c]) THEN "check" ELSE "write"] /\ req' = req
        BY <2>3, <3>2 DEF Load, Goto
      <4> QED BY <1>0, <4>1 DEF Aimed, WantsLive
    <3> QED BY <3>1, <3>2
  <2>4. CASE Check(c)
    BY <1>0, <1>2, <1>3, <2>4 DEF Check, Goto
  <2>5. CASE Write(c)
    BY <1>0, <1>2, <1>3, <2>5 DEF Write, Goto
  <2>6. CASE Commit(c)
    BY <1>0, <1>2, <2>6 DEF Commit, Goto
  <2>7. CASE Fail(c)
    BY <1>3, <2>7 DEF Fail
  <2> QED BY <1>4, <2>1, <2>2, <2>3, <2>4, <2>5, <2>6, <2>7 DEF ClientStep, Requests
<1>5. ASSUME NEW s \in Strategies, StrategyStep(s) PROVE Aimed'
  BY <1>1, <1>5 DEF StrategyStep, Create, Delete, Downgrade
<1>6. ASSUME NEW id \in BindingIds, DetachBinding(id) PROVE Aimed'
  BY <1>1, <1>6 DEF DetachBinding
<1> QED BY <1>1, <1>4, <1>5, <1>6 DEF Next, vars

\* A new live strategy: only its own bindings can be part of a clash, and what
\* overlaps one of them belongs to a strategy of the cabinet that is searched.
LEMMA UpdateExact ==
    ASSUME OwnerInv, NEW r \in Requests, r.kind = "update", RequiresLive(r.active, r.level)
    PROVE  ConflictForBindings(r.strategy) <=> ClashIf(r)
<1> DEFINE s == r.strategy
           owners == {b \in bindings : LiveIf(r, b.strategy)}
<1>1. ASSUME ConflictForBindings(s) PROVE ClashIf(r)
  <2>1. PICK t \in bindings, o \in bindings :
           t.strategy = s /\ o.id # t.id /\ (o.strategy = s \/ Live(o.strategy)) /\ Overlap(t, o)
    BY <1>1 DEF ConflictForBindings
  <2>2. t \in owners /\ o \in owners
    BY <2>1 DEF LiveIf
  <2> QED BY <2>1, <2>2 DEF ClashIf
<1>2. ASSUME NEW b \in owners, NEW d \in owners, b.id # d.id, Overlap(b, d), b.strategy = s
      PROVE  ConflictForBindings(s)
  <2>1. d.strategy = s \/ Live(d.strategy)
    BY DEF LiveIf
  <2>2. SameCabinet(s, d.strategy)
    BY <1>2 DEF OwnerInv, AtHome, SameCabinet, Overlap
  <2> QED BY <1>2, <2>1, <2>2 DEF ConflictForBindings
<1>3. ASSUME ClashIf(r) PROVE ConflictForBindings(s)
  <2>1. PICK b \in owners, d \in owners : b.id # d.id /\ Overlap(b, d)
    BY <1>3 DEF ClashIf
  <2>2. Overlap(d, b)
    BY <2>1, OverlapSymmetric
  <2>3. b.strategy = s \/ d.strategy = s
    BY <2>1 DEF LiveIf, OwnerInv, OneLiveOwner
  <2> QED BY <1>2, <2>1, <2>2, <2>3
<1> QED BY <1>1, <1>3

\* A new binding of a live strategy: it is the only one that can clash.
LEMMA AttachExact ==
    ASSUME OwnerInv, NEW r \in Requests, r.kind = "attach", Live(r.strategy), Writable(r)
    PROVE  ConflictForScope(r.strategy, r.scope) <=> ClashIf(r)
<1>1. \A s : LiveIf(r, s) <=> Live(s)
  BY DEF LiveIf
<1>2. ClashIf(r) <=> \E b \in bindings : Live(b.strategy) /\ Overlap(r.scope, b)
  BY <1>1 DEF ClashIf, OwnerInv, OneLiveOwner
<1>3. \A b \in bindings : Overlap(r.scope, b) => SameCabinet(r.strategy, b.strategy)
  BY DEF OwnerInv, AtHome, Writable, SameCabinet, Overlap
<1> QED BY <1>2, <1>3 DEF ConflictForScope

\* The SQL of the ownership check, which looks at the bindings of one cabinet
\* and leaves the binding itself out, refuses the requests that would give a
\* scope two live owners and no other.
THEOREM ChecksAreExact == Spec => []RefusalIsExact
<1>1. ASSUME OwnerInv, Aimed PROVE RefusalIsExact
  <2> SUFFICES ASSUME NEW c \in Clients, pc[c] = "check", Writable(req[c]),
                      req[c].kind = "attach" => Live(req[c].strategy)
               PROVE  Conflict(req[c]) <=> ClashIf(req[c])
    BY DEF RefusalIsExact
  <2>1. req[c] \in Requests
    BY <1>1 DEF OwnerInv, TypeOK, Requests
  <2>2. req[c].kind \in {"update", "attach"}
    BY <2>1, RequestFields
  <2>3. CASE req[c].kind = "update"
    BY <1>1, <2>1, <2>3, UpdateExact DEF Aimed, Conflict
  <2>4. CASE req[c].kind = "attach"
    BY <1>1, <2>1, <2>4, AttachExact DEF Conflict
  <2> QED BY <2>2, <2>3, <2>4
<1>2. Init => Aimed
  BY DEF Init, Aimed
<1>3. OwnerInv /\ Aimed /\ [Next]_vars => Aimed'
  BY NextAimed
<1> QED BY <1>1, <1>2, <1>3, InitOwner, NextOwner, PTL DEF Spec
=============================================================================
