-------------------------- MODULE BidActionsSafety --------------------------
(***************************************************************************)
(* The safety theorems of BidActions.                                      *)
(*                                                                         *)
(* For any number of workers: the daily cap holds for real writes, an      *)
(* action leads to one write, and a stopped automation to at most one late *)
(* write per worker.  Where reconciliation leaves the actions of live      *)
(* workers alone, the table is a BidLedger.  With one worker, as the       *)
(* server is configured: unresolved actions never overlap, the history     *)
(* shows every final status, that status says what WB did, and a write     *)
(* starts from the bid WB has.  Two workers can break these four.          *)
(***************************************************************************)
EXTENDS BidActionsProofs

LEMMA WorkerTypes ==
    ASSUME Typed
    PROVE  /\ pc \in [Workers -> PCs] /\ loc \in [Workers -> LocalsType]
           /\ snap \in [Workers -> SnapType]
BY DEF Typed, TypeOK

\* A step of another worker, of the API or of the environment leaves the
\* worker's control state, locals and snapshot alone.
LEMMA OthersStep ==
    ASSUME Typed, [Next]_vars, NEW w \in Workers
    PROVE  WorkerStep(w) \/ UNCHANGED <<pc[w], loc[w], snap[w]>>
<1> pc \in [Workers -> PCs] /\ loc \in [Workers -> LocalsType] /\ snap \in [Workers -> SnapType]
  BY WorkerTypes
<1>1. CASE \E v \in Workers : WorkerStep(v)
  <2>1. PICK v \in Workers : WorkerStep(v)
    BY <1>1
  <2>2. CASE v # w
    <3>2. UNCHANGED pc[w]
      BY <2>1, <2>2 DEF WorkerStep, Progress, Goto, RunForWorkspace, EndRun, EndJob, Decide,
         SyncFetch, ReconcileList, LoadRunSettings, CheckUnresolved, LoadCap, ClaimBegin, ClaimExec,
         NextBinding, ReloadSettings, ReloadStrategy, ReloadCap, LeaseBegin, LeaseExec, FinishBlocked,
         WBWrite, WBCall, RecordBidChange, CompleteAction, SyncStore, ReconcileObserve,
         ObserveOne, ReconcileAudit, ReconcileUpdate, NextStale, GuardError, LoseLease, Crash
    <3>3. UNCHANGED loc[w]
      BY <2>1, <2>2 DEF WorkerStep, Progress, RunForWorkspace, EndRun, EndJob, Decide,
         SyncFetch, ReconcileList, LoadRunSettings, CheckUnresolved, LoadCap, ClaimBegin, ClaimExec,
         NextBinding, ReloadSettings, ReloadStrategy, ReloadCap, LeaseBegin, LeaseExec, FinishBlocked,
         WBWrite, WBCall, RecordBidChange, CompleteAction, SyncStore, ReconcileObserve,
         ObserveOne, ReconcileAudit, ReconcileUpdate, NextStale, GuardError, LoseLease, Crash
    <3>4. UNCHANGED snap[w]
      BY <2>1, <2>2 DEF WorkerStep, Progress, RunForWorkspace, EndRun, EndJob, Decide,
         SyncFetch, ReconcileList, LoadRunSettings, CheckUnresolved, LoadCap, ClaimBegin, ClaimExec, TakeSnapshot, DropSnapshot,
         NextBinding, ReloadSettings, ReloadStrategy, ReloadCap, LeaseBegin, LeaseExec, FinishBlocked,
         WBWrite, WBCall, RecordBidChange, CompleteAction, SyncStore, ReconcileObserve,
         ObserveOne, ReconcileAudit, ReconcileUpdate, NextStale, GuardError, LoseLease, Crash
    <3> QED BY <3>2, <3>3, <3>4
  <2> QED BY <2>1, <2>2
<1>2. CASE ~\E v \in Workers : WorkerStep(v)
  BY <1>2 DEF Next, vars, db, env, SettingsBegin, SettingsCommit, SetStrategyActive,
              SellerEdit, NextDay
<1> QED BY <1>1, <1>2

\* How a worker gets to, or stays at, a place between claim and completion.
LEMMA FlightStep ==
    ASSUME Typed, [Next]_vars, NEW w \in Workers, pc'[w] \in Flight
    PROVE  \/ /\ pc[w] \in Flight
              /\ loc'[w].id = loc[w].id /\ loc'[w].window = loc[w].window
           \/ /\ ClaimExec(w) /\ pc'[w] = "reload"
              /\ loc'[w].id = Len(acts) + 1 /\ loc'[w].window = loc[w].window
              /\ acts' = Append(acts, NewRow(w, "pending"))
<1>1. CASE UNCHANGED <<pc[w], loc[w], snap[w]>>
  BY <1>1
<1>2. CASE WorkerStep(w)
  <2> USE DEF Flight
  <2> pc \in [Workers -> PCs] /\ loc \in [Workers -> LocalsType]
    BY WorkerTypes
  <2>1. loc[w] \in LocalsType /\ acts \in Seq(ActionRow)
    BY DEF Typed, TypeOK
  <2>2. CASE ClaimExec(w)
    BY <2>1, <2>2 DEF ClaimExec, Goto, NextBinding, EndJob, LocalsType
  <2>3. ~(\/ RunForWorkspace(w) \/ LoadRunSettings(w) \/ EndRun(w) \/ ReconcileList(w)
          \/ \E scope \in Scopes, new \in Bids : Decide(w, scope, new)
          \/ \E scope \in Scopes : SyncFetch(w, scope))
    BY DEF RunForWorkspace, LoadRunSettings, EndRun, EndJob, ReconcileList, Decide,
           SyncFetch, Goto
  <2>4. ~(\/ CheckUnresolved(w) \/ LoadCap(w) \/ ClaimBegin(w) \/ SyncStore(w)
          \/ FinishBlocked(w) \/ CompleteAction(w) \/ Crash(w))
    BY DEF CheckUnresolved, LoadCap, ClaimBegin, SyncStore, FinishBlocked, CompleteAction,
           Crash, NextBinding, EndJob, Goto
  <2>5. ~(ReconcileObserve(w) \/ ReconcileAudit(w) \/ ReconcileUpdate(w))
    BY DEF ReconcileObserve, ObserveOne, ReconcileAudit, ReconcileUpdate, NextStale, Goto
  <2>6. CASE \/ ReloadSettings(w) \/ ReloadStrategy(w) \/ LeaseBegin(w) \/ LeaseExec(w)
             \/ GuardError(w) \/ LoseLease(w) \/ RecordBidChange(w)
    <3>1. pc[w] \in Flight
      BY <2>6 DEF ReloadSettings, ReloadStrategy, LeaseBegin, LeaseExec, GuardError,
                  LoseLease, RecordBidChange
    <3>2. loc' = loc
      BY <2>6 DEF ReloadSettings, ReloadStrategy, LeaseBegin, LeaseExec, GuardError,
                  LoseLease, RecordBidChange, NextBinding, Goto
    <3> QED BY <3>1, <3>2
  <2>7. CASE ReloadCap(w) \/ \E out \in Outcomes, lands \in BOOLEAN : WBWrite(w, out, lands)
    <3>1. pc[w] \in Flight
      BY <2>7 DEF ReloadCap, WBWrite, WBCall
    <3>2. \/ loc'[w] = loc[w]
          \/ \E c : loc'[w] = [loc[w] EXCEPT !.cap = c]
          \/ \E o : loc'[w] = [loc[w] EXCEPT !.out = o]
      BY <2>7 DEF ReloadCap, WBWrite, WBCall
    <3>3. loc'[w].id = loc[w].id /\ loc'[w].window = loc[w].window
      BY <2>1, <3>2 DEF LocalsType
    <3> QED BY <3>1, <3>3
  <2> QED BY <1>2, <2>2, <2>3, <2>4, <2>5, <2>6, <2>7 DEF WorkerStep, Progress
<1> QED BY <1>1, <1>2, OthersStep

\* A worker waits for the lease with the snapshot it started with, and writes
\* only after a lease was granted.
LEMMA LeaseStep ==
    ASSUME Typed, [Next]_vars, NEW w \in Workers
    PROVE  /\ pc'[w] = "leaseWait" =>
                \/ LeaseBegin(w)
                \/ pc[w] = "leaseWait" /\ UNCHANGED <<loc[w], snap[w]>>
           /\ pc'[w] = "write" =>
                \/ LeaseExec(w)
                \/ pc[w] = "write" /\ UNCHANGED loc[w]
<1>1. CASE UNCHANGED <<pc[w], loc[w], snap[w]>>
  BY <1>1
<1>2. CASE WorkerStep(w)
  BY <1>2, WorkerTypes DEF WorkerStep, Progress, Goto, RunForWorkspace, EndRun, EndJob, Decide,
         SyncFetch, ReconcileList, LoadRunSettings, CheckUnresolved, LoadCap, ClaimBegin, ClaimExec,
         NextBinding, ReloadSettings, ReloadStrategy, ReloadCap, LeaseBegin, LeaseExec, FinishBlocked,
         WBWrite, WBCall, RecordBidChange, CompleteAction, SyncStore, ReconcileObserve,
         ObserveOne, ReconcileAudit, ReconcileUpdate, NextStale, GuardError, LoseLease, Crash
<1> QED BY <1>1, <1>2, OthersStep

\* The history of a row: only a granted lease sets grant, only a WB call
\* counts a write, and a claimed row starts with neither.
LEMMA HistoryStep ==
    ASSUME Typed, [Next]_vars
    PROVE  /\ \A i \in DOMAIN acts :
                /\ \/ acts'[i].grant = acts[i].grant
                   \/ \E w \in Workers :
                        LeaseExec(w) /\ pc'[w] = "write" /\ loc[w].id = i
                /\ \/ acts'[i].writes = acts[i].writes
                   \/ \E w \in Workers : pc[w] = "write" /\ loc[w].id = i
           /\ \A i \in DOMAIN acts' \ DOMAIN acts :
                acts'[i].grant = None /\ acts'[i].writes = 0
<1> USE DEF Typed, TypeOK
<1> DEFINE Same(i) == /\ acts'[i].grant = acts[i].grant
                      /\ acts'[i].writes = acts[i].writes
<1>1. ASSUME NEW w \in Workers, ClaimExec(w)
      PROVE  /\ \A i \in DOMAIN acts : Same(i)
             /\ \A i \in DOMAIN acts' \ DOMAIN acts :
                  acts'[i].grant = None /\ acts'[i].writes = 0
  <2> DEFINE status == ClaimStatus(snap[w].settings, snap[w].rows,
                                   loc[w].cap, loc[w].window)
  <2>1. UNCHANGED acts \/ acts' = Append(acts, NewRow(w, status))
    BY <1>1 DEF ClaimExec
  <2> HIDE DEF status
  <2>2. CASE acts' = Append(acts, NewRow(w, status))
    <3>1. \A i \in DOMAIN acts' : acts'[i] = IF i \in DOMAIN acts THEN acts[i] ELSE NewRow(w, status)
      BY <2>2
    <3>2. DOMAIN acts \subseteq DOMAIN acts'
      BY <2>2
    <3>3. NewRow(w, status).grant = None /\ NewRow(w, status).writes = 0
      BY DEF NewRow
    <3> HIDE DEF Typed, TypeOK
    <3> QED BY <3>1, <3>2, <3>3
  <2> QED BY <2>1, <2>2
<1>2. ASSUME NEW i \in DOMAIN acts, NEW row, SetRow(i, row)
      PROVE  /\ DOMAIN acts' = DOMAIN acts /\ acts'[i] = row
             /\ \A j \in DOMAIN acts : j # i => Same(j)
  BY <1>2 DEF SetRow
<1>3. ASSUME NEW w \in Workers, LeaseExec(w), ~UNCHANGED acts
      PROVE  /\ DOMAIN acts' = DOMAIN acts /\ pc'[w] = "write"
             /\ acts'[loc[w].id].writes = acts[loc[w].id].writes
             /\ \A j \in DOMAIN acts : j # loc[w].id => Same(j)
  <2> DEFINE row == [acts[loc[w].id] EXCEPT
                       !.grant = EffectiveCap(snap[w].settings.cap, loc[w].cap)]
  <2>1. SetRow(loc[w].id, row) /\ pc'[w] = "write" /\ pc[w] = "leaseWait"
    BY <1>3 DEF LeaseExec, Goto
  <2>2. loc[w].id \in DOMAIN acts /\ acts[loc[w].id] \in ActionRow
    BY <2>1 DEF Control, ControlOK, Flight
  <2>3. row.writes = acts[loc[w].id].writes
    BY <2>2 DEF ActionRow
  <2> HIDE DEF row
  <2> QED BY <1>2, <2>1, <2>2, <2>3
<1>4. ASSUME NEW w \in Workers, NEW out \in Outcomes, NEW lands \in BOOLEAN,
             WBWrite(w, out, lands)
      PROVE  /\ DOMAIN acts' = DOMAIN acts /\ pc[w] = "write"
             /\ acts'[loc[w].id].grant = acts[loc[w].id].grant
             /\ \A j \in DOMAIN acts : j # loc[w].id => Same(j)
  <2> DEFINE row == [acts[loc[w].id] EXCEPT !.writes = @ + 1, !.landed = @ \/ lands]
  <2>1. SetRow(loc[w].id, row) /\ pc[w] = "write"
    BY <1>4 DEF WBWrite, WBCall
  <2>2. loc[w].id \in DOMAIN acts /\ acts[loc[w].id] \in ActionRow
    BY <2>1 DEF Control, ControlOK, Flight
  <2>3. row.grant = acts[loc[w].id].grant
    BY <2>2 DEF ActionRow
  <2> HIDE DEF row
  <2> QED BY <1>2, <2>1, <2>2, <2>3
<1>5. ASSUME NEW w \in Workers,
             \/ FinishBlocked(w) \/ CompleteAction(w) \/ RecordBidChange(w)
             \/ ReconcileAudit(w) \/ ReconcileUpdate(w)
      PROVE  DOMAIN acts' = DOMAIN acts /\ \A i \in DOMAIN acts : Same(i)
  <2>1. loc[w].id \in DOMAIN acts /\ acts[loc[w].id] \in ActionRow
    BY <1>5 DEF Control, ControlOK, Flight, FinishBlocked, CompleteAction,
                RecordBidChange, ReconcileAudit, ReconcileUpdate
  <2>2. CASE UNCHANGED acts
    BY <2>2
  <2>3. CASE \E s : \/ SetRow(loc[w].id, [acts[loc[w].id] EXCEPT !.status = s])
                    \/ SetRow(loc[w].id, [acts[loc[w].id] EXCEPT !.audit = s])
    <3>1. PICK s : \/ SetRow(loc[w].id, [acts[loc[w].id] EXCEPT !.status = s])
                   \/ SetRow(loc[w].id, [acts[loc[w].id] EXCEPT !.audit = s])
      BY <2>3
    <3> DEFINE row1 == [acts[loc[w].id] EXCEPT !.status = s]
               row2 == [acts[loc[w].id] EXCEPT !.audit = s]
    <3>2. /\ row1.grant = acts[loc[w].id].grant /\ row1.writes = acts[loc[w].id].writes
          /\ row2.grant = acts[loc[w].id].grant /\ row2.writes = acts[loc[w].id].writes
      BY <2>1 DEF ActionRow
    <3>3. SetRow(loc[w].id, row1) \/ SetRow(loc[w].id, row2)
      BY <3>1
    <3> HIDE DEF row1, row2
    <3> QED BY <1>2, <2>1, <3>2, <3>3
  <2> QED BY <1>5, <2>2, <2>3 DEF FinishBlocked, CompleteAction, RecordBidChange,
                            ReconcileAudit, ReconcileUpdate, Completed
<1> HIDE DEF Typed, TypeOK
<1>7. CASE UNCHANGED acts
  BY <1>7
<1>8. ASSUME NEW w \in Workers, LeaseExec(w), ~UNCHANGED acts
      PROVE  /\ \A i \in DOMAIN acts : Same(i) \/ (LeaseExec(w) /\ pc'[w] = "write" /\ loc[w].id = i /\ acts'[i].writes = acts[i].writes)
             /\ DOMAIN acts' = DOMAIN acts
  BY <1>3, <1>8
<1>9. ASSUME NEW w \in Workers, NEW out \in Outcomes, NEW lands \in BOOLEAN,
             WBWrite(w, out, lands)
      PROVE  /\ \A i \in DOMAIN acts : Same(i) \/ (pc[w] = "write" /\ loc[w].id = i /\ acts'[i].grant = acts[i].grant)
             /\ DOMAIN acts' = DOMAIN acts
  BY <1>4, <1>9
<1> QED BY <1>1, <1>5, <1>7, <1>8, <1>9, RowWriters DEF RowWrite

-----------------------------------------------------------------------------
(* The daily cap.                                                          *)

\* A snapshot may be old, but rows never move to another day, never come back
\* among the counted ones, and new rows are inserted behind the old ones: what
\* the snapshot counts bounds what counts now, up to the row being checked.
SnapshotOK(w) ==
    /\ loc[w].id \in DOMAIN snap[w].rows
    /\ DOMAIN snap[w].rows \subseteq DOMAIN acts
    /\ \A i \in DOMAIN snap[w].rows :
         /\ acts[i].day = snap[w].rows[i].day
         /\ acts[i].status \in Counted => snap[w].rows[i].status \in Counted

GrantOK(i) ==
    /\ acts[i].grant \in Nat => Cardinality(CountedUpTo(acts, i)) <= acts[i].grant
    /\ acts[i].writes > 0 => acts[i].grant \in Nat

WorkerOK(w) ==
    /\ pc[w] \in Flight => acts[loc[w].id].window = loc[w].window
    /\ pc[w] = "leaseWait" => SnapshotOK(w)
    /\ pc[w] = "write" => acts[loc[w].id].grant \in Nat

CapInv == /\ Typed
          /\ \A i \in DOMAIN acts : GrantOK(i)
          /\ \A w \in Workers : WorkerOK(w)

LEMMA CountedFinite ==
    ASSUME NEW rows \in Seq(ActionRow), NEW d
    PROVE  IsFiniteSet(CountedOn(rows, d))
<1>1. IsFiniteSet(1 .. Len(rows))
  BY FS_Interval
<1>2. CountedOn(rows, d) \subseteq 1 .. Len(rows)
  BY DEF CountedOn
<1> QED BY <1>1, <1>2, FS_Subset

\* What counts up to a row only shrinks.
LEMMA CountedShrinks ==
    ASSUME Typed, RowsEvolve, NEW i \in DOMAIN acts
    PROVE  Cardinality(CountedUpTo(acts', i)) <= Cardinality(CountedUpTo(acts, i))
<1>1. CountedUpTo(acts', i) \subseteq CountedUpTo(acts, i)
  BY DEF Typed, TypeOK, RowsEvolve, CountedUpTo, CountedOn
<1>2. IsFiniteSet(CountedUpTo(acts, i))
  <2>1. CountedUpTo(acts, i) \subseteq CountedOn(acts, acts[i].window)
    BY DEF CountedUpTo
  <2> QED BY <2>1, CountedFinite, FS_Subset DEF Typed, TypeOK
<1> QED BY <1>1, <1>2, FS_Subset

LEMMA CountedCard ==
    ASSUME NEW rows \in Seq(ActionRow), NEW i \in DOMAIN rows
    PROVE  Cardinality(CountedUpTo(rows, i)) \in Nat
<1>1. CountedUpTo(rows, i) \subseteq CountedOn(rows, rows[i].window)
  BY DEF CountedUpTo
<1> QED BY <1>1, CountedFinite, FS_Subset, FS_CardinalityType

LEMMA InitCap == Init => CapInv
BY InitTyped DEF Init, CapInv, WorkerOK, GrantOK, Flight

\* The guard a lease is granted on covers the row as the table is now.
LEMMA LeaseCovers ==
    ASSUME CapInv, NEW w \in Workers, LeaseExec(w), pc'[w] = "write"
    PROVE  /\ acts'[loc[w].id].grant \in Nat
           /\ Cardinality(CountedUpTo(acts', loc[w].id)) <= acts'[loc[w].id].grant
<1> DEFINE i == loc[w].id
           g == EffectiveCap(snap[w].settings.cap, loc[w].cap)
           counted == CountedOn(snap[w].rows, loc[w].window)
<1>1. /\ pc[w] = "leaseWait"
      /\ SetRow(i, [acts[i] EXCEPT !.grant = g])
      /\ Cardinality(counted) <= g
  BY DEF LeaseExec, PreWriteGuard, Goto, CapInv, Typed, TypeOK
<1>2. /\ i \in DOMAIN acts /\ acts[i] \in ActionRow /\ acts[i].window = loc[w].window
      /\ SnapshotOK(w) /\ snap[w].rows \in Seq(ActionRow) /\ acts \in Seq(ActionRow)
  BY <1>1 DEF CapInv, WorkerOK, Typed, TypeOK, Control, ControlOK, Flight, SnapType
<1>3. g \in Nat
  BY <1>1, SettingsType, CapType DEF CapInv, Typed, Control, ControlOK, TypeOK, LocalsType
<1>4. /\ acts'[i].grant = g /\ acts'[i].window = loc[w].window
      /\ DOMAIN acts' = DOMAIN acts
      /\ \A j \in DOMAIN acts : acts'[j].status = acts[j].status /\ acts'[j].day = acts[j].day
  <2> HIDE DEF g
  <2>1. acts' = [acts EXCEPT ![i] = [acts[i] EXCEPT !.grant = g]]
    BY <1>1 DEF SetRow
  <2> QED BY <1>2, <2>1 DEF ActionRow
<1>5. CountedUpTo(acts', i) \subseteq counted
  <2> HIDE DEF g
  <2> QED BY <1>2, <1>4 DEF CountedUpTo, CountedOn, SnapshotOK
<1>6. IsFiniteSet(counted)
  BY <1>2, CountedFinite
<1>7. Cardinality(CountedUpTo(acts', i)) <= Cardinality(counted)
  <2> HIDE DEF counted
  <2> QED BY <1>5, <1>6, FS_Subset
<1>8. Cardinality(counted) \in Nat /\ Cardinality(CountedUpTo(acts', i)) \in Nat
  <2> HIDE DEF counted
  <2> QED BY <1>5, <1>6, FS_Subset, FS_CardinalityType
<1> HIDE DEF counted, g
<1> QED BY <1>1, <1>3, <1>4, <1>7, <1>8

LEMMA NextCap == ASSUME CapInv, [Next]_vars PROVE CapInv'
<1>1. Typed /\ Typed' /\ RowsEvolve
  BY NextTyped, StepRows DEF CapInv
<1>2. ASSUME NEW i \in DOMAIN acts' PROVE GrantOK(i)'
  <2>1. CASE i \notin DOMAIN acts
    <3>1. acts'[i].grant = None /\ acts'[i].writes = 0
      BY <1>1, <2>1, HistoryStep
    <3> QED BY <3>1, NamesAssumption DEF GrantOK
  <2>2. CASE i \in DOMAIN acts
    <3>1. CASE \E w \in Workers : LeaseExec(w) /\ pc'[w] = "write" /\ loc[w].id = i
      BY <3>1, LeaseCovers DEF GrantOK
    <3>2. CASE acts'[i].grant = acts[i].grant
      <4>1. acts'[i].grant \in Nat => Cardinality(CountedUpTo(acts', i)) <= acts'[i].grant
        <5>1. Cardinality(CountedUpTo(acts', i)) <= Cardinality(CountedUpTo(acts, i))
          BY <1>1, <2>2, CountedShrinks
        <5>2. /\ Cardinality(CountedUpTo(acts', i)) \in Nat
              /\ Cardinality(CountedUpTo(acts, i)) \in Nat
          BY <1>1, <2>2, CountedCard DEF Typed, TypeOK
        <5>3. acts[i].grant \in Nat => Cardinality(CountedUpTo(acts, i)) <= acts[i].grant
          BY <2>2 DEF CapInv, GrantOK
        <5> QED BY <3>2, <5>1, <5>2, <5>3
      <4>2. acts'[i].writes > 0 => acts'[i].grant \in Nat
        <5>1. CASE acts'[i].writes = acts[i].writes
          BY <2>2, <3>2, <5>1 DEF CapInv, GrantOK
        <5>2. CASE \E w \in Workers : pc[w] = "write" /\ loc[w].id = i
          BY <3>2, <5>2 DEF CapInv, WorkerOK
        <5> QED BY <1>1, <2>2, <5>1, <5>2, HistoryStep
      <4> QED BY <4>1, <4>2 DEF GrantOK
    <3> QED BY <1>1, <2>2, <3>1, <3>2, HistoryStep
  <2> QED BY <2>1, <2>2
<1>3. ASSUME NEW w \in Workers PROVE WorkerOK(w)'
  <2>0. loc[w].id \in Nat /\ WorkerOK(w)
    BY DEF CapInv, Typed, TypeOK, LocalsType
  <2>1. ASSUME pc'[w] \in Flight PROVE acts'[loc'[w].id].window = loc'[w].window
    <3>1. CASE pc[w] \in Flight /\ loc'[w].id = loc[w].id /\ loc'[w].window = loc[w].window
      <4>1. loc[w].id \in DOMAIN acts
        BY <1>1, <3>1 DEF Typed, Control, ControlOK
      <4> QED BY <1>1, <2>0, <3>1, <4>1 DEF RowsEvolve, WorkerOK
    <3>2. CASE /\ loc'[w].id = Len(acts) + 1 /\ loc'[w].window = loc[w].window
               /\ acts' = Append(acts, NewRow(w, "pending"))
      <4>1. acts'[Len(acts) + 1] = NewRow(w, "pending")
        BY <1>1, <3>2 DEF Typed, TypeOK
      <4> QED BY <3>2, <4>1 DEF NewRow
    <3> QED BY <1>1, <2>1, <3>1, <3>2, FlightStep
  <2>2. ASSUME pc'[w] = "leaseWait" PROVE SnapshotOK(w)'
    <3>1. CASE LeaseBegin(w)
      <4>1. snap'[w].rows = acts /\ loc' = loc /\ acts' = acts
        BY <1>1, <3>1 DEF LeaseBegin, TakeSnapshot, db, Typed, TypeOK
      <4>2. loc[w].id \in DOMAIN acts
        BY <1>1, <3>1 DEF LeaseBegin, Typed, Control, ControlOK, Flight
      <4> QED BY <4>1, <4>2 DEF SnapshotOK
    <3>2. CASE pc[w] = "leaseWait" /\ UNCHANGED <<loc[w], snap[w]>>
      <4>1. SnapshotOK(w)
        BY <2>0, <3>2 DEF WorkerOK
      <4> QED BY <1>1, <3>2, <4>1 DEF SnapshotOK, RowsEvolve
    <3> QED BY <1>1, <2>2, <3>1, <3>2, LeaseStep
  <2>3. ASSUME pc'[w] = "write" PROVE acts'[loc'[w].id].grant \in Nat
    <3>1. CASE LeaseExec(w)
      <4>1. loc' = loc
        BY <3>1 DEF LeaseExec
      <4> QED BY <2>3, <3>1, <4>1, LeaseCovers
    <3>2. CASE pc[w] = "write" /\ UNCHANGED loc[w]
      <4>1. loc[w].id \in DOMAIN acts /\ acts[loc[w].id].grant \in Nat
        BY <1>1, <2>0, <3>2 DEF WorkerOK, Typed, Control, ControlOK, Flight
      <4>2. CASE acts'[loc[w].id].grant = acts[loc[w].id].grant
        BY <3>2, <4>1, <4>2
      <4>3. CASE \E v \in Workers : LeaseExec(v) /\ pc'[v] = "write" /\ loc[v].id = loc[w].id
        BY <3>2, <4>3, LeaseCovers
      <4> QED BY <1>1, <4>1, <4>2, <4>3, HistoryStep
    <3> QED BY <1>1, <2>3, <3>1, <3>2, LeaseStep
  <2> QED BY <2>1, <2>2, <2>3 DEF WorkerOK
<1> QED BY <1>1, <1>2, <1>3 DEF CapInv

\* The daily cap holds for real writes, for every number of workers, targets
\* and days, every cap and every order of settings updates, crashes, slow
\* statements and reconciliations: the pre-write guard's count, taken on a
\* snapshot that may be older than the lock, bounds the actions that count.
THEOREM DailyCap == Spec => []WithinDailyCap
<1>1. CapInv => WithinDailyCap
  BY DEF CapInv, GrantOK, WithinDailyCap
<1> QED BY InitCap, NextCap, <1>1, PTL DEF Spec

-----------------------------------------------------------------------------
(* Writes after automation was stopped.                                    *)

\* Once a worker has written with automation stopped, it is back before the
\* reload of the controls and cannot pass it until they change.
StoppedOK(w) ==
    /\ late[w] <= 1
    /\ late[w] = 1 => /\ pc[w] \notin {"reloadCap", "lease", "leaseWait", "write"}
                      /\ pc[w] = "reloadStrategy" => ~strategy

LateInv == Typed /\ (~Running => \A w \in Workers : StoppedOK(w))

LEMMA NextLate == ASSUME LateInv, [Next]_vars PROVE LateInv'
<1>1. Typed /\ Typed'
  BY NextTyped DEF LateInv
<1>2. CASE late' = [w \in Workers |-> 0]
  BY <1>1, <1>2 DEF LateInv, StoppedOK
<1>3. CASE UNCHANGED <<late, pc, settings, strategy>>
  BY <1>1, <1>3 DEF LateInv, StoppedOK, Running, Ready
<1>4. ASSUME NEW v \in Workers, WorkerStep(v) PROVE LateInv'
  <2>1. UNCHANGED <<settings, strategy>>
    BY <1>4 DEF WorkerStep, Progress, db, RunForWorkspace, LoadRunSettings,
         EndRun, Decide, SyncFetch, ReconcileList, CheckUnresolved, LoadCap, ClaimBegin,
         ClaimExec, ReloadSettings, ReloadStrategy, ReloadCap, LeaseBegin, LeaseExec,
         FinishBlocked, WBWrite, WBCall, RecordBidChange, CompleteAction, SyncStore,
         ReconcileObserve, ObserveOne, ReconcileAudit, ReconcileUpdate, GuardError,
         LoseLease, Crash
  <2>2. SUFFICES ASSUME ~Running, NEW w \in Workers PROVE StoppedOK(w)'
    BY <1>1, <2>1 DEF LateInv, Running, Ready
  <2>3. StoppedOK(w) /\ late[w] \in Nat
    BY <1>1, <2>2 DEF LateInv, Typed, TypeOK
  <2>4. CASE \E out \in Outcomes, lands \in BOOLEAN : WBWrite(v, out, lands)
    <3>1. /\ pc[v] = "write" /\ pc' = [pc EXCEPT ![v] = "record"]
          /\ late' = [late EXCEPT ![v] = @ + 1]
      BY <2>2, <2>4 DEF WBWrite, WBCall, Goto
    <3>2. StoppedOK(v) /\ late[v] \in Nat
      BY <1>1, <2>2 DEF LateInv, Typed, TypeOK
    <3> QED BY <1>1, <2>1, <2>3, <3>1, <3>2 DEF StoppedOK, Typed, TypeOK
  <2>5. CASE ~\E out \in Outcomes, lands \in BOOLEAN : WBWrite(v, out, lands)
    <3>1. UNCHANGED late
      BY <1>4, <2>5 DEF WorkerStep, Progress, RunForWorkspace, LoadRunSettings,
         EndRun, Decide, SyncFetch, ReconcileList, CheckUnresolved, LoadCap, ClaimBegin,
         ClaimExec, ReloadSettings, ReloadStrategy, ReloadCap, LeaseBegin, LeaseExec,
         FinishBlocked, RecordBidChange, CompleteAction, SyncStore,
         ReconcileObserve, ObserveOne, ReconcileAudit, ReconcileUpdate, GuardError,
         LoseLease, Crash
    <3>2. CASE UNCHANGED pc[w]
      BY <2>1, <2>3, <3>1, <3>2 DEF StoppedOK
    <3>3. CASE WorkerStep(w)
      <4>1. CASE ReloadSettings(w) \/ ReloadStrategy(w)
        BY <1>1, <2>1, <2>2, <2>3, <3>1, <4>1
        DEF StoppedOK, Running, ReloadSettings, ReloadStrategy, Goto, Typed, TypeOK
      <4>2. CASE ~(ReloadSettings(w) \/ ReloadStrategy(w))
        <5>1. \/ pc'[w] \notin {"reloadStrategy", "reloadCap", "lease", "leaseWait", "write"}
              \/ pc[w] \in {"reloadCap", "lease", "leaseWait", "write"}
          BY <1>1, <3>3, <4>2, WorkerTypes DEF Goto, EndJob, NextBinding, NextStale,
         WorkerStep, Progress, RunForWorkspace, LoadRunSettings,
         EndRun, Decide, SyncFetch, ReconcileList, CheckUnresolved, LoadCap, ClaimBegin,
         ClaimExec, ReloadCap, LeaseBegin, LeaseExec,
         FinishBlocked, WBWrite, WBCall, RecordBidChange, CompleteAction, SyncStore,
         ReconcileObserve, ObserveOne, ReconcileAudit, ReconcileUpdate, GuardError,
         LoseLease, Crash
        <5>2. pc'[w] # "reloadStrategy"
          BY <1>1, <3>3, <4>2, WorkerTypes DEF Goto, EndJob, NextBinding, NextStale,
         WorkerStep, Progress, RunForWorkspace, LoadRunSettings,
         EndRun, Decide, SyncFetch, ReconcileList, CheckUnresolved, LoadCap, ClaimBegin,
         ClaimExec, ReloadCap, LeaseBegin, LeaseExec,
         FinishBlocked, WBWrite, WBCall, RecordBidChange, CompleteAction, SyncStore,
         ReconcileObserve, ObserveOne, ReconcileAudit, ReconcileUpdate, GuardError,
         LoseLease, Crash
        <5> QED BY <2>1, <2>3, <3>1, <5>1, <5>2 DEF StoppedOK
      <4> QED BY <4>1, <4>2
    <3> QED BY <1>1, <3>2, <3>3, OthersStep
  <2> QED BY <2>4, <2>5
<1> QED
  <2>1. \/ \E v \in Workers : WorkerStep(v)
        \/ late' = [w \in Workers |-> 0]
        \/ UNCHANGED <<late, pc, settings, strategy>>
    BY DEF Next, vars, db, SettingsBegin, SettingsCommit, SetStrategyActive, RestartLate,
           SellerEdit, NextDay
  <2> QED BY <2>1, <1>2, <1>3, <1>4

\* A manual hold, a kill switch or a strategy deactivation lets at most one
\* write per worker through, however many bindings the running job has left.
THEOREM LateWrites == Spec => []AtMostOneLateWrite
<1>1. Init => LateInv
  BY InitTyped DEF Init, LateInv, StoppedOK
<1>2. LateInv => AtMostOneLateWrite
  BY DEF LateInv, StoppedOK, AtMostOneLateWrite
<1> QED BY <1>1, <1>2, NextLate, PTL DEF Spec

-----------------------------------------------------------------------------
(* One write per action.                                                   *)

Unwritten == {"reload", "reloadStrategy", "reloadCap", "lease", "leaseWait", "write", "finish"}

\* The status a worker is about to file is never "blocked".
OutOK(w) ==
    /\ pc[w] \in {"record", "complete"} => loc[w].out \in Outcomes
    /\ pc[w] \in {"recAudit", "recUpdate"} =>
           loc[w].out \in {"applied", "not_applied", "superseded"}

\* An action in flight has one owner, and before the owner's call it is
\* neither written nor blocked, whatever a reconciliation does to it.
OnceInv ==
    /\ Typed
    /\ \A v, w \in Workers :
         pc[v] \in Flight /\ pc[w] \in Flight /\ loc[v].id = loc[w].id => v = w
    /\ \A w \in Workers :
         pc[w] \in Unwritten => acts[loc[w].id].writes = 0 /\ acts[loc[w].id].status # "blocked"
    /\ \A w \in Workers : OutOK(w)
    /\ WriteOnce

LEMMA NextOut ==
    ASSUME Typed, \A w \in Workers : OutOK(w), [Next]_vars, NEW w \in Workers
    PROVE  OutOK(w)'
<1>1. CASE UNCHANGED <<pc[w], loc[w], snap[w]>>
  BY <1>1 DEF OutOK
<1>2. CASE WorkerStep(w)
  <2> loc \in [Workers -> LocalsType] /\ pc \in [Workers -> PCs] /\ loc[w] \in LocalsType
    BY DEF Typed, TypeOK
  <2>1. CASE \E out \in Outcomes, lands \in BOOLEAN : WBWrite(w, out, lands)
    <3>1. PICK out \in Outcomes : loc' = [loc EXCEPT ![w].out = out] /\ Goto(w, "record")
      BY <2>1 DEF WBWrite, WBCall
    <3> QED BY <3>1 DEF OutOK, Goto, LocalsType
  <2>2. CASE ReconcileObserve(w)
    <3>1. PICK i \in todo[w] :
             \/ NextStale(w, i)
             \/ /\ Goto(w, "recAudit")
                /\ loc' = [loc EXCEPT ![w] = [NoLocals EXCEPT !.id = i,
                             !.out = ReconciledStatus(acts[i], obs[acts[i].scope].bid)]]
      BY <2>2 DEF ReconcileObserve, ObserveOne
    <3>2. CASE NextStale(w, i)
      BY <3>2 DEF NextStale, Goto, OutOK
    <3>3. CASE /\ Goto(w, "recAudit")
               /\ loc' = [loc EXCEPT ![w] = [NoLocals EXCEPT !.id = i,
                            !.out = ReconciledStatus(acts[i], obs[acts[i].scope].bid)]]
      <4>1. /\ pc'[w] = "recAudit"
            /\ loc'[w].out = ReconciledStatus(acts[i], obs[acts[i].scope].bid)
        BY <3>3 DEF Goto, NoLocals
      <4> QED BY <4>1 DEF OutOK, ReconciledStatus
    <3> QED BY <3>1, <3>2, <3>3
  <2>3. CASE RecordBidChange(w) \/ ReconcileAudit(w)
    BY <2>3 DEF RecordBidChange, ReconcileAudit, NextBinding, NextStale, Goto, OutOK
  <2>4. CASE ~(\/ \E out \in Outcomes, lands \in BOOLEAN : WBWrite(w, out, lands)
               \/ ReconcileObserve(w) \/ RecordBidChange(w) \/ ReconcileAudit(w))
    <3>1. pc'[w] \notin {"record", "complete", "recAudit", "recUpdate"}
      BY <1>2, <2>4 DEF WorkerStep, Progress, Goto, EndJob, NextBinding, NextStale,
         RunForWorkspace, LoadRunSettings, EndRun, Decide, SyncFetch, ReconcileList,
         CheckUnresolved, LoadCap, ClaimBegin, ClaimExec, ReloadSettings, ReloadStrategy,
         ReloadCap, LeaseBegin, LeaseExec, FinishBlocked, CompleteAction, SyncStore,
         ReconcileUpdate, GuardError, LoseLease, Crash
    <3> QED BY <3>1 DEF OutOK
  <2> QED BY <2>1, <2>2, <2>3, <2>4
<1> QED BY <1>1, <1>2, OthersStep

\* A worker is before its write because it was, or because it has just claimed.
LEMMA UnwrittenStep ==
    ASSUME Typed, [Next]_vars, NEW w \in Workers, pc'[w] \in Unwritten
    PROVE  \/ pc[w] \in Unwritten /\ loc'[w].id = loc[w].id
           \/ /\ loc'[w].id = Len(acts) + 1
              /\ acts' = Append(acts, NewRow(w, "pending"))
<1>1. pc[w] \in Unwritten \/ ClaimExec(w)
  <2>1. CASE UNCHANGED <<pc[w], loc[w], snap[w]>>
    BY <2>1
  <2>2. CASE WorkerStep(w)
    BY <2>2, WorkerTypes DEF Unwritten, WorkerStep, Progress, Goto, EndJob, NextBinding, NextStale,
         RunForWorkspace, LoadRunSettings, EndRun, Decide, SyncFetch, ReconcileList,
         CheckUnresolved, LoadCap, ClaimBegin, ClaimExec, ReloadSettings, ReloadStrategy,
         ReloadCap, LeaseBegin, LeaseExec, FinishBlocked, WBWrite, WBCall,
         RecordBidChange, CompleteAction, SyncStore, ReconcileObserve, ObserveOne,
         ReconcileAudit, ReconcileUpdate, GuardError, LoseLease, Crash
  <2> QED BY <2>1, <2>2, OthersStep
<1>2. pc'[w] \in Flight
  BY DEF Flight, Unwritten
<1>3. ClaimExec(w) => pc[w] \notin Flight
  BY DEF ClaimExec, Flight
<1> QED BY <1>1, <1>2, <1>3, FlightStep

\* Who writes and who blocks a row.
LEMMA WriteStep ==
    ASSUME Typed, \A w \in Workers : OutOK(w), [Next]_vars, NEW i \in DOMAIN acts
    PROVE  /\ \/ acts'[i].writes = acts[i].writes
              \/ \E w \in Workers :
                   /\ pc[w] = "write" /\ pc'[w] = "record" /\ loc[w].id = i
                   /\ acts'[i].writes = acts[i].writes + 1
                   /\ acts'[i].status = acts[i].status
           /\ acts'[i].status = "blocked" =>
              \/ acts[i].status = "blocked"
              \/ \E w \in Workers : pc[w] = "finish" /\ pc'[w] = "binding" /\ loc[w].id = i
<1> acts \in Seq(ActionRow) /\ pc \in [Workers -> PCs] /\ acts[i] \in ActionRow
  BY DEF Typed, TypeOK
<1>1. ASSUME NEW w \in Workers, ClaimExec(w) PROVE acts'[i] = acts[i]
  <2>1. UNCHANGED acts \/ \E row : acts' = Append(acts, row)
    BY <1>1 DEF ClaimExec
  <2> QED BY <2>1
<1>2. ASSUME NEW k, NEW row, SetRow(k, row)
      PROVE  /\ i = k => acts'[i] = row
             /\ i # k => acts'[i] = acts[i]
  BY <1>2 DEF SetRow
<1>3. ASSUME NEW w \in Workers, LeaseExec(w)
      PROVE  acts'[i].writes = acts[i].writes /\ acts'[i].status = acts[i].status
  <2>0. CASE UNCHANGED acts
    BY <2>0
  <2>1. PICK g : SetRow(loc[w].id, [acts[loc[w].id] EXCEPT !.grant = g]) \/ UNCHANGED acts
    BY <1>3 DEF LeaseExec
  <2> DEFINE row(r) == [r EXCEPT !.grant = g]
  <2>2. row(acts[i]).writes = acts[i].writes /\ row(acts[i]).status = acts[i].status
    BY DEF ActionRow
  <2>3. SetRow(loc[w].id, row(acts[loc[w].id])) \/ UNCHANGED acts
    BY <2>1
  <2> HIDE DEF row
  <2> QED BY <1>2, <2>0, <2>2, <2>3
<1>4. ASSUME NEW w \in Workers, FinishBlocked(w)
      PROVE  /\ acts'[i].writes = acts[i].writes
             /\ pc[w] = "finish" /\ pc'[w] = "binding"
             /\ loc[w].id # i => acts'[i] = acts[i]
  <2>1. /\ SetRow(loc[w].id, Completed(acts[loc[w].id], "blocked"))
        /\ pc[w] = "finish" /\ pc'[w] = "binding"
    BY <1>4 DEF FinishBlocked, NextBinding, Goto
  <2>2. Completed(acts[i], "blocked").writes = acts[i].writes
    BY DEF Completed, ActionRow
  <2> QED BY <1>2, <2>1, <2>2
<1>5. ASSUME NEW w \in Workers, CompleteAction(w) \/ ReconcileUpdate(w)
      PROVE  /\ acts'[i].writes = acts[i].writes
             /\ acts'[i].status = "blocked" => acts[i].status = "blocked"
  <2>1. PICK s : /\ SetRow(loc[w].id, [acts[loc[w].id] EXCEPT !.status = s])
                 /\ s = acts[loc[w].id].status \/ s = loc[w].out
    BY <1>5 DEF CompleteAction, ReconcileUpdate, Completed
  <2>2. loc[w].out # "blocked"
    BY <1>5 DEF CompleteAction, ReconcileUpdate, OutOK, Outcomes
  <2>3. /\ [acts[i] EXCEPT !.status = s].writes = acts[i].writes
        /\ [acts[i] EXCEPT !.status = s].status = s
    BY DEF ActionRow
  <2> QED BY <1>2, <2>1, <2>2, <2>3
<1>6. ASSUME NEW w \in Workers, RecordBidChange(w) \/ ReconcileAudit(w)
      PROVE  acts'[i].writes = acts[i].writes /\ acts'[i].status = acts[i].status
  <2>0. CASE UNCHANGED acts
    BY <2>0
  <2>1. PICK a : SetRow(loc[w].id, [acts[loc[w].id] EXCEPT !.audit = a]) \/ UNCHANGED acts
    BY <1>6 DEF RecordBidChange, ReconcileAudit
  <2> DEFINE row(r) == [r EXCEPT !.audit = a]
  <2>2. row(acts[i]).writes = acts[i].writes /\ row(acts[i]).status = acts[i].status
    BY DEF ActionRow
  <2>3. SetRow(loc[w].id, row(acts[loc[w].id])) \/ UNCHANGED acts
    BY <2>1
  <2> HIDE DEF row
  <2> QED BY <1>2, <2>0, <2>2, <2>3
<1>7. ASSUME NEW w \in Workers, NEW out \in Outcomes, NEW lands \in BOOLEAN,
             WBWrite(w, out, lands)
      PROVE  /\ pc[w] = "write" /\ pc'[w] = "record"
             /\ loc[w].id = i => /\ acts'[i].writes = acts[i].writes + 1
                                 /\ acts'[i].status = acts[i].status
             /\ loc[w].id # i => acts'[i] = acts[i]
  <2> DEFINE row(r) == [r EXCEPT !.writes = @ + 1, !.landed = @ \/ lands]
  <2>1. /\ SetRow(loc[w].id, row(acts[loc[w].id]))
        /\ pc[w] = "write" /\ pc'[w] = "record"
    BY <1>7 DEF WBWrite, WBCall, Goto
  <2>2. row(acts[i]).writes = acts[i].writes + 1 /\ row(acts[i]).status = acts[i].status
    BY DEF ActionRow
  <2> HIDE DEF row
  <2> QED BY <1>2, <2>1, <2>2
<1>8. CASE UNCHANGED acts
  BY <1>8
<1>9. CASE \E w \in Workers : RowWrite(w)
  BY <1>1, <1>3, <1>4, <1>5, <1>6, <1>7, <1>9 DEF RowWrite
<1> QED BY <1>8, <1>9, RowWriters

LEMMA NextOnce == ASSUME OnceInv, [Next]_vars PROVE OnceInv'
<1>1. Typed /\ Typed' /\ \A w \in Workers : OutOK(w) /\ OutOK(w)'
  BY NextTyped, NextOut DEF OnceInv
<1>2. \A w \in Workers : pc[w] \in Flight => loc[w].id \in DOMAIN acts
  BY <1>1 DEF Typed, Control, ControlOK
<1>3. acts \in Seq(ActionRow) /\ Len(acts) + 1 \notin DOMAIN acts
  BY <1>1 DEF Typed, TypeOK
<1>4. Unwritten \subseteq Flight /\ "write" \in Unwritten /\ "finish" \in Unwritten
      /\ "record" \notin Unwritten /\ "binding" \notin Unwritten
  BY DEF Unwritten, Flight
<1>5. ASSUME NEW v \in Workers, NEW w \in Workers, pc'[v] \in Flight, pc'[w] \in Flight,
             loc'[v].id = loc'[w].id
      PROVE  v = w
  <2> DEFINE Old(u) == pc[u] \in Flight /\ loc'[u].id = loc[u].id
             New(u) == ClaimExec(u) /\ pc'[u] = "reload" /\ loc'[u].id = Len(acts) + 1
  <2>1. (Old(v) \/ New(v)) /\ (Old(w) \/ New(w))
    BY <1>1, <1>5, FlightStep
  <2>2. CASE New(v) /\ New(w)
    BY <1>1, <2>2 DEF ClaimExec, Goto, NextBinding, EndJob, Typed, TypeOK
  <2>3. CASE Old(v) /\ Old(w)
    BY <1>5, <2>3 DEF OnceInv
  <2> HIDE DEF Old, New
  <2>4. (Old(v) /\ New(w)) \/ (New(v) /\ Old(w)) => FALSE
    BY <1>2, <1>3, <1>5 DEF Old, New
  <2> QED BY <2>1, <2>2, <2>3, <2>4
<1>6. ASSUME NEW i \in DOMAIN acts, NEW w \in Workers, pc[w] \in Unwritten, loc[w].id = i
      PROVE  /\ acts[i].writes = 0 /\ acts[i].status # "blocked"
             /\ pc'[w] \in Unwritten => acts'[i].writes = 0 /\ acts'[i].status # "blocked"
             /\ pc[w] = "finish" => acts'[i].writes = 0
  <2>1. acts[i].writes = 0 /\ acts[i].status # "blocked"
    BY <1>6 DEF OnceInv
  <2>2. ASSUME NEW u \in Workers, pc[u] \in {"write", "finish"}, loc[u].id = i PROVE u = w
    BY <1>4, <1>6, <2>2 DEF OnceInv
  <2> QED BY <1>1, <1>4, <2>1, <2>2, WriteStep
<1>7. ASSUME NEW w \in Workers, pc'[w] \in Unwritten
      PROVE  acts'[loc'[w].id].writes = 0 /\ acts'[loc'[w].id].status # "blocked"
  <2>1. CASE pc[w] \in Unwritten /\ loc'[w].id = loc[w].id
    BY <1>2, <1>4, <1>6, <1>7, <2>1
  <2>2. CASE /\ loc'[w].id = Len(acts) + 1
             /\ acts' = Append(acts, NewRow(w, "pending"))
    <3>1. acts'[Len(acts) + 1] = NewRow(w, "pending")
      BY <1>3, <2>2
    <3> QED BY <2>2, <3>1 DEF NewRow
  <2> QED BY <1>1, <1>7, <2>1, <2>2, UnwrittenStep
<1>8. ASSUME NEW i \in DOMAIN acts'
      PROVE  acts'[i].writes <= 1 /\ (acts'[i].status = "blocked" => acts'[i].writes = 0)
  <2>1. CASE i \notin DOMAIN acts
    BY <1>1, <2>1, HistoryStep
  <2>2. CASE i \in DOMAIN acts
    <3>1. acts[i].writes <= 1 /\ (acts[i].status = "blocked" => acts[i].writes = 0)
      BY <2>2 DEF OnceInv, WriteOnce
    <3>2. CASE \E w \in Workers : /\ pc[w] = "write" /\ loc[w].id = i
                                  /\ acts'[i].writes = acts[i].writes + 1
                                  /\ acts'[i].status = acts[i].status
      BY <1>4, <1>6, <2>2, <3>2
    <3>3. CASE acts'[i].writes = acts[i].writes
      BY <1>1, <1>4, <1>6, <2>2, <3>1, <3>3, WriteStep
    <3> QED BY <1>1, <2>2, <3>2, <3>3, WriteStep
  <2> QED BY <2>1, <2>2
<1> QED BY <1>1, <1>5, <1>7, <1>8 DEF OnceInv, WriteOnce

\* WB is called at most once for an action, and never for a blocked one, for
\* every number of workers and whatever crashes, lost leases, slow workers and
\* reconciliations happen in between.
THEOREM OneWrite == Spec => []WriteOnce
<1>1. Init => OnceInv
  BY InitTyped DEF Init, OnceInv, WriteOnce, OutOK, Flight, Unwritten
<1>2. OnceInv => WriteOnce
  BY DEF OnceInv
<1> QED BY <1>1, <1>2, NextOnce, PTL DEF Spec

-----------------------------------------------------------------------------
(* Undisturbed actions.  Reconciliation takes a pending action for one      *)
(* whose worker has died.  That is so when a live worker finishes within    *)
(* five minutes, or when one worker does everything.  Then wb_bid_actions   *)
(* is a BidLedger.                                                          *)

OneWorker == \A v, w \in Workers : v = w

Undisturbed == PromptWorkers \/ OneWorker

Reconciling == {"recObserve", "recAudit", "recUpdate"}

\* A claimed action is pending as long as its worker has it, no reconciliation
\* has it on its list, and its outcome is recorded after a call only.
FlightInv ==
    /\ OnceInv
    /\ \A w \in Workers :
         /\ pc[w] \in Flight => acts[loc[w].id].status = "pending"
         /\ pc[w] \in {"record", "complete"} => acts[loc[w].id].writes > 0
         /\ pc[w] \notin Reconciling => todo[w] = {}
         /\ pc[w] \in {"recAudit", "recUpdate"} => loc[w].id \in todo[w]
    /\ \A v, w \in Workers : pc[v] \in Flight => loc[v].id \notin todo[w]

\* What a row keeps for ever.
SameKey(r, q) == /\ q.scope = r.scope /\ q.old = r.old /\ q.new = r.new /\ q.ver = r.ver
                 /\ q.created = r.created /\ q.day = r.day /\ q.window = r.window

\* What the statement of worker w makes of its row.
Moves(w, r, q) ==
    \/ /\ LeaseExec(w) /\ pc'[w] = "write"
       /\ q.status = r.status /\ q.audit = r.audit /\ q.writes = r.writes /\ q.landed = r.landed
    \/ \E out \in Outcomes, lands \in BOOLEAN :
          /\ WBWrite(w, out, lands)
          /\ q.status = r.status /\ q.audit = r.audit /\ q.writes = r.writes + 1
          /\ q.landed = (r.landed \/ lands)
    \/ /\ RecordBidChange(w) /\ pc'[w] = "complete"
       /\ q.status = r.status /\ q.audit = loc[w].out /\ q.writes = r.writes /\ q.landed = r.landed
    \/ /\ CompleteAction(w)
       /\ q.status = (IF r.status = "pending" THEN loc[w].out ELSE r.status)
       /\ q.audit = r.audit /\ q.writes = r.writes /\ q.landed = r.landed
    \/ /\ FinishBlocked(w)
       /\ q.status = (IF r.status = "pending" THEN "blocked" ELSE r.status)
       /\ q.audit = r.audit /\ q.writes = r.writes /\ q.landed = r.landed
    \/ /\ ReconcileAudit(w) /\ pc'[w] = "recUpdate" /\ r.status \in Unresolved
       /\ q.status = r.status /\ q.audit = loc[w].out /\ q.writes = r.writes /\ q.landed = r.landed
    \/ /\ ReconcileUpdate(w)
       /\ q.status = (IF r.status \in Unresolved THEN loc[w].out ELSE r.status)
       /\ q.audit = r.audit /\ q.writes = r.writes /\ q.landed = r.landed

LEMMA RowFields ==
    ASSUME NEW row \in ActionRow
    PROVE  /\ row.scope \in Scopes /\ row.old \in Bids /\ row.new \in Bids
           /\ row.ver \in Nat /\ row.created \in Nat /\ row.writes \in Nat
           /\ row.status \in Statuses /\ row.landed \in BOOLEAN
BY DEF ActionRow

\* A worker between claim and completion has a row of the table.
LEMMA HeldRow ==
    ASSUME Typed, NEW w \in Workers, pc[w] \in Flight \cup {"recAudit", "recUpdate"}
    PROVE  /\ loc[w].id \in DOMAIN acts /\ acts[loc[w].id] \in ActionRow
           /\ acts[loc[w].id].writes \in Nat
<1>1. loc[w].id \in DOMAIN acts /\ acts \in Seq(ActionRow)
  BY DEF Typed, TypeOK, Control, ControlOK
<1> QED BY <1>1, RowFields

\* A statement of worker w touches its own row only.
Holds(w) == /\ loc[w].id \in DOMAIN acts /\ DOMAIN acts' = DOMAIN acts
            /\ \A j \in DOMAIN acts : j # loc[w].id => acts'[j] = acts[j]
            /\ SameKey(acts[loc[w].id], acts'[loc[w].id])
            /\ Moves(w, acts[loc[w].id], acts'[loc[w].id])

Claims(w, status) == /\ ClaimExec(w) /\ status \in {"blocked", "pending"}
                     /\ acts' = Append(acts, NewRow(w, status))
                     /\ status = ClaimStatus(snap[w].settings, snap[w].rows,
                                             loc[w].cap, loc[w].window)

\* Every step leaves the table alone, appends a claimed row, or is a statement
\* of the worker that holds the row.
LEMMA TableStep ==
    ASSUME Typed, [Next]_vars
    PROVE  \/ UNCHANGED acts
           \/ \E w \in Workers : Holds(w) \/ \E status \in {"pending", "blocked"} : Claims(w, status)
<1> /\ acts \in Seq(ActionRow) /\ pc \in [Workers -> PCs]
  BY DEF Typed, TypeOK
<1>1. ASSUME NEW w \in Workers, ClaimExec(w) PROVE UNCHANGED acts \/ \E status \in {"pending", "blocked"} : Claims(w, status)
  <2> DEFINE status == ClaimStatus(snap[w].settings, snap[w].rows, loc[w].cap, loc[w].window)
  <2>1. UNCHANGED acts \/ acts' = Append(acts, NewRow(w, status))
    BY <1>1 DEF ClaimExec
  <2>2. status \in {"blocked", "pending"}
    BY ClaimStatusType
  <2> QED BY <1>1, <2>1, <2>2 DEF Claims
<1> SUFFICES ASSUME NEW w \in Workers, RowWrite(w), ~ClaimExec(w)
             PROVE  UNCHANGED acts \/ Holds(w)
  BY <1>1, RowWriters
<1> DEFINE i == loc[w].id
           r == acts[i]
<1>3. pc[w] \in Flight \cup {"recAudit", "recUpdate"}
  BY DEF RowWrite, LeaseExec, FinishBlocked, CompleteAction, ReconcileUpdate, RecordBidChange,
         ReconcileAudit, WBWrite, WBCall, Flight
<1>4. i \in DOMAIN acts /\ r \in ActionRow
  BY <1>3, HeldRow
<1>2. ASSUME NEW row, SetRow(i, row), SameKey(r, row), Moves(w, r, row)
      PROVE  Holds(w)
  <2>1. /\ DOMAIN acts' = DOMAIN acts /\ acts'[i] = row
        /\ \A j \in DOMAIN acts : j # i => acts'[j] = acts[j]
    BY <1>2, <1>4 DEF SetRow
  <2> QED BY <1>2, <1>4, <2>1 DEF Holds
<1> HIDE DEF i, r
<1> DEFINE Same(q) == q.audit = r.audit /\ q.writes = r.writes /\ q.landed = r.landed
           Alike(q) == q.status = r.status /\ q.writes = r.writes /\ q.landed = r.landed
           Done == UNCHANGED acts \/ Holds(w)
<1>5. CASE LeaseExec(w)
  <2>1. PICK g : \/ SetRow(loc[w].id, [acts[loc[w].id] EXCEPT !.grant = g]) /\ pc'[w] = "write"
                 \/ UNCHANGED acts
    BY <1>5 DEF LeaseExec, Goto
  <2> DEFINE row == [r EXCEPT !.grant = g]
  <2>2. SameKey(r, row) /\ Alike(row) /\ row.audit = r.audit
    BY <1>4 DEF ActionRow, SameKey
  <2>3. UNCHANGED acts \/ (SetRow(i, row) /\ pc'[w] = "write")
    BY <2>1 DEF i, r
  <2> HIDE DEF row
  <2> QED BY <1>2, <1>5, <2>2, <2>3 DEF Moves
<1>6. CASE FinishBlocked(w)
  <2> DEFINE row == Completed(r, "blocked")
  <2>1. SetRow(i, row)
    BY <1>6 DEF FinishBlocked, i, r
  <2>2. /\ SameKey(r, row) /\ Same(row)
        /\ row.status = IF r.status = "pending" THEN "blocked" ELSE r.status
    BY <1>4 DEF ActionRow, SameKey, Completed
  <2> HIDE DEF row
  <2> QED BY <1>2, <1>6, <2>1, <2>2 DEF Moves
<1>7. CASE CompleteAction(w)
  <2> DEFINE row == Completed(r, loc[w].out)
  <2>1. SetRow(i, row)
    BY <1>7 DEF CompleteAction, i, r
  <2>2. /\ SameKey(r, row) /\ Same(row)
        /\ row.status = IF r.status = "pending" THEN loc[w].out ELSE r.status
    BY <1>4 DEF ActionRow, SameKey, Completed
  <2> HIDE DEF row
  <2> QED BY <1>2, <1>7, <2>1, <2>2 DEF Moves
<1>8. CASE ReconcileUpdate(w)
  <2> DEFINE row == [r EXCEPT !.status = IF @ \in Unresolved THEN loc[w].out ELSE @]
  <2>1. SetRow(i, row)
    BY <1>8 DEF ReconcileUpdate, i, r
  <2>2. /\ SameKey(r, row) /\ Same(row)
        /\ row.status = IF r.status \in Unresolved THEN loc[w].out ELSE r.status
    BY <1>4 DEF ActionRow, SameKey
  <2> HIDE DEF row
  <2> QED BY <1>2, <1>8, <2>1, <2>2 DEF Moves
<1>9. CASE RecordBidChange(w) \/ ReconcileAudit(w)
  <2> DEFINE row == [r EXCEPT !.audit = loc[w].out]
  <2>1. \/ /\ SetRow(i, row)
           /\ \/ RecordBidChange(w) /\ pc'[w] = "complete"
              \/ /\ ReconcileAudit(w) /\ pc'[w] = "recUpdate" /\ r.status \in Unresolved
        \/ UNCHANGED acts
    BY <1>9 DEF RecordBidChange, ReconcileAudit, Goto, i, r
  <2>2. SameKey(r, row) /\ Alike(row) /\ row.audit = loc[w].out
    BY <1>4 DEF ActionRow, SameKey
  <2> HIDE DEF row
  <2> QED BY <1>2, <2>1, <2>2 DEF Moves
<1>10. CASE \E out \in Outcomes, lands \in BOOLEAN : WBWrite(w, out, lands)
  <2>0. PICK out \in Outcomes, lands \in BOOLEAN : WBWrite(w, out, lands)
    BY <1>10
  <2> DEFINE row == [r EXCEPT !.writes = @ + 1, !.landed = @ \/ lands]
  <2>1. SetRow(i, row)
    BY <2>0 DEF WBWrite, WBCall, i, r
  <2>2. /\ SameKey(r, row) /\ row.status = r.status /\ row.audit = r.audit
        /\ row.writes = r.writes + 1 /\ row.landed = (r.landed \/ lands)
    BY <1>4 DEF ActionRow, SameKey
  <2> HIDE DEF row
  <2> QED BY <1>2, <2>0, <2>1, <2>2 DEF Moves
<1> QED BY <1>5, <1>6, <1>7, <1>8, <1>9, <1>10 DEF RowWrite

\* The same, seen from one row.
LEMMA RowStep ==
    ASSUME Typed, [Next]_vars, NEW i \in DOMAIN acts
    PROVE  \/ acts'[i] = acts[i]
           \/ \E w \in Workers : /\ loc[w].id = i
                                 /\ SameKey(acts[i], acts'[i]) /\ Moves(w, acts[i], acts'[i])
<1>1. acts \in Seq(ActionRow)
  BY DEF Typed, TypeOK
<1>2. ASSUME NEW row, acts' = Append(acts, row) PROVE acts'[i] = acts[i]
  BY <1>1, <1>2
<1> QED BY <1>2, TableStep DEF Holds, Claims

-----------------------------------------------------------------------------
\* The list of a reconciliation grows only when it is made, and is empty when
\* none is under way.
LEMMA TodoStep ==
    ASSUME Typed, [Next]_vars, NEW w \in Workers,
           pc[w] \notin Reconciling => todo[w] = {},
           pc[w] \in {"recAudit", "recUpdate"} => loc[w].id \in todo[w]
    PROVE  /\ todo'[w] \subseteq todo[w] \/ ReconcileList(w)
           /\ pc'[w] \notin Reconciling => todo'[w] = {}
           /\ pc'[w] \in {"recAudit", "recUpdate"} => loc'[w].id \in todo'[w]
<1> pc \in [Workers -> PCs] /\ loc \in [Workers -> LocalsType] /\ todo \in [Workers -> SUBSET Nat]
    /\ loc[w] \in LocalsType
  BY DEF Typed, TypeOK
<1>1. CASE UNCHANGED <<pc[w], loc[w], todo[w]>>
  BY <1>1
<1>2. ASSUME NEW i \in todo[w], NextStale(w, i)
      PROVE  /\ todo'[w] \subseteq todo[w] /\ pc'[w] \notin {"recAudit", "recUpdate"}
             /\ pc'[w] \notin Reconciling => todo'[w] = {}
  BY <1>2 DEF NextStale, Goto, Reconciling
<1>3. CASE ReconcileObserve(w)
  <2>1. PICK i \in todo[w] :
           \/ NextStale(w, i)
           \/ /\ Goto(w, "recAudit") /\ UNCHANGED todo
              /\ loc' = [loc EXCEPT ![w] = [NoLocals EXCEPT !.id = i,
                           !.out = ReconciledStatus(acts[i], obs[acts[i].scope].bid)]]
    BY <1>3 DEF ReconcileObserve, ObserveOne
  <2>2. [NoLocals EXCEPT !.id = i,
           !.out = ReconciledStatus(acts[i], obs[acts[i].scope].bid)].id = i
    BY DEF NoLocals
  <2>3. CASE NextStale(w, i)
    BY <1>2, <2>3
  <2>4. CASE ~NextStale(w, i)
    BY <2>1, <2>2, <2>4 DEF Goto, Reconciling
  <2> QED BY <2>3, <2>4
<1>4. CASE ReconcileAudit(w) \/ ReconcileUpdate(w)
  <2>1. \/ NextStale(w, loc[w].id) /\ loc[w].id \in todo[w]
        \/ Goto(w, "recUpdate") /\ UNCHANGED <<loc, todo>> /\ loc[w].id \in todo[w]
    BY <1>4 DEF ReconcileAudit, ReconcileUpdate
  <2> QED BY <1>2, <2>1 DEF Goto, Reconciling
<1>5. CASE ReconcileList(w)
  BY <1>5 DEF ReconcileList, Goto, Reconciling
<1>6. CASE WorkerStep(w) /\ ~(\/ ReconcileObserve(w) \/ ReconcileAudit(w)
                              \/ ReconcileUpdate(w) \/ ReconcileList(w))
  <2>1. /\ todo'[w] = {} \/ UNCHANGED todo[w]
        /\ pc'[w] \notin Reconciling
        /\ pc[w] \notin Reconciling \/ Crash(w)
    BY <1>6 DEF Reconciling, WorkerStep, Progress, Goto, EndJob, NextBinding, RunForWorkspace,
       LoadRunSettings, EndRun, Decide, SyncFetch, CheckUnresolved, LoadCap, ClaimBegin,
       ClaimExec, ReloadSettings, ReloadStrategy, ReloadCap, LeaseBegin, LeaseExec,
       FinishBlocked, WBWrite, WBCall, RecordBidChange, CompleteAction, SyncStore, GuardError,
       LoseLease, Crash
  <2>2. Crash(w) => todo'[w] = {}
    BY DEF Crash
  <2> QED BY <2>1, <2>2 DEF Reconciling
<1>7. WorkerStep(w) \/ UNCHANGED <<pc[w], loc[w], todo[w]>>
  <2>1. CASE UNCHANGED <<pc[w], loc[w], snap[w]>>
    <3>1. CASE \E v \in Workers : WorkerStep(v)
      <4>1. PICK v \in Workers : WorkerStep(v)
        BY <3>1
      <4>2. v # w => UNCHANGED todo[w]
        BY <4>1 DEF WorkerStep, Progress, RunForWorkspace, EndRun, EndJob, Decide,
         SyncFetch, ReconcileList, LoadRunSettings, CheckUnresolved, LoadCap, ClaimBegin, ClaimExec,
         NextBinding, ReloadSettings, ReloadStrategy, ReloadCap, LeaseBegin, LeaseExec, FinishBlocked,
         WBWrite, WBCall, RecordBidChange, CompleteAction, SyncStore, ReconcileObserve,
         ObserveOne, ReconcileAudit, ReconcileUpdate, NextStale, GuardError, LoseLease, Crash
      <4> QED BY <2>1, <4>1, <4>2
    <3>2. CASE ~\E v \in Workers : WorkerStep(v)
      BY <2>1, <3>2 DEF Next, vars, SettingsBegin, SettingsCommit, SetStrategyActive,
              SellerEdit, NextDay
    <3> QED BY <3>1, <3>2
  <2> QED BY <2>1, OthersStep
<1> QED BY <1>1, <1>3, <1>4, <1>5, <1>6, <1>7

\* Who reports on a row in flight: its owner.
LEMMA Untouched ==
    ASSUME FlightInv, [Next]_vars, NEW w \in Workers, pc[w] \in Flight,
           pc'[w] \in Flight, loc'[w].id = loc[w].id
    PROVE  /\ acts'[loc[w].id].status = "pending"
           /\ acts'[loc[w].id].writes >= acts[loc[w].id].writes
<1> DEFINE i == loc[w].id
<1>1. Typed /\ i \in DOMAIN acts /\ acts[i].status = "pending" /\ acts[i].writes \in Nat
  BY HeldRow DEF FlightInv, OnceInv
<1>2. ASSUME NEW v \in Workers, loc[v].id = i, v # w PROVE pc[v] \notin Flight \cup {"recUpdate"}
  BY <1>2 DEF FlightInv, OnceInv
<1>3. ASSUME NEW v \in Workers, loc[v].id = i, CompleteAction(v) \/ FinishBlocked(v)
      PROVE  FALSE
  <2>1. pc[v] \in Flight /\ pc'[v] = "binding"
    BY <1>1, <1>3 DEF CompleteAction, FinishBlocked, NextBinding, Goto, Flight, Typed, TypeOK
  <2> QED BY <1>2, <1>3, <2>1 DEF Flight
<1>4. ASSUME NEW v \in Workers, loc[v].id = i, ReconcileUpdate(v) PROVE FALSE
  <2>1. pc[v] = "recUpdate"
    BY <1>4 DEF ReconcileUpdate
  <2> QED BY <1>2, <1>4, <2>1 DEF Flight
<1> HIDE DEF i
<1>5. CASE \E v \in Workers : loc[v].id = i /\ Moves(v, acts[i], acts'[i])
  <2>1. PICK v \in Workers : loc[v].id = i /\ Moves(v, acts[i], acts'[i])
    BY <1>5
  <2>2. /\ acts'[i].status = acts[i].status
        /\ acts'[i].writes \in {acts[i].writes, acts[i].writes + 1}
    BY <1>3, <1>4, <2>1 DEF Moves
  <2> QED BY <1>1, <2>2 DEF i
<1>6. CASE acts'[i] = acts[i]
  BY <1>1, <1>6 DEF i
<1> QED BY <1>1, <1>5, <1>6, RowStep

LEMMA NextFlight ==
    ASSUME Undisturbed, FlightInv, [Next]_vars PROVE FlightInv'
<1>1. OnceInv /\ OnceInv' /\ Typed /\ Typed'
  BY NextOnce DEF FlightInv, OnceInv
<1>2. acts \in Seq(ActionRow) /\ Len(acts) + 1 \notin DOMAIN acts
      /\ \A w \in Workers : todo[w] \subseteq DOMAIN acts
  BY <1>1 DEF Typed, TypeOK, Control, ControlOK
<1>3. ASSUME NEW w \in Workers
      PROVE  /\ todo'[w] \subseteq todo[w] \/ ReconcileList(w)
             /\ pc'[w] \notin Reconciling => todo'[w] = {}
             /\ pc'[w] \in {"recAudit", "recUpdate"} => loc'[w].id \in todo'[w]
  BY <1>1, TodoStep DEF FlightInv
<1>4. ASSUME NEW w \in Workers, ClaimExec(w), acts' = Append(acts, NewRow(w, "pending"))
      PROVE  acts'[Len(acts) + 1].status = "pending" /\ UNCHANGED todo
  <2>1. acts'[Len(acts) + 1] = NewRow(w, "pending")
    BY <1>2, <1>4
  <2> QED BY <1>4, <2>1 DEF NewRow, ClaimExec
<1>5. ASSUME NEW w \in Workers, pc'[w] \in Flight
      PROVE  acts'[loc'[w].id].status = "pending"
  BY <1>1, <1>4, <1>5, FlightStep, Untouched
<1>6. ASSUME NEW w \in Workers, pc'[w] \in {"record", "complete"}
      PROVE  acts'[loc'[w].id].writes > 0
  <2>1. pc'[w] \in Flight /\ pc'[w] # "reload"
    BY <1>6 DEF Flight
  <2>2. pc[w] \in Flight /\ loc'[w].id = loc[w].id
    BY <1>1, <2>1, FlightStep
  <2>3. /\ loc[w].id \in DOMAIN acts /\ acts[loc[w].id].writes \in Nat
        /\ acts'[loc[w].id].writes \in Nat
        /\ acts'[loc[w].id].writes >= acts[loc[w].id].writes
    <3>1. loc[w].id \in DOMAIN acts /\ acts[loc[w].id].writes \in Nat
      BY <1>1, <2>2, HeldRow
    <3>2. acts'[loc[w].id].writes >= acts[loc[w].id].writes
      BY <2>1, <2>2, Untouched
    <3>3. /\ acts' \in Seq(ActionRow) /\ DOMAIN acts \subseteq DOMAIN acts'
      BY <1>1, StepRows DEF RowsEvolve
    <3>4. acts'[loc[w].id] \in ActionRow
      BY <3>1, <3>3
    <3> QED BY <3>1, <3>2, <3>4, RowFields
  <2>4. CASE pc[w] \in {"record", "complete"}
    BY <2>2, <2>3, <2>4 DEF FlightInv
  <2>5. CASE pc[w] \notin {"record", "complete"}
    <3>1. WorkerStep(w)
      BY <1>1, <1>6, <2>5, OthersStep
    <3>2. PICK out \in Outcomes, lands \in BOOLEAN : WBWrite(w, out, lands)
      BY <1>6, <2>5, <3>1, WorkerTypes, <1>1 DEF WorkerStep, Progress, Goto, EndJob, NextBinding, NextStale,
         RunForWorkspace, LoadRunSettings, EndRun, Decide, SyncFetch, ReconcileList,
         CheckUnresolved, LoadCap, ClaimBegin, ClaimExec, ReloadSettings, ReloadStrategy,
         ReloadCap, LeaseBegin, LeaseExec, FinishBlocked,
         RecordBidChange, CompleteAction, SyncStore, ReconcileObserve, ObserveOne,
         ReconcileAudit, ReconcileUpdate, GuardError, LoseLease, Crash
    <3> DEFINE row(r) == [r EXCEPT !.writes = @ + 1, !.landed = @ \/ lands]
    <3>3. SetRow(loc[w].id, row(acts[loc[w].id]))
      BY <3>2 DEF WBWrite, WBCall
    <3>4. acts[loc[w].id] \in ActionRow
      BY <1>2, <2>3
    <3>5. row(acts[loc[w].id]).writes = acts[loc[w].id].writes + 1
      BY <3>4 DEF ActionRow
    <3> HIDE DEF row
    <3>6. acts'[loc[w].id] = row(acts[loc[w].id])
      BY <1>2, <2>3, <3>3 DEF SetRow
    <3> QED BY <2>2, <2>3, <3>5, <3>6
  <2> QED BY <2>4, <2>5
<1>7. ASSUME NEW v \in Workers, NEW w \in Workers, pc'[v] \in Flight
      PROVE  loc'[v].id \notin todo'[w]
  <2>1. CASE ClaimExec(v) /\ loc'[v].id = Len(acts) + 1 /\ acts' = Append(acts, NewRow(v, "pending"))
    BY <1>2, <1>4, <2>1
  <2>2. CASE pc[v] \in Flight /\ loc'[v].id = loc[v].id
    <3>1. loc[v].id \notin todo[w]
      BY <2>2 DEF FlightInv
    <3>2. CASE ReconcileList(w)
      <4>1. CASE OneWorker
        BY <2>2, <3>2, <4>1 DEF OneWorker, ReconcileList, Flight
      <4>2. CASE PromptWorkers
        <5>1. todo'[w] \subseteq StaleActions
          BY <1>1, <3>2 DEF ReconcileList, Oldest, Typed, TypeOK
        <5>2. InFlight(loc[v].id)
          BY <2>2 DEF InFlight, Flight
        <5> QED BY <2>2, <4>2, <5>1, <5>2 DEF StaleActions
      <4> QED BY <4>1, <4>2 DEF Undisturbed
    <3> QED BY <1>3, <2>2, <3>1, <3>2
  <2> QED BY <1>1, <1>7, <2>1, <2>2, FlightStep
<1> QED BY <1>1, <1>3, <1>5, <1>6, <1>7 DEF FlightInv

-----------------------------------------------------------------------------
(* The table as a BidLedger.                                               *)

\* What BidLedger sees of the table.
Shown(rows) == [i \in DOMAIN rows |-> [status |-> rows[i].status, written |-> rows[i].writes > 0]]

ShownRow == [status : Statuses, written : BOOLEAN]

LEMMA ShownType ==
    ASSUME NEW rows \in Seq(ActionRow)
    PROVE  /\ Shown(rows) \in Seq(ShownRow) /\ DOMAIN Shown(rows) = DOMAIN rows
           /\ Len(Shown(rows)) = Len(rows)
<1>1. ASSUME NEW i \in DOMAIN rows
      PROVE  [status |-> rows[i].status, written |-> rows[i].writes > 0] \in ShownRow
  <2>1. rows[i] \in ActionRow
    OBVIOUS
  <2>2. rows[i].status \in Statuses /\ (rows[i].writes > 0) \in BOOLEAN
    BY <2>1, RowFields
  <2> QED BY <2>2 DEF ShownRow
<1>2. DOMAIN rows = 1 .. Len(rows) /\ Len(rows) \in Nat
  OBVIOUS
<1>3. Shown(rows) \in [1 .. Len(rows) -> ShownRow]
  BY <1>1, <1>2 DEF Shown
<1> QED BY <1>2, <1>3

\* One row written.
LEMMA WrittenSet ==
    ASSUME NEW L \in Seq(ShownRow), NEW M \in Seq(ShownRow), NEW i \in DOMAIN L,
           DOMAIN M = DOMAIN L, \A j \in DOMAIN L : j # i => M[j] = L[j],
           M[i].status = L[i].status, M[i].written
    PROVE  M = [L EXCEPT ![i].written = TRUE]
<1>1. L[i] \in ShownRow /\ M[i] \in ShownRow
  OBVIOUS
<1>2. M[i] = [L[i] EXCEPT !.written = TRUE]
  <2>1. M[i].written = TRUE
    BY <1>1 DEF ShownRow
  <2>2. M[i] = [status |-> M[i].status, written |-> M[i].written]
    BY <1>1 DEF ShownRow
  <2>3. [L[i] EXCEPT !.written = M[i].written] = [status |-> L[i].status, written |-> M[i].written]
    BY <1>1 DEF ShownRow
  <2>4. M[i] = [L[i] EXCEPT !.written = M[i].written]
    BY <2>2, <2>3
  <2> QED BY <2>1, <2>4, Zenon
<1> DEFINE x == [L[i] EXCEPT !.written = TRUE]
<1>3. M[i] = x
  BY <1>2
<1>4. M = [L EXCEPT ![i] = x]
  <2> HIDE DEF x
  <2> QED BY <1>3
<1> QED BY <1>4

\* One status changed.
LEMMA StatusSet ==
    ASSUME NEW L \in Seq(ShownRow), NEW M \in Seq(ShownRow), NEW i \in DOMAIN L,
           DOMAIN M = DOMAIN L, \A j \in DOMAIN L : j # i => M[j] = L[j],
           M[i].written = L[i].written
    PROVE  M = [L EXCEPT ![i].status = M[i].status]
<1>1. L[i] \in ShownRow /\ M[i] \in ShownRow
  OBVIOUS
<1>2. M[i] = [L[i] EXCEPT !.status = M[i].status]
  BY <1>1 DEF ShownRow
<1> DEFINE x == [L[i] EXCEPT !.status = M[i].status]
<1>3. M[i] = x
  BY <1>2
<1>4. M = [L EXCEPT ![i] = x]
  <2> HIDE DEF x
  <2> QED BY <1>3
<1> QED BY <1>4

\* An inserted row is shown at the end, not written.
LEMMA ShownAppend ==
    ASSUME NEW rows \in Seq(ActionRow), NEW row \in ActionRow
    PROVE  Shown(Append(rows, row)) =
             Append(Shown(rows), [status |-> row.status, written |-> row.writes > 0])
<1> DEFINE x == [status |-> row.status, written |-> row.writes > 0]
           a == Shown(Append(rows, row))
           b == Append(Shown(rows), x)
<1>1. x \in ShownRow /\ Append(rows, row) \in Seq(ActionRow) /\ Len(Append(rows, row)) = Len(rows) + 1
  <2>1. row.status \in Statuses /\ (row.writes > 0) \in BOOLEAN
    BY RowFields
  <2> QED BY <2>1 DEF ShownRow
<1>2. a \in Seq(ShownRow) /\ Len(a) = Len(rows) + 1 /\ Len(rows) \in Nat
  <2>1. a \in Seq(ShownRow) /\ Len(a) = Len(Append(rows, row))
    BY <1>1, ShownType
  <2>2. Len(rows) \in Nat
    OBVIOUS
  <2> HIDE DEF a
  <2> QED BY <1>1, <2>1, <2>2
<1>3. Shown(rows) \in Seq(ShownRow) /\ Len(Shown(rows)) = Len(rows)
  BY ShownType
<1>4. b \in Seq(ShownRow) /\ Len(b) = Len(rows) + 1
  BY <1>1, <1>3
<1>5. ASSUME NEW k \in 1 .. Len(rows) + 1 PROVE a[k] = b[k]
  <2>1. k \in DOMAIN Append(rows, row)
    BY <1>1
  <2>2. a[k] = [status |-> Append(rows, row)[k].status, written |-> Append(rows, row)[k].writes > 0]
    BY <2>1 DEF Shown
  <2>3. CASE k = Len(rows) + 1
    <3>1. b[k] = x /\ Append(rows, row)[k] = row
      BY <1>1, <1>2, <1>3, <2>3
    <3> QED BY <2>2, <3>1
  <2>4. CASE k # Len(rows) + 1
    <3>1. k \in DOMAIN rows /\ k \in 1 .. Len(Shown(rows)) /\ Append(rows, row)[k] = rows[k]
      BY <1>2, <1>3, <2>4
    <3>2. b[k] = Shown(rows)[k]
      BY <1>1, <1>3, <3>1
    <3> QED BY <2>2, <3>1, <3>2 DEF Shown
  <2> QED BY <2>3, <2>4
<1> HIDE DEF a, b, x
<1>6. a = b
  BY <1>2, <1>4, <1>5
<1> QED BY <1>6 DEF a, b, x

\* The steps of the ledger, said of what is shown.
LEMMA LedgerMeaning ==
    ASSUME NEW i \in DOMAIN acts
    PROVE  /\ /\ Shown(acts)[i].status = "pending" /\ ~Shown(acts)[i].written
              /\ Shown(acts)' = [Shown(acts) EXCEPT ![i].written = TRUE]
              => Ledger!Next
           /\ \A s \in {"blocked", "applied", "failed", "unknown"} :
                 /\ Shown(acts)[i].status = "pending"
                 /\ Shown(acts)[i].written <=> s # "blocked"
                 /\ Shown(acts)' = [Shown(acts) EXCEPT ![i].status = s]
                 => Ledger!Next
           /\ \A s \in {"applied", "not_applied", "superseded"} :
                 /\ Shown(acts)[i].status \in Unresolved
                 /\ Shown(acts)' = [Shown(acts) EXCEPT ![i].status = s]
                 => Ledger!Next
<1>0. i \in DOMAIN [k \in DOMAIN acts |-> [status |-> acts[k].status, written |-> acts[k].writes > 0]]
  OBVIOUS
<1>1. ASSUME Shown(acts)[i].status = "pending", ~Shown(acts)[i].written,
             Shown(acts)' = [Shown(acts) EXCEPT ![i].written = TRUE]
      PROVE  Ledger!Write(i)
  BY <1>1, Zenon DEF Shown, Ledger!Write
<1>2. ASSUME NEW s \in {"blocked", "applied", "failed", "unknown"},
             Shown(acts)[i].status = "pending", Shown(acts)[i].written <=> s # "blocked",
             Shown(acts)' = [Shown(acts) EXCEPT ![i].status = s]
      PROVE  Ledger!Report(i)
  BY <1>2, Zenon DEF Shown, Ledger!Report
<1>3. ASSUME NEW s \in {"applied", "not_applied", "superseded"},
             Shown(acts)[i].status \in Unresolved,
             Shown(acts)' = [Shown(acts) EXCEPT ![i].status = s]
      PROVE  Ledger!Reconcile(i)
  BY <1>3, Zenon DEF Shown, Ledger!Reconcile, Ledger!Open, Unresolved
<1> QED BY <1>0, <1>1, <1>2, <1>3, Zenon DEF Ledger!Next

\* A statement about a row is a write, a report, a reconciliation or invisible.
LEMMA HoldsShown ==
    ASSUME FlightInv, FlightInv', NEW w \in Workers, Holds(w)
    PROVE  UNCHANGED Shown(acts) \/ Ledger!Next
<1> DEFINE i == loc[w].id
           r == acts[i]
           q == acts'[i]
           L == Shown(acts)
           M == Shown(acts')
<1>1. /\ acts \in Seq(ActionRow) /\ acts' \in Seq(ActionRow) /\ i \in DOMAIN acts
      /\ DOMAIN acts' = DOMAIN acts /\ \A j \in DOMAIN acts : j # i => acts'[j] = acts[j]
      /\ Moves(w, r, q)
  BY DEF Holds, FlightInv, OnceInv, Typed, TypeOK
<1>2. /\ L' = M /\ L \in Seq(ShownRow) /\ M \in Seq(ShownRow)
      /\ DOMAIN M = DOMAIN L /\ i \in DOMAIN L
      /\ \A j \in DOMAIN L : j # i => M[j] = L[j]
      /\ L[i].status = r.status /\ L[i].written = (r.writes > 0)
      /\ M[i].status = q.status /\ M[i].written = (q.writes > 0)
  <2>1. L' = M
    BY DEF Shown
  <2>2. /\ L \in Seq(ShownRow) /\ M \in Seq(ShownRow)
        /\ DOMAIN M = DOMAIN L /\ i \in DOMAIN L /\ DOMAIN L = DOMAIN acts
    BY <1>1, ShownType
  <2>3. \A j \in DOMAIN L : j # i => M[j] = L[j]
    BY <1>1, <2>2 DEF Shown
  <2>4. /\ L[i].status = r.status /\ L[i].written = (r.writes > 0)
        /\ M[i].status = q.status /\ M[i].written = (q.writes > 0)
    BY <1>1 DEF Shown
  <2> QED BY <2>1, <2>2, <2>3, <2>4
<1>3. /\ r.writes \in Nat /\ q.writes \in Nat /\ r.status \in Statuses /\ q.status \in Statuses
  <2>1. r \in ActionRow /\ q \in ActionRow
    BY <1>1
  <2> QED BY <2>1, RowFields
<1>4. ASSUME q.status = r.status, (q.writes > 0) = (r.writes > 0) PROVE L' = L
  <2> HIDE DEF L, M, i, r, q
  <2>1. M[i].status = L[i].status /\ M[i].written = L[i].written
    BY <1>2, <1>4
  <2>2. M[i] \in ShownRow /\ L[i] \in ShownRow
    BY <1>2
  <2>3. M[i] = L[i]
    BY <2>1, <2>2 DEF ShownRow
  <2>4. \A j \in DOMAIN L : M[j] = L[j]
    BY <1>2, <2>3
  <2> QED BY <1>2, <2>4
<1>5. CASE \E out \in Outcomes, lands \in BOOLEAN : WBWrite(w, out, lands)
                /\ q.status = r.status /\ q.writes = r.writes + 1
  <2>1. pc[w] = "write"
    BY <1>5 DEF WBWrite, WBCall
  <2>2. r.status = "pending" /\ r.writes = 0
    BY <2>1 DEF FlightInv, OnceInv, Flight, Unwritten
  <2>3. q.writes > 0 /\ ~(r.writes > 0) /\ q.status = r.status
    BY <1>3, <1>5, <2>2
  <2>4. L' = [L EXCEPT ![i].written = TRUE] /\ L[i].status = "pending" /\ ~L[i].written
    <3> HIDE DEF L, M, i, r, q
    <3>1. M[i].status = L[i].status /\ M[i].written /\ L[i].status = "pending" /\ ~L[i].written
      BY <1>2, <2>2, <2>3
    <3>2. M = [L EXCEPT ![i].written = TRUE]
      BY <1>2, <3>1, WrittenSet
    <3> QED BY <1>2, <3>1, <3>2
  <2> QED BY <1>1, <2>4, LedgerMeaning
<1>6. ASSUME (q.writes > 0) = (r.writes > 0),
             \/ /\ q.status \in {"blocked", "applied", "failed", "unknown"}
                /\ r.status = "pending" /\ (r.writes > 0 <=> q.status # "blocked")
             \/ /\ q.status \in {"applied", "not_applied", "superseded"} /\ r.status \in Unresolved
      PROVE  Ledger!Next
  <2>2. /\ L' = [L EXCEPT ![i].status = q.status]
        /\ L[i].status = r.status /\ L[i].written = (r.writes > 0)
    <3> HIDE DEF L, M, i, r, q
    <3>1. M[i].written = L[i].written /\ M[i].status = q.status
      BY <1>2, <1>6
    <3>2. M = [L EXCEPT ![i].status = M[i].status]
      BY <1>2, <3>1, StatusSet
    <3> QED BY <1>2, <3>1, <3>2
  <2>3. CASE /\ q.status \in {"blocked", "applied", "failed", "unknown"}
             /\ r.status = "pending" /\ (r.writes > 0 <=> q.status # "blocked")
    <3>1. L[i].status = "pending" /\ (L[i].written <=> q.status # "blocked")
      BY <2>2, <2>3
    <3> HIDE DEF r, q
    <3> QED BY <1>1, <2>2, <2>3, <3>1, LedgerMeaning
  <2>4. CASE /\ q.status \in {"applied", "not_applied", "superseded"} /\ r.status \in Unresolved
    <3> HIDE DEF r, q
    <3> QED BY <1>1, <2>2, <2>4, LedgerMeaning
  <2> QED BY <1>6, <2>3, <2>4
<1>7. CASE CompleteAction(w) /\ q.writes = r.writes
           /\ q.status = IF r.status = "pending" THEN loc[w].out ELSE r.status
  <2>1. pc[w] = "complete"
    BY <1>7 DEF CompleteAction
  <2>2. r.status = "pending" /\ r.writes > 0 /\ loc[w].out \in Outcomes
    BY <2>1 DEF FlightInv, OnceInv, Flight, OutOK
  <2> QED BY <1>6, <1>7, <2>2 DEF Outcomes
<1>8. CASE FinishBlocked(w) /\ q.writes = r.writes
           /\ q.status = IF r.status = "pending" THEN "blocked" ELSE r.status
  <2>1. pc[w] = "finish"
    BY <1>8 DEF FinishBlocked
  <2>2. r.status = "pending" /\ r.writes = 0
    BY <2>1 DEF FlightInv, OnceInv, Flight, Unwritten
  <2> QED BY <1>6, <1>8, <2>2
<1>9. CASE ReconcileUpdate(w) /\ q.writes = r.writes
           /\ q.status = IF r.status \in Unresolved THEN loc[w].out ELSE r.status
  <2>1. pc[w] = "recUpdate"
    BY <1>9 DEF ReconcileUpdate
  <2>2. loc[w].out \in {"applied", "not_applied", "superseded"}
    BY <2>1 DEF FlightInv, OnceInv, OutOK
  <2>3. CASE r.status \in Unresolved
    BY <1>6, <1>9, <2>2, <2>3
  <2>4. CASE r.status \notin Unresolved
    BY <1>4, <1>9, <2>4
  <2> QED BY <2>3, <2>4
<1>10. \/ q.status = r.status /\ q.writes = r.writes
       \/ \E out \in Outcomes, lands \in BOOLEAN : WBWrite(w, out, lands)
                /\ q.status = r.status /\ q.writes = r.writes + 1
       \/ CompleteAction(w) /\ q.writes = r.writes
           /\ q.status = IF r.status = "pending" THEN loc[w].out ELSE r.status
       \/ FinishBlocked(w) /\ q.writes = r.writes
           /\ q.status = IF r.status = "pending" THEN "blocked" ELSE r.status
       \/ ReconcileUpdate(w) /\ q.writes = r.writes
           /\ q.status = IF r.status \in Unresolved THEN loc[w].out ELSE r.status
  <2> HIDE DEF r, q
  <2> QED BY <1>1 DEF Moves
<1> HIDE DEF r, q
<1> QED BY <1>4, <1>5, <1>7, <1>8, <1>9, <1>10

\* Every step is a step of the ledger or leaves it as it is.
LEMMA LedgerStep ==
    ASSUME FlightInv, FlightInv', [Next]_vars PROVE UNCHANGED Shown(acts) \/ Ledger!Next
<1>1. Typed /\ acts \in Seq(ActionRow)
  BY DEF FlightInv, OnceInv, Typed, TypeOK
<1>2. CASE UNCHANGED acts
  BY <1>2 DEF Shown
<1>3. CASE \E w \in Workers : Holds(w)
  BY <1>3, HoldsShown
<1>4. CASE \E w \in Workers, status \in {"pending", "blocked"} : Claims(w, status)
  <2>1. PICK w \in Workers, status \in {"pending", "blocked"} : Claims(w, status)
    BY <1>4
  <2> DEFINE row == NewRow(w, status)
  <2>2. /\ acts' = Append(acts, row) /\ row \in ActionRow /\ status \in {"pending", "blocked"}
        /\ row.status = status /\ row.writes = 0
    BY <1>1, <2>1, ClaimRow DEF Claims, ClaimExec, Statuses, Unresolved, Terminal, NewRow
  <2> HIDE DEF row
  <2>3. Shown(acts)' = Append(Shown(acts), [status |-> status, written |-> FALSE])
    <3>1. Shown(acts)' = Shown(Append(acts, row))
      BY <2>2 DEF Shown
    <3>2. (row.writes > 0) = FALSE
      BY <2>2
    <3> QED BY <1>1, <2>2, <3>1, <3>2, ShownAppend
  <2> QED BY <2>2, <2>3 DEF Ledger!Next, Ledger!Claim, Shown
<1> QED BY <1>1, <1>2, <1>3, <1>4, TableStep

LEMMA InitFlight == Init => FlightInv
BY InitTyped DEF Init, FlightInv, OnceInv, WriteOnce, OutOK, Flight, Unwritten, Reconciling

\* wb_bid_actions keeps the promise of BidLedger for every number of workers,
\* whatever crashes and guard errors happen, when reconciliation only takes up
\* actions whose worker is gone, as it does with one worker and with any
\* number that finish within five minutes.
THEOREM LedgerKept == ASSUME Undisturbed PROVE Spec => LedgerSpec
<1>1. Init => Ledger!Init
  BY DEF Init, Ledger!Init
<1>2. FlightInv /\ FlightInv' /\ [Next]_vars => [Ledger!Next]_(Shown(acts))
  BY LedgerStep
<1>3. FlightInv /\ [Next]_vars => FlightInv'
  BY NextFlight
<1> QED BY InitFlight, <1>1, <1>2, <1>3, PTL DEF Spec, LedgerSpec, Ledger!Spec, Shown

-----------------------------------------------------------------------------
(* One worker, as the asynq server runs it (Concurrency 1): what a decision *)
(* was made from still stands when its action is claimed, written and       *)
(* recorded.                                                                *)

Deciding == {"unresolved", "cap", "claim", "claimWait"} \cup Flight

\* The worker decides from the target's last observation and claims on a
\* snapshot nobody has overtaken; the audit row it wrote shows the outcome it
\* is about to store; what it reconciles is unresolved.
SoloOK(w) ==
    /\ pc[w] \in Deciding => /\ loc[w].ver = obs[loc[w].scope].ver
                             /\ loc[w].old = obs[loc[w].scope].bid
                             /\ loc[w].new # loc[w].old
    /\ pc[w] = "claimWait" => /\ snap[w].rows = acts
                              /\ snap[w].ver = obs[loc[w].scope].ver
    /\ pc[w] \in Flight => acts[loc[w].id].ver = obs[acts[loc[w].id].scope].ver
    /\ pc[w] \in {"complete", "recUpdate"} => acts[loc[w].id].audit = loc[w].out
    /\ \A i \in todo[w] : acts[i].status \in Unresolved

\* Rows are claimed on ever later observations of their target, and none while
\* an earlier one that overlaps it is unresolved.
RowsOK ==
    /\ \A i \in DOMAIN acts : /\ acts[i].created = acts[i].ver
                              /\ acts[i].ver <= obs[acts[i].scope].ver
                              /\ acts[i].old # acts[i].new
    /\ \A i, j \in DOMAIN acts :
          i < j => /\ acts[i].status \in Unresolved => ~Overlaps(acts[i].scope, acts[j].scope)
                   /\ acts[i].scope = acts[j].scope => acts[i].ver < acts[j].ver

SoloInv == FlightInv /\ (\A w \in Workers : SoloOK(w)) /\ RowsOK /\ AuditAgrees

\* What a worker's step changes outside its row, and how it comes to a place.
LEMMA WorkerEffects ==
    ASSUME Typed, NEW w \in Workers, WorkerStep(w)
    PROVE  /\ UNCHANGED <<edits, member>>
           /\ UNCHANGED wb \/ \E out \in Outcomes, lands \in BOOLEAN : WBWrite(w, out, lands)
           /\ UNCHANGED obs \/ SyncStore(w)
           /\ pc'[w] = "syncStore" => \E scope \in Scopes : SyncFetch(w, scope)
           /\ pc'[w] = "claimWait" => ClaimBegin(w)
           /\ pc'[w] = "record" => \E out \in Outcomes, lands \in BOOLEAN : WBWrite(w, out, lands)
           /\ pc'[w] = "complete" => RecordBidChange(w)
           /\ pc'[w] = "recAudit" => ReconcileObserve(w)
           /\ pc'[w] = "recUpdate" => ReconcileAudit(w)
<1> pc \in [Workers -> PCs]
  BY WorkerTypes
<1>1. UNCHANGED <<edits, member>>
  BY DEF env, WorkerStep, Progress, RunForWorkspace, LoadRunSettings, EndRun, Decide, SyncFetch,
     ReconcileList, CheckUnresolved, LoadCap, ClaimBegin, ClaimExec, ReloadSettings, ReloadStrategy,
     ReloadCap, LeaseBegin, LeaseExec, FinishBlocked, WBWrite, WBCall, RecordBidChange,
     CompleteAction, SyncStore, ReconcileObserve, ObserveOne, ReconcileAudit, ReconcileUpdate,
     GuardError, LoseLease, Crash
<1>2. UNCHANGED wb \/ \E out \in Outcomes, lands \in BOOLEAN : WBWrite(w, out, lands)
  BY DEF env, WorkerStep, Progress, RunForWorkspace, LoadRunSettings, EndRun, Decide, SyncFetch,
     ReconcileList, CheckUnresolved, LoadCap, ClaimBegin, ClaimExec, ReloadSettings, ReloadStrategy,
     ReloadCap, LeaseBegin, LeaseExec, FinishBlocked, RecordBidChange,
     CompleteAction, SyncStore, ReconcileObserve, ObserveOne, ReconcileAudit, ReconcileUpdate,
     GuardError, LoseLease, Crash
<1>3. UNCHANGED obs \/ SyncStore(w)
  BY DEF db, WorkerStep, Progress, RunForWorkspace, LoadRunSettings, EndRun, Decide, SyncFetch,
     ReconcileList, CheckUnresolved, LoadCap, ClaimBegin, ClaimExec, ReloadSettings, ReloadStrategy,
     ReloadCap, LeaseBegin, LeaseExec, FinishBlocked, WBWrite, WBCall, RecordBidChange,
     CompleteAction, ReconcileObserve, ObserveOne, ReconcileAudit, ReconcileUpdate,
     GuardError, LoseLease, Crash
<1>4. pc'[w] = "syncStore" => \E scope \in Scopes : SyncFetch(w, scope)
  BY DEF WorkerStep, Progress, Goto, EndJob, NextBinding, NextStale, RunForWorkspace,
     LoadRunSettings, EndRun, Decide, ReconcileList, CheckUnresolved, LoadCap, ClaimBegin,
     ClaimExec, ReloadSettings, ReloadStrategy, ReloadCap, LeaseBegin, LeaseExec, FinishBlocked,
     WBWrite, WBCall, RecordBidChange, CompleteAction, SyncStore, ReconcileObserve, ObserveOne,
     ReconcileAudit, ReconcileUpdate, GuardError, LoseLease, Crash
<1>5. pc'[w] = "claimWait" => ClaimBegin(w)
  BY DEF WorkerStep, Progress, Goto, EndJob, NextBinding, NextStale, RunForWorkspace,
     LoadRunSettings, EndRun, Decide, SyncFetch, ReconcileList, CheckUnresolved, LoadCap,
     ClaimExec, ReloadSettings, ReloadStrategy, ReloadCap, LeaseBegin, LeaseExec, FinishBlocked,
     WBWrite, WBCall, RecordBidChange, CompleteAction, SyncStore, ReconcileObserve, ObserveOne,
     ReconcileAudit, ReconcileUpdate, GuardError, LoseLease, Crash
<1>6. pc'[w] = "record" => \E out \in Outcomes, lands \in BOOLEAN : WBWrite(w, out, lands)
  BY DEF WorkerStep, Progress, Goto, EndJob, NextBinding, NextStale, RunForWorkspace,
     LoadRunSettings, EndRun, Decide, SyncFetch, ReconcileList, CheckUnresolved, LoadCap,
     ClaimBegin, ClaimExec, ReloadSettings, ReloadStrategy, ReloadCap, LeaseBegin, LeaseExec,
     FinishBlocked, RecordBidChange, CompleteAction, SyncStore, ReconcileObserve, ObserveOne,
     ReconcileAudit, ReconcileUpdate, GuardError, LoseLease, Crash
<1>7. pc'[w] = "complete" => RecordBidChange(w)
  BY DEF WorkerStep, Progress, Goto, EndJob, NextBinding, NextStale, RunForWorkspace,
     LoadRunSettings, EndRun, Decide, SyncFetch, ReconcileList, CheckUnresolved, LoadCap,
     ClaimBegin, ClaimExec, ReloadSettings, ReloadStrategy, ReloadCap, LeaseBegin, LeaseExec,
     FinishBlocked, WBWrite, WBCall, CompleteAction, SyncStore, ReconcileObserve, ObserveOne,
     ReconcileAudit, ReconcileUpdate, GuardError, LoseLease, Crash
<1>8. pc'[w] = "recAudit" => ReconcileObserve(w)
  BY DEF WorkerStep, Progress, Goto, EndJob, NextBinding, NextStale, RunForWorkspace,
     LoadRunSettings, EndRun, Decide, SyncFetch, ReconcileList, CheckUnresolved, LoadCap,
     ClaimBegin, ClaimExec, ReloadSettings, ReloadStrategy, ReloadCap, LeaseBegin, LeaseExec,
     FinishBlocked, WBWrite, WBCall, RecordBidChange, CompleteAction, SyncStore, ReconcileAudit,
     ReconcileUpdate, GuardError, LoseLease, Crash
<1>9. pc'[w] = "recUpdate" => ReconcileAudit(w)
  BY DEF WorkerStep, Progress, Goto, EndJob, NextBinding, NextStale, RunForWorkspace,
     LoadRunSettings, EndRun, Decide, SyncFetch, ReconcileList, CheckUnresolved, LoadCap,
     ClaimBegin, ClaimExec, ReloadSettings, ReloadStrategy, ReloadCap, LeaseBegin, LeaseExec,
     FinishBlocked, WBWrite, WBCall, RecordBidChange, CompleteAction, SyncStore,
     ReconcileObserve, ObserveOne, ReconcileUpdate, GuardError, LoseLease, Crash
<1> QED BY <1>1, <1>2, <1>3, <1>4, <1>5, <1>6, <1>7, <1>8, <1>9

\* A step that is nobody's: what the workers work with stays, and what WB has
\* changes only by an edit.
Quiet == /\ UNCHANGED <<pc, loc, snap, todo, acts, obs>>
         /\ edits' = edits + 1 \/ UNCHANGED <<edits, wb, member>>

\* With one worker a step is that worker's or nobody's.
LEMMA SoloStep ==
    ASSUME OneWorker, [Next]_vars
    PROVE  Quiet \/ \E w \in Workers : WorkerStep(w) /\ \A v \in Workers : v = w
<1>1. CASE \E v \in Workers : WorkerStep(v)
  BY <1>1 DEF OneWorker
<1>2. CASE ~\E v \in Workers : WorkerStep(v)
  BY <1>2 DEF Next, vars, db, env, SettingsBegin, SettingsCommit, SetStrategyActive, SellerEdit,
              NextDay, Quiet
<1> QED BY <1>1, <1>2

\* From its decision to the end of the action a worker keeps what it decided.
LEMMA DecidingStep ==
    ASSUME Typed, NEW w \in Workers, WorkerStep(w), pc'[w] \in Deciding
    PROVE  \/ /\ pc[w] \in Deciding
              /\ loc'[w].scope = loc[w].scope /\ loc'[w].ver = loc[w].ver
              /\ loc'[w].old = loc[w].old /\ loc'[w].new = loc[w].new
           \/ /\ pc'[w] = "unresolved" /\ loc'[w].scope \in Scopes
              /\ loc'[w].ver = obs[loc'[w].scope].ver /\ loc'[w].old = obs[loc'[w].scope].bid
              /\ loc'[w].new # loc'[w].old
<1> pc \in [Workers -> PCs] /\ loc \in [Workers -> LocalsType] /\ loc[w] \in LocalsType
  BY WorkerTypes
<1> USE DEF Deciding, Flight
<1>1. ~(\/ RunForWorkspace(w) \/ LoadRunSettings(w) \/ EndRun(w) \/ ReconcileList(w)
        \/ (\E scope \in Scopes : SyncFetch(w, scope)) \/ SyncStore(w) \/ Crash(w)
        \/ FinishBlocked(w) \/ CompleteAction(w))
  BY DEF RunForWorkspace, LoadRunSettings, EndRun, EndJob, ReconcileList, SyncFetch, Goto, SyncStore,
     Crash, FinishBlocked, CompleteAction, NextBinding
<1>2. ~(ReconcileObserve(w) \/ ReconcileAudit(w) \/ ReconcileUpdate(w))
  BY DEF ReconcileObserve, ObserveOne, ReconcileAudit, ReconcileUpdate, NextStale, Goto
<1>3. CASE \E scope \in Scopes, new \in Bids : Decide(w, scope, new)
  <2>1. PICK scope \in Scopes, new \in Bids : Decide(w, scope, new)
    BY <1>3
  <2> DEFINE l == [NoLocals EXCEPT !.scope = scope, !.old = obs[scope].bid, !.new = new,
                                   !.ver = obs[scope].ver]
  <2>2. loc'[w] = l /\ pc'[w] = "unresolved" /\ new # obs[scope].bid
    BY <2>1 DEF Decide, Goto
  <2>3. l.scope = scope /\ l.old = obs[scope].bid /\ l.new = new /\ l.ver = obs[scope].ver
    BY DEF NoLocals
  <2> QED BY <2>2, <2>3
<1>4. CASE \/ CheckUnresolved(w) \/ LoadCap(w) \/ ClaimBegin(w) \/ ClaimExec(w)
           \/ ReloadSettings(w) \/ ReloadStrategy(w) \/ ReloadCap(w) \/ LeaseBegin(w) \/ LeaseExec(w)
           \/ GuardError(w) \/ LoseLease(w) \/ RecordBidChange(w)
           \/ \E out \in Outcomes, lands \in BOOLEAN : WBWrite(w, out, lands)
  <2>1. pc[w] \in Deciding
    BY <1>4 DEF CheckUnresolved, LoadCap, ClaimBegin, ClaimExec, ReloadSettings, ReloadStrategy,
       ReloadCap, LeaseBegin, LeaseExec, GuardError, LoseLease, RecordBidChange, WBWrite, WBCall
  <2> DEFINE Kept == \/ loc'[w] = loc[w]
                    \/ \E c : loc'[w] = [loc[w] EXCEPT !.cap = c]
                    \/ \E e, d : loc'[w] = [loc[w] EXCEPT !.cap = e, !.window = d]
                    \/ \E i : loc'[w] = [loc[w] EXCEPT !.id = i]
                    \/ \E o : loc'[w] = [loc[w] EXCEPT !.out = o]
  <2>4. ASSUME \/ CheckUnresolved(w) \/ ClaimBegin(w) \/ LeaseBegin(w) \/ LeaseExec(w)
               \/ GuardError(w) \/ LoseLease(w) \/ RecordBidChange(w)
               \/ ReloadSettings(w) \/ ReloadStrategy(w)
        PROVE  Kept
    <3>1. loc' = loc \/ pc'[w] = "binding"
      BY <2>4 DEF CheckUnresolved, ClaimBegin, ReloadSettings, ReloadStrategy,
         LeaseBegin, LeaseExec, GuardError, LoseLease, RecordBidChange, NextBinding, Goto
    <3> QED BY <3>1
  <2>5. ASSUME LoadCap(w) \/ ReloadCap(w)
        PROVE  Kept
    <3>1. \/ pc'[w] = "binding" \/ loc' = loc
          \/ loc' = [loc EXCEPT ![w] = [@ EXCEPT !.cap = settings.cap]]
          \/ loc' = [loc EXCEPT ![w] = [@ EXCEPT !.cap = settings.cap, !.window = day]]
      BY <2>5 DEF LoadCap, ReloadCap, NextBinding, Goto
    <3>2. \/ loc'[w] = loc[w]
          \/ loc'[w] = [loc[w] EXCEPT !.cap = settings.cap]
          \/ loc'[w] = [loc[w] EXCEPT !.cap = settings.cap, !.window = day]
      BY <3>1
    <3> QED BY <3>2, Zenon
  <2>6. ASSUME ClaimExec(w)
        PROVE  Kept
    <3>1. \/ pc'[w] \in {"binding", "idle"}
          \/ loc' = [loc EXCEPT ![w] = [@ EXCEPT !.id = Len(acts) + 1]]
      BY <2>6 DEF ClaimExec, NextBinding, EndJob, Goto
    <3> QED BY <3>1
  <2>7. ASSUME \E out \in Outcomes, lands \in BOOLEAN : WBWrite(w, out, lands)
        PROVE  Kept
    BY <2>7 DEF WBWrite, WBCall
  <2>2. Kept
    BY <1>4, <2>4, <2>5, <2>6, <2>7
  <2>3. /\ loc'[w].scope = loc[w].scope /\ loc'[w].ver = loc[w].ver
        /\ loc'[w].old = loc[w].old /\ loc'[w].new = loc[w].new
    BY <2>2 DEF LocalsType
  <2> QED BY <2>1, <2>3
<1> QED BY <1>1, <1>2, <1>3, <1>4 DEF WorkerStep, Progress

\* What a claim found, and the row it inserts.
LEMMA ClaimFacts ==
    ASSUME Typed, NEW w \in Workers, NEW status, Claims(w, status)
    PROVE  /\ pc[w] = "claimWait" /\ pc'[w] \in {"idle", "reload"} /\ loc[w].scope \in Scopes
           /\ ~HasUnresolved(snap[w].rows, loc[w].scope) /\ ~KeyTaken(loc[w].scope, loc[w].ver)
           /\ Len(acts) \in Nat /\ DOMAIN acts = 1 .. Len(acts)
           /\ DOMAIN acts' = 1 .. Len(acts) + 1
           /\ \A i \in DOMAIN acts : acts'[i] = acts[i]
           /\ acts'[Len(acts) + 1] = NewRow(w, status)
           /\ status \in {"pending", "blocked"}
           /\ UNCHANGED <<obs, wb, edits>>
<1>1. acts \in Seq(ActionRow) /\ pc \in [Workers -> PCs]
  BY DEF Typed, TypeOK
<1>2. acts' = Append(acts, NewRow(w, status)) /\ ClaimExec(w)
  BY DEF Claims
<1>3. acts' # acts /\ DOMAIN acts' = 1 .. Len(acts) + 1 /\ Len(acts) \in Nat
      /\ DOMAIN acts = 1 .. Len(acts)
      /\ (\A i \in DOMAIN acts : acts'[i] = acts[i]) /\ acts'[Len(acts) + 1] = NewRow(w, status)
  BY <1>1, <1>2
<1>4. /\ pc[w] = "claimWait" /\ pc'[w] \in {"idle", "reload"}
      /\ ~HasUnresolved(snap[w].rows, loc[w].scope) /\ ~KeyTaken(loc[w].scope, loc[w].ver)
      /\ UNCHANGED <<obs, wb, edits>>
  BY <1>1, <1>2, <1>3 DEF ClaimExec, EndJob, Goto, NextBinding, env
<1>5. loc[w].scope \in Scopes
  BY <1>4 DEF Typed, Control, ControlOK
<1> QED BY <1>3, <1>4, <1>5 DEF Claims

\* A later observation of a target has a higher version.
LEMMA ObsStep ==
    ASSUME Typed, NEW w \in Workers, WorkerStep(w), NEW s \in Scopes
    PROVE  /\ obs'[s].ver \in Nat /\ obs[s].ver \in Nat /\ obs'[s].ver >= obs[s].ver
           /\ pc'[w] # "idle" => UNCHANGED obs
<1> obs \in [Scopes -> [bid : Bids, ver : Nat, found : BOOLEAN]] /\ pc \in [Workers -> PCs]
  BY DEF Typed, TypeOK
<1>0. obs[s] \in [bid : Bids, ver : Nat, found : BOOLEAN]
  OBVIOUS
<1>1. CASE SyncStore(w)
  <2>1. PICK b, f, t : obs' = [obs EXCEPT ![t] = [bid |-> b, ver |-> @.ver + 1, found |-> f]]
    BY <1>1 DEF SyncStore
  <2>2. obs'[s] = obs[s] \/ obs'[s] = [bid |-> b, ver |-> obs[s].ver + 1, found |-> f]
    BY <2>1
  <2>3. pc'[w] = "idle"
    BY <1>1 DEF SyncStore, EndJob, Goto
  <2> QED BY <1>0, <2>2, <2>3
<1>2. CASE UNCHANGED obs
  BY <1>0, <1>2
<1> QED BY <1>1, <1>2, WorkerEffects

\* A settled action stays settled; one that settles does so with the outcome
\* its worker holds, or is blocked.
LEMMA StatusMoves ==
    ASSUME NEW w, NEW r, NEW q, Moves(w, r, q)
    PROVE  /\ q.status \in Unresolved => r.status \in Unresolved
           /\ \/ q.status = r.status
              \/ q.status = loc[w].out /\ CompleteAction(w) /\ r.status = "pending"
              \/ q.status = loc[w].out /\ ReconcileUpdate(w) /\ r.status \in Unresolved
              \/ q.status = "blocked" /\ FinishBlocked(w)
           /\ \/ q.audit = r.audit
              \/ q.audit = loc[w].out /\ RecordBidChange(w)
              \/ q.audit = loc[w].out /\ ReconcileAudit(w) /\ r.status \in Unresolved
BY DEF Moves, Unresolved

LEMMA AuditStep ==
    ASSUME Typed, NEW w \in Workers, (RecordBidChange(w) /\ pc'[w] = "complete") \/ (ReconcileAudit(w) /\ pc'[w] = "recUpdate")
    PROVE  loc'[w] = loc[w] /\ acts'[loc[w].id].audit = loc[w].out
<1> DEFINE i == loc[w].id
<1>1. pc[w] \in {"record", "recAudit"}
  BY DEF RecordBidChange, ReconcileAudit
<1>2. i \in DOMAIN acts /\ acts[i] \in ActionRow /\ acts \in Seq(ActionRow)
  BY <1>1, HeldRow DEF Flight, Typed, TypeOK
<1>3. UNCHANGED loc /\ SetRow(i, [acts[i] EXCEPT !.audit = loc[w].out])
  BY DEF RecordBidChange, ReconcileAudit, NextBinding, NextStale, Goto, Typed, TypeOK
<1>4. [acts[i] EXCEPT !.audit = loc[w].out].audit = loc[w].out
  BY <1>2 DEF ActionRow
<1>5. acts'[i] = [acts[i] EXCEPT !.audit = loc[w].out]
  BY <1>2, <1>3 DEF SetRow
<1> QED BY <1>3, <1>4, <1>5

\* The worker's own part of the invariant.
LEMMA NextSoloOK ==
    ASSUME OneWorker, SoloInv, [Next]_vars, NEW w \in Workers, WorkerStep(w),
           \A v \in Workers : v = w
    PROVE  SoloOK(w)'
<1> DEFINE i == loc[w].id
<1>1. Typed /\ Typed' /\ FlightInv /\ FlightInv' /\ RowsEvolve /\ SoloOK(w)
  BY NextFlight, StepRows DEF SoloInv, FlightInv, OnceInv, Undisturbed
<1>2. /\ acts \in Seq(ActionRow) /\ pc \in [Workers -> PCs] /\ loc \in [Workers -> LocalsType]
      /\ snap \in [Workers -> SnapType] /\ obs \in [Scopes -> [bid : Bids, ver : Nat, found : BOOLEAN]]
      /\ todo \in [Workers -> SUBSET Nat]
  BY <1>1 DEF Typed, TypeOK
<1>3. pc'[w] # "idle" => UNCHANGED obs
  <2>1. UNCHANGED obs \/ SyncStore(w)
    BY <1>1, WorkerEffects
  <2>2. SyncStore(w) => pc'[w] = "idle"
    BY <1>2 DEF SyncStore, EndJob, Goto
  <2> QED BY <2>1, <2>2
<1>4. ASSUME pc'[w] \in Deciding
      PROVE  /\ loc'[w].ver = obs'[loc'[w].scope].ver /\ loc'[w].old = obs'[loc'[w].scope].bid
             /\ loc'[w].new # loc'[w].old
  <2>1. UNCHANGED obs
    BY <1>3, <1>4 DEF Deciding, Flight
  <2> QED BY <1>1, <1>4, <2>1, DecidingStep DEF SoloOK
<1>5. ASSUME pc'[w] = "claimWait"
      PROVE  snap'[w].rows = acts' /\ snap'[w].ver = obs'[loc'[w].scope].ver
  <2>1. ClaimBegin(w)
    BY <1>1, <1>5, WorkerEffects
  <2> DEFINE sn == [settings |-> settings, rows |-> acts, day |-> day, ver |-> obs[loc[w].scope].ver]
  <2>2. snap'[w] = sn /\ UNCHANGED <<acts, obs, loc>>
    BY <1>2, <2>1 DEF ClaimBegin, TakeSnapshot, db
  <2>3. sn.rows = acts /\ sn.ver = obs[loc[w].scope].ver
    OBVIOUS
  <2> HIDE DEF sn
  <2> QED BY <2>2, <2>3
<1>6. ASSUME pc'[w] \in Flight
      PROVE  acts'[loc'[w].id].ver = obs'[acts'[loc'[w].id].scope].ver
  <2>1. UNCHANGED obs
    BY <1>3, <1>6 DEF Flight
  <2>2. CASE pc[w] \in Flight /\ loc'[w].id = i
    <3>1. i \in DOMAIN acts /\ acts[i].ver = obs[acts[i].scope].ver
      BY <1>1, <2>2, HeldRow DEF SoloOK
    <3> QED BY <1>1, <2>1, <2>2, <3>1 DEF RowsEvolve
  <2>3. CASE ClaimExec(w) /\ loc'[w].id = Len(acts) + 1 /\ acts' = Append(acts, NewRow(w, "pending"))
    <3>1. acts'[Len(acts) + 1] = NewRow(w, "pending") /\ pc[w] = "claimWait"
      BY <1>2, <2>3 DEF ClaimExec
    <3>2. loc[w].ver = obs[loc[w].scope].ver
      BY <1>1, <3>1 DEF SoloOK, Deciding
    <3> QED BY <2>1, <2>3, <3>1, <3>2 DEF NewRow
  <2> QED BY <1>1, <1>6, <2>2, <2>3, FlightStep
<1>7. ASSUME pc'[w] \in {"complete", "recUpdate"}
      PROVE  acts'[loc'[w].id].audit = loc'[w].out
  <2>1. (RecordBidChange(w) /\ pc'[w] = "complete") \/ (ReconcileAudit(w) /\ pc'[w] = "recUpdate")
    BY <1>1, <1>7, WorkerEffects
  <2>2. loc'[w] = loc[w] /\ acts'[loc[w].id].audit = loc[w].out
    BY <1>1, <2>1, AuditStep
  <2> QED BY <2>2
<1>8. ASSUME NEW j \in todo'[w] PROVE acts'[j].status \in Unresolved
  <2>1. CASE ReconcileList(w)
    <3>1. todo'[w] \subseteq StaleActions /\ UNCHANGED acts
      BY <1>2, <2>1 DEF ReconcileList, Oldest, db
    <3> QED BY <1>8, <3>1 DEF StaleActions
  <2>2. CASE ~ReconcileList(w)
    <3>1. j \in todo[w] /\ j \in DOMAIN acts /\ acts[j].status \in Unresolved
      <4>1. j \in todo[w]
        BY <1>1, <1>8, <2>2, TodoStep DEF FlightInv
      <4> QED BY <1>1, <4>1 DEF SoloOK, Typed, Control, ControlOK
    <3>2. CASE loc[w].id = j /\ Moves(w, acts[j], acts'[j])
      <4>1. ~CompleteAction(w) /\ ~FinishBlocked(w)
        <5>1. pc[w] \notin {"complete", "finish"}
          BY <1>1, <3>1 DEF FlightInv, Reconciling
        <5> QED BY <5>1 DEF CompleteAction, FinishBlocked
      <4>2. ~ReconcileUpdate(w)
        BY <1>2, <1>8, <3>2 DEF ReconcileUpdate, NextStale
      <4> QED BY <3>1, <3>2, <4>1, <4>2, StatusMoves
    <3> QED BY <1>1, <3>1, <3>2, RowStep
  <2> QED BY <2>1, <2>2
<1> QED BY <1>4, <1>5, <1>6, <1>7, <1>8 DEF SoloOK

LEMMA NextRows ==
    ASSUME OneWorker, SoloInv, [Next]_vars, NEW w \in Workers, WorkerStep(w)
    PROVE  RowsOK'
<1>1. Typed /\ Typed' /\ RowsEvolve /\ SoloOK(w) /\ RowsOK
  BY StepRows, NextTyped DEF SoloInv, FlightInv, OnceInv
<1>2. acts \in Seq(ActionRow)
  BY <1>1 DEF Typed, TypeOK
<1> DEFINE New(q) == \E status : Claims(w, status) /\ q = Len(acts) + 1
<1>3. ASSUME NEW j \in DOMAIN acts'
      PROVE  \/ j \in DOMAIN acts /\ SameKey(acts[j], acts'[j])
                /\ (acts'[j].status \in Unresolved => acts[j].status \in Unresolved)
             \/ New(j)
  <2>1. CASE j \in DOMAIN acts
    BY <1>1, <2>1, RowStep, StatusMoves DEF SameKey
  <2>2. CASE j \notin DOMAIN acts
    <3>1. PICK v \in Workers, status \in {"pending", "blocked"} : Claims(v, status)
      BY <1>1, <1>3, <2>2, TableStep DEF Holds
    <3>2. DOMAIN acts' = 1 .. Len(acts) + 1 /\ DOMAIN acts = 1 .. Len(acts) /\ Len(acts) \in Nat
      BY <1>1, <3>1, ClaimFacts
    <3> QED BY <1>3, <2>2, <3>1, <3>2 DEF OneWorker
  <2> QED BY <2>1, <2>2
<1>4. ASSUME NEW status, Claims(w, status)
      PROVE  LET q == acts'[Len(acts) + 1]
             IN  /\ q.scope = loc[w].scope /\ q.ver = loc[w].ver /\ q.created = loc[w].ver
                 /\ q.ver = obs'[q.scope].ver /\ q.ver \in Nat /\ q.old # q.new
                 /\ \A i \in DOMAIN acts :
                       /\ acts[i].status \in Unresolved => ~Overlaps(acts[i].scope, q.scope)
                       /\ acts[i].scope = q.scope => acts[i].ver < q.ver
  <2>1. /\ pc[w] = "claimWait" /\ loc[w].scope \in Scopes /\ acts'[Len(acts) + 1] = NewRow(w, status)
        /\ ~HasUnresolved(snap[w].rows, loc[w].scope) /\ ~KeyTaken(loc[w].scope, loc[w].ver)
        /\ UNCHANGED obs
    BY <1>1, <1>4, ClaimFacts
  <2>2. /\ loc[w].ver = obs[loc[w].scope].ver /\ loc[w].new # loc[w].old
        /\ snap[w].rows = acts /\ snap[w].ver = loc[w].ver
    BY <1>1, <2>1 DEF SoloOK, Deciding
  <2>3. loc[w].ver \in Nat
    BY <1>1 DEF Typed, TypeOK, LocalsType
  <2>4. ASSUME NEW i \in DOMAIN acts
        PROVE  /\ acts[i].status \in Unresolved => ~Overlaps(acts[i].scope, loc[w].scope)
               /\ acts[i].scope = loc[w].scope => acts[i].ver < loc[w].ver
    <3>1. acts[i].ver \in Nat /\ acts[i].ver <= obs[acts[i].scope].ver
      BY <1>1, <1>2, <2>4, RowFields DEF RowsOK
    <3> QED BY <2>1, <2>2, <2>3, <3>1 DEF HasUnresolved, KeyTaken
  <2> QED BY <2>1, <2>2, <2>3, <2>4 DEF NewRow
<1>5. ASSUME NEW j \in DOMAIN acts'
      PROVE  /\ acts'[j].created = acts'[j].ver /\ acts'[j].ver <= obs'[acts'[j].scope].ver
             /\ acts'[j].old # acts'[j].new
  <2>1. CASE j \in DOMAIN acts /\ SameKey(acts[j], acts'[j])
    <3>1. /\ acts[j].created = acts[j].ver /\ acts[j].ver <= obs[acts[j].scope].ver
          /\ acts[j].old # acts[j].new /\ acts[j].ver \in Nat /\ acts[j].scope \in Scopes
      BY <1>1, <1>2, <2>1, RowFields DEF RowsOK
    <3>2. /\ obs'[acts[j].scope].ver \in Nat /\ obs[acts[j].scope].ver \in Nat
          /\ obs'[acts[j].scope].ver >= obs[acts[j].scope].ver
      BY <1>1, <3>1, ObsStep
    <3> QED BY <2>1, <3>1, <3>2 DEF SameKey
  <2>2. CASE New(j)
    BY <1>4, <2>2
  <2> QED BY <1>3, <2>1, <2>2
<1>6. ASSUME NEW i \in DOMAIN acts', NEW j \in DOMAIN acts', i < j
      PROVE  /\ acts'[i].status \in Unresolved => ~Overlaps(acts'[i].scope, acts'[j].scope)
             /\ acts'[i].scope = acts'[j].scope => acts'[i].ver < acts'[j].ver
  <2>1. \A k \in DOMAIN acts : k \in Nat /\ k < Len(acts) + 1 /\ Len(acts) \in Nat
    BY <1>2
  <2> DEFINE Old(k) == k \in DOMAIN acts /\ SameKey(acts[k], acts'[k])
                /\ (acts'[k].status \in Unresolved => acts[k].status \in Unresolved)
  <2>2. CASE Old(i) /\ Old(j)
    <3>1. /\ acts[i].status \in Unresolved => ~Overlaps(acts[i].scope, acts[j].scope)
          /\ acts[i].scope = acts[j].scope => acts[i].ver < acts[j].ver
      BY <1>1, <1>6, <2>2 DEF RowsOK
    <3> QED BY <2>2, <3>1 DEF SameKey
  <2>3. CASE Old(i) /\ New(j)
    <3>1. PICK status : Claims(w, status) /\ j = Len(acts) + 1
      BY <2>3
    <3>2. /\ acts[i].status \in Unresolved => ~Overlaps(acts[i].scope, acts'[j].scope)
          /\ acts[i].scope = acts'[j].scope => acts[i].ver < acts'[j].ver
      BY <1>4, <2>3, <3>1
    <3> QED BY <2>3, <3>2 DEF SameKey
  <2>4. CASE New(i)
    <3>1. j \notin DOMAIN acts /\ Len(acts) \in Nat
      BY <1>2, <1>6, <2>4
    <3>2. j = Len(acts) + 1 /\ i = Len(acts) + 1
      BY <1>3, <2>4, <3>1
    <3> QED BY <1>6, <3>1, <3>2
  <2> QED BY <1>3, <2>2, <2>3, <2>4
<1> QED BY <1>5, <1>6 DEF RowsOK

LEMMA NextAudit ==
    ASSUME OneWorker, SoloInv, [Next]_vars, NEW w \in Workers, WorkerStep(w)
    PROVE  AuditAgrees'
<1>1. Typed /\ SoloOK(w) /\ AuditAgrees /\ FlightInv
  BY DEF SoloInv, FlightInv, OnceInv
<1> SUFFICES ASSUME NEW j \in DOMAIN acts', acts'[j].status \in Terminal \ {"blocked"}
             PROVE  acts'[j].audit = acts'[j].status
  BY DEF AuditAgrees
<1>2. CASE j \notin DOMAIN acts
  <2>1. PICK v \in Workers, status \in {"pending", "blocked"} : Claims(v, status)
    BY <1>1, <1>2, TableStep DEF Holds
  <2>2. /\ DOMAIN acts' = 1 .. Len(acts) + 1 /\ DOMAIN acts = 1 .. Len(acts) /\ Len(acts) \in Nat
        /\ acts'[Len(acts) + 1] = NewRow(v, status) /\ status \in {"pending", "blocked"}
    BY <1>1, <2>1, ClaimFacts
  <2>3. j = Len(acts) + 1
    BY <1>2, <2>2
  <2> QED BY <2>2, <2>3 DEF NewRow, Terminal
<1>3. CASE j \in DOMAIN acts /\ acts'[j] = acts[j]
  BY <1>1, <1>3 DEF AuditAgrees
<1>4. CASE j \in DOMAIN acts /\ loc[w].id = j /\ Moves(w, acts[j], acts'[j])
  <2> DEFINE r == acts[j]
             q == acts'[j]
  <2>1. CASE CompleteAction(w) \/ ReconcileUpdate(w)
    <3>1. pc[w] \in {"complete", "recUpdate"}
      BY <2>1 DEF CompleteAction, ReconcileUpdate
    <3>2. r.audit = loc[w].out
      BY <1>1, <1>4, <3>1 DEF SoloOK
    <3>3. q.audit = r.audit
      BY <1>4, <2>1, <3>1 DEF Moves, CompleteAction, ReconcileUpdate, RecordBidChange, ReconcileAudit
    <3>4. q.status = r.status \/ q.status = loc[w].out
      BY <1>4, <2>1, StatusMoves DEF Terminal
    <3> QED BY <1>1, <1>4, <3>2, <3>3, <3>4 DEF AuditAgrees
  <2>2. CASE RecordBidChange(w) \/ ReconcileAudit(w)
    <3>1. CASE RecordBidChange(w)
      <4>1. pc[w] = "record"
        BY <3>1 DEF RecordBidChange
      <4>2. r.status = "pending"
        BY <1>1, <1>4, <4>1 DEF FlightInv, Flight
      <4>3. q.status = r.status
        BY <1>4, <4>1, StatusMoves DEF CompleteAction, ReconcileUpdate, FinishBlocked
      <4> QED BY <4>2, <4>3 DEF Terminal
    <3>2. CASE ReconcileAudit(w) /\ ~RecordBidChange(w)
      <4>1. pc[w] = "recAudit"
        BY <3>2 DEF ReconcileAudit
      <4>2. q.status = r.status
        BY <1>4, <4>1, StatusMoves DEF CompleteAction, ReconcileUpdate, FinishBlocked
      <4>3. r.status \in Unresolved \/ q.audit = r.audit
        BY <1>4, <3>2, StatusMoves
      <4> QED BY <1>1, <1>4, <4>2, <4>3 DEF AuditAgrees, Terminal, Unresolved
    <3> QED BY <2>2, <3>1, <3>2
  <2>3. CASE ~(\/ CompleteAction(w) \/ ReconcileUpdate(w) \/ RecordBidChange(w) \/ ReconcileAudit(w))
    <3>1. q.audit = r.audit /\ (q.status = r.status \/ q.status = "blocked")
      BY <1>4, <2>3, StatusMoves
    <3> QED BY <1>1, <1>4, <3>1 DEF AuditAgrees, Terminal
  <2> QED BY <2>1, <2>2, <2>3
<1> QED BY <1>1, <1>2, <1>3, <1>4, RowStep DEF OneWorker

LEMMA NextSolo ==
    ASSUME OneWorker, SoloInv, [Next]_vars PROVE SoloInv'
<1>1. FlightInv /\ FlightInv'
  BY NextFlight DEF SoloInv, Undisturbed
<1>2. CASE Quiet
  BY <1>1, <1>2 DEF Quiet, SoloInv, SoloOK, RowsOK, AuditAgrees
<1>3. CASE \E w \in Workers : WorkerStep(w) /\ \A v \in Workers : v = w
  <2>1. PICK w \in Workers : WorkerStep(w) /\ \A v \in Workers : v = w
    BY <1>3
  <2>2. SoloOK(w)' /\ RowsOK' /\ AuditAgrees'
    BY <2>1, NextSoloOK, NextRows, NextAudit
  <2>3. \A v \in Workers : SoloOK(v)'
    BY <2>1, <2>2
  <2> QED BY <1>1, <2>2, <2>3 DEF SoloInv
<1> QED BY <1>2, <1>3, SoloStep

LEMMA InitSolo == Init => SoloInv
BY InitFlight DEF Init, SoloInv, SoloOK, RowsOK, AuditAgrees, Deciding, Flight

-----------------------------------------------------------------------------
\* One worker, no claims two by two: an action of unknown outcome keeps its
\* target, and the targets above and below it, to itself (claim_state).
THEOREM OneTargetAtATime == ASSUME OneWorker PROVE Spec => []UnresolvedExclusive
<1>1. SoloInv => UnresolvedExclusive
  <2> SUFFICES ASSUME SoloInv, NEW i \in DOMAIN acts, NEW j \in DOMAIN acts,
                      acts[i].status \in Unresolved, acts[j].status \in Unresolved,
                      Overlaps(acts[i].scope, acts[j].scope)
               PROVE  i = j
    BY DEF UnresolvedExclusive
  <2>1. i \in Nat /\ j \in Nat
    BY DEF SoloInv, FlightInv, OnceInv, Typed, TypeOK
  <2>2. Overlaps(acts[j].scope, acts[i].scope)
    BY DEF Overlaps, MatchesNullable
  <2> QED BY <2>1, <2>2 DEF SoloInv, RowsOK
<1>2. SoloInv /\ [Next]_vars => SoloInv'
  BY NextSolo
<1> QED BY InitSolo, <1>1, <1>2, PTL DEF Spec

\* With one worker bid_changes shows the final status of every action that
\* reached WB or was reconciled: the audit row is written before the action
\* row, under the same outcome, and nothing comes in between.
THEOREM AuditTells == ASSUME OneWorker PROVE Spec => []AuditAgrees
<1>1. SoloInv => AuditAgrees
  BY DEF SoloInv
<1>2. SoloInv /\ [Next]_vars => SoloInv'
  BY NextSolo
<1> QED BY InitSolo, <1>1, <1>2, PTL DEF Spec

-----------------------------------------------------------------------------
(* What a status says of WB, as long as nobody edits bids in its cabinet.   *)

\* The outcome out of an action is true of its row.
Outcome(row, out) ==
    /\ out = "applied" => row.landed
    /\ out \in {"failed", "not_applied"} => ~row.landed
    /\ out # "superseded"

TruthOK(w) ==
    /\ pc[w] = "syncStore" => loc[w].new = wb[loc[w].scope]
    /\ pc[w] \in Unwritten => ~acts[loc[w].id].landed
    /\ pc[w] \in {"record", "complete", "recAudit", "recUpdate"} =>
          Outcome(acts[loc[w].id], loc[w].out)

\* The synced bid of a target is WB's, unless an action was claimed on that
\* very observation; WB has the new bid of an unresolved action that landed,
\* and the old bid of one that did not.
TruthInv == edits = 0 =>
    /\ member = Scopes
    /\ \A s \in Scopes : \/ obs[s].bid = wb[s]
                         \/ \E i \in DOMAIN acts : acts[i].scope = s /\ acts[i].ver = obs[s].ver
    /\ \A i \in DOMAIN acts :
         acts[i].status \in Unresolved =>
            wb[acts[i].scope] = IF acts[i].landed THEN acts[i].new ELSE acts[i].old
    /\ \A w \in Workers : TruthOK(w)
    /\ StatusTellsTheTruth

\* Rows of unknown outcome are of different targets.
LEMMA OtherTarget ==
    ASSUME SoloInv, NEW i \in DOMAIN acts, NEW j \in DOMAIN acts, i # j,
           acts[i].status \in Unresolved, acts[j].status \in Unresolved
    PROVE  acts[i].scope # acts[j].scope
<1>1. i \in Nat /\ j \in Nat
  BY DEF SoloInv, FlightInv, OnceInv, Typed, TypeOK
<1>2. \A s : Overlaps(s, s)
  BY DEF Overlaps, MatchesNullable
<1>3. acts[i].scope = acts[j].scope => /\ Overlaps(acts[i].scope, acts[j].scope)
                                       /\ Overlaps(acts[j].scope, acts[i].scope)
  BY <1>2
<1> QED BY <1>1, <1>3 DEF SoloInv, RowsOK

\* What a write to WB does.
LEMMA WriteEffects ==
    ASSUME Typed, NEW w \in Workers, NEW out \in Outcomes, NEW lands \in BOOLEAN,
           WBWrite(w, out, lands)
    PROVE  LET i == loc[w].id IN
           /\ pc[w] = "write" /\ pc'[w] = "record" /\ i \in DOMAIN acts /\ acts[i] \in ActionRow
           /\ out = "applied" => lands
           /\ out = "failed" => ~lands
           /\ loc'[w].out = out /\ loc'[w].id = i
           /\ UNCHANGED obs
           /\ wb' = IF lands THEN [wb EXCEPT ![acts[i].scope] = acts[i].new] ELSE wb
           /\ acts'[i].landed = (acts[i].landed \/ lands)
           /\ acts'[i].status = acts[i].status
           /\ \A j \in DOMAIN acts : j # i => acts'[j] = acts[j]
           /\ DOMAIN acts' = DOMAIN acts
<1> DEFINE i == loc[w].id
           row(r) == [r EXCEPT !.writes = @ + 1, !.landed = @ \/ lands]
<1>0. loc \in [Workers -> LocalsType] /\ loc[w] \in LocalsType /\ pc \in [Workers -> PCs]
      /\ acts \in Seq(ActionRow)
  BY DEF Typed, TypeOK
<1>1. /\ pc[w] = "write" /\ pc'[w] = "record"
      /\ out = "applied" => lands
      /\ out = "failed" => ~lands
      /\ loc' = [loc EXCEPT ![w].out = out] /\ UNCHANGED obs
      /\ wb' = IF lands THEN [wb EXCEPT ![acts[i].scope] = acts[i].new] ELSE wb
      /\ SetRow(i, row(acts[i]))
  BY <1>0 DEF WBWrite, WBCall, Goto
<1>2. i \in DOMAIN acts /\ acts[i] \in ActionRow
  BY <1>1, HeldRow DEF Flight
<1>3. loc'[w].out = out /\ loc'[w].id = i
  BY <1>0, <1>1 DEF LocalsType
<1>4. row(acts[i]).landed = (acts[i].landed \/ lands) /\ row(acts[i]).status = acts[i].status
  BY <1>2 DEF ActionRow
<1> HIDE DEF row
<1>5. /\ acts'[i] = row(acts[i]) /\ DOMAIN acts' = DOMAIN acts
      /\ \A j \in DOMAIN acts : j # i => acts'[j] = acts[j]
  BY <1>0, <1>1, <1>2 DEF SetRow
<1> QED BY <1>1, <1>2, <1>3, <1>4, <1>5

\* Before its call an action has not landed.
LEMMA LandedStep ==
    ASSUME NEW w, NEW r, NEW q, Moves(w, r, q),
           ~\E out \in Outcomes, lands \in BOOLEAN : WBWrite(w, out, lands)
    PROVE  q.landed = r.landed
BY DEF Moves

Synced == \A s \in Scopes :
    \/ obs[s].bid = wb[s]
    \/ \E i \in DOMAIN acts : acts[i].scope = s /\ acts[i].ver = obs[s].ver

\* What WB has for the target of an action of unknown outcome.
Standing(i) == wb[acts[i].scope] = IF acts[i].landed THEN acts[i].new ELSE acts[i].old

\* A synced bid is WB's, until an action decided from it.
LEMMA NextSynced ==
    ASSUME OneWorker, SoloInv, [Next]_vars, NEW w \in Workers, WorkerStep(w), Synced,
           TruthOK(w)
    PROVE  Synced'
<1>1. Typed /\ RowsEvolve /\ SoloOK(w)
  BY StepRows DEF SoloInv, FlightInv, OnceInv
<1>2. /\ obs \in [Scopes -> [bid : Bids, ver : Nat, found : BOOLEAN]] /\ wb \in [Scopes -> Bids]
      /\ pc \in [Workers -> PCs] /\ acts \in Seq(ActionRow)
  BY <1>1 DEF Typed, TypeOK
<1> SUFFICES ASSUME NEW s \in Scopes
             PROVE  \/ obs'[s].bid = wb'[s]
                    \/ \E i \in DOMAIN acts' : acts'[i].scope = s /\ acts'[i].ver = obs'[s].ver
  BY DEF Synced
<1>3. ASSUME NEW i \in DOMAIN acts, acts[i].scope = s, acts[i].ver = obs[s].ver, obs'[s] = obs[s]
      PROVE  \E k \in DOMAIN acts' : acts'[k].scope = s /\ acts'[k].ver = obs'[s].ver
  BY <1>1, <1>3 DEF RowsEvolve
<1>4. CASE \E out \in Outcomes, lands \in BOOLEAN : WBWrite(w, out, lands)
  <2>1. PICK out \in Outcomes, lands \in BOOLEAN : WBWrite(w, out, lands)
    BY <1>4
  <2> DEFINE i == loc[w].id
  <2>2. /\ pc[w] = "write" /\ i \in DOMAIN acts /\ acts[i] \in ActionRow /\ UNCHANGED obs
        /\ wb' = IF lands THEN [wb EXCEPT ![acts[i].scope] = acts[i].new] ELSE wb
    BY <1>1, <2>1, WriteEffects
  <2>3. acts[i].ver = obs[acts[i].scope].ver
    BY <1>1, <2>2 DEF SoloOK, Flight
  <2>4. CASE s = acts[i].scope
    BY <1>3, <2>2, <2>3, <2>4
  <2>5. CASE s # acts[i].scope
    BY <1>2, <1>3, <2>2, <2>5 DEF Synced
  <2> QED BY <2>4, <2>5
<1>5. CASE SyncStore(w)
  <2> DEFINE t == loc[w].scope
             b == loc[w].new
  <2>1. /\ pc[w] = "syncStore" /\ UNCHANGED wb
        /\ obs' = [obs EXCEPT ![t] = [bid |-> IF b = None THEN @.bid ELSE b, ver |-> @.ver + 1, found |-> b # None]]
    BY <1>5 DEF SyncStore, env
  <2>2. b = wb[t] /\ t \in Scopes
    BY <1>1, <2>1 DEF TruthOK, Typed, Control, ControlOK
  <2>3. b # None
    BY <1>2, <2>2, NamesAssumption
  <2>4. CASE s = t
    <3>1. obs'[s].bid = b
      BY <1>2, <2>1, <2>2, <2>3, <2>4
    <3> QED BY <2>1, <2>2, <2>4, <3>1
  <2>5. CASE s # t
    <3>1. obs'[s] = obs[s]
      BY <1>2, <2>1, <2>5
    <3> QED BY <1>3, <2>1, <3>1 DEF Synced
  <2> QED BY <2>4, <2>5
<1>6. CASE UNCHANGED <<obs, wb>>
  BY <1>3, <1>6 DEF Synced
<1> QED BY <1>1, <1>4, <1>5, <1>6, WorkerEffects

\* A step of w that is not its call leaves what landed, and WB, alone.
LEMMA LandedKept ==
    ASSUME OneWorker, Typed, [Next]_vars, NEW w \in Workers, WorkerStep(w),
           ~\E out \in Outcomes, lands \in BOOLEAN : WBWrite(w, out, lands)
    PROVE  UNCHANGED wb /\ \A j \in DOMAIN acts : acts'[j].landed = acts[j].landed
<1>1. UNCHANGED wb
  BY WorkerEffects
<1>2. ASSUME NEW j \in DOMAIN acts PROVE acts'[j].landed = acts[j].landed
  <2>1. CASE \E v \in Workers : Moves(v, acts[j], acts'[j])
    <3>1. Moves(w, acts[j], acts'[j])
      BY <2>1 DEF OneWorker
    <3> QED BY <3>1, LandedStep
  <2> QED BY <2>1, RowStep
<1> QED BY <1>1, <1>2

\* A step that inserts a row inserts the claim of w.
LEMMA NewClaim ==
    ASSUME OneWorker, Typed, [Next]_vars, NEW w \in Workers, WorkerStep(w),
           NEW j \in DOMAIN acts', j \notin DOMAIN acts
    PROVE  \E status \in {"pending", "blocked"} :
              Claims(w, status) /\ j = Len(acts) + 1 /\ acts'[j] = NewRow(w, status)
<1>1. PICK v \in Workers, status \in {"pending", "blocked"} : Claims(v, status)
  BY TableStep DEF Holds
<1>2. Claims(w, status)
  BY <1>1 DEF OneWorker
<1>3. /\ DOMAIN acts' = 1 .. Len(acts) + 1 /\ DOMAIN acts = 1 .. Len(acts) /\ Len(acts) \in Nat
      /\ acts'[Len(acts) + 1] = NewRow(w, status)
  BY <1>2, ClaimFacts
<1>4. j = Len(acts) + 1
  BY <1>3
<1> QED BY <1>2, <1>3, <1>4

\* What WB has for the target of an unresolved action is what the action asked
\* for when it took effect, and what was there before when it did not.
LEMMA NextStanding ==
    ASSUME OneWorker, SoloInv, [Next]_vars, NEW w \in Workers, WorkerStep(w), Synced, TruthOK(w),
           \A i \in DOMAIN acts : acts[i].status \in Unresolved => Standing(i),
           NEW j \in DOMAIN acts', acts'[j].status \in Unresolved
    PROVE  Standing(j)'
<1>1. Typed /\ SoloOK(w) /\ FlightInv
  BY DEF SoloInv, FlightInv, OnceInv
<1>2. wb \in [Scopes -> Bids] /\ acts \in Seq(ActionRow)
  BY <1>1 DEF Typed, TypeOK
<1>3. CASE j \notin DOMAIN acts
  <2>1. PICK status \in {"pending", "blocked"} :
           Claims(w, status) /\ j = Len(acts) + 1 /\ acts'[j] = NewRow(w, status)
    BY <1>1, <1>3, NewClaim
  <2>2. /\ pc[w] = "claimWait" /\ loc[w].scope \in Scopes /\ ~KeyTaken(loc[w].scope, loc[w].ver)
        /\ UNCHANGED wb
    BY <1>1, <2>1, ClaimFacts
  <2>3. loc[w].ver = obs[loc[w].scope].ver /\ loc[w].old = obs[loc[w].scope].bid
    BY <1>1, <2>2 DEF SoloOK, Deciding
  <2>4. wb[loc[w].scope] = loc[w].old
    BY <2>2, <2>3 DEF Synced, KeyTaken
  <2>5. acts'[j].scope = loc[w].scope /\ acts'[j].old = loc[w].old /\ acts'[j].landed = FALSE
    BY <2>1 DEF NewRow
  <2> QED BY <2>2, <2>4, <2>5 DEF Standing
<1>4. ASSUME j \in DOMAIN acts
      PROVE  /\ SameKey(acts[j], acts'[j]) /\ acts[j].status \in Unresolved /\ Standing(j)
             /\ acts[j].scope \in Scopes /\ acts[j].landed \in BOOLEAN
  <2>1. SameKey(acts[j], acts'[j]) /\ acts[j].status \in Unresolved
    BY <1>1, <1>4, RowStep, StatusMoves DEF SameKey
  <2> QED BY <1>2, <1>4, <2>1, RowFields
<1>5. CASE j \in DOMAIN acts /\ \E out \in Outcomes, lands \in BOOLEAN : WBWrite(w, out, lands)
  <2> DEFINE i == loc[w].id
  <2>1. PICK out \in Outcomes, lands \in BOOLEAN : WBWrite(w, out, lands)
    BY <1>5
  <2>2. /\ pc[w] = "write" /\ i \in DOMAIN acts /\ acts[i] \in ActionRow
        /\ wb' = IF lands THEN [wb EXCEPT ![acts[i].scope] = acts[i].new] ELSE wb
        /\ acts'[i].landed = (acts[i].landed \/ lands)
        /\ \A k \in DOMAIN acts : k # i => acts'[k] = acts[k]
    BY <1>1, <2>1, WriteEffects
  <2>3. ~acts[i].landed /\ acts[i].status = "pending"
    BY <1>1, <2>2 DEF TruthOK, Unwritten, FlightInv, Flight
  <2>4. CASE j = i
    <3>1. acts'[j].landed = lands
      BY <2>2, <2>3, <2>4
    <3>2. wb'[acts[j].scope] = IF lands THEN acts[j].new ELSE wb[acts[j].scope]
      BY <1>2, <1>4, <1>5, <2>2, <2>4
    <3>3. wb[acts[j].scope] = acts[j].old
      BY <1>4, <1>5, <2>3, <2>4 DEF Standing
    <3> QED BY <1>4, <1>5, <3>1, <3>2, <3>3 DEF Standing, SameKey
  <2>5. CASE j # i
    <3>1. acts[j].scope # acts[i].scope
      BY <1>4, <1>5, <2>2, <2>3, <2>5, OtherTarget DEF Unresolved
    <3>2. wb'[acts[j].scope] = wb[acts[j].scope] /\ acts'[j] = acts[j]
      BY <1>2, <1>4, <1>5, <2>2, <2>5, <3>1
    <3> QED BY <1>4, <1>5, <3>2 DEF Standing
  <2> QED BY <2>4, <2>5
<1>6. CASE j \in DOMAIN acts /\ ~\E out \in Outcomes, lands \in BOOLEAN : WBWrite(w, out, lands)
  <2>1. UNCHANGED wb /\ acts'[j].landed = acts[j].landed
    BY <1>1, <1>6, LandedKept
  <2> QED BY <1>4, <1>6, <2>1 DEF Standing, SameKey
<1> QED BY <1>3, <1>5, <1>6

\* A bid synced after the decision of an unresolved action is what the action
\* left at WB.
LEMMA ObservedTruth ==
    ASSUME SoloInv, Synced, NEW i \in DOMAIN acts, acts[i].status \in Unresolved, Standing(i),
           obs[acts[i].scope].ver > acts[i].ver
    PROVE  Outcome(acts[i], ReconciledStatus(acts[i], obs[acts[i].scope].bid))
<1> DEFINE r == acts[i]
           s == acts[i].scope
<1>1. /\ acts \in Seq(ActionRow) /\ r \in ActionRow /\ s \in Scopes /\ r.ver \in Nat
      /\ obs[s].ver \in Nat /\ RowsOK /\ i \in Nat /\ r.landed \in BOOLEAN
  BY RowFields DEF SoloInv, FlightInv, OnceInv, Typed, TypeOK
<1>2. obs[s].bid = wb[s]
  <2>1. SUFFICES ASSUME NEW k \in DOMAIN acts, acts[k].scope = s, acts[k].ver = obs[s].ver
                 PROVE  FALSE
    BY <1>1 DEF Synced
  <2>2. k \in Nat /\ k # i
    BY <1>1, <2>1
  <2>3. ~(i < k)
    <3>1. Overlaps(s, s)
      BY DEF Overlaps, MatchesNullable
    <3> QED BY <1>1, <2>1, <3>1 DEF RowsOK
  <2>4. ~(k < i)
    BY <1>1, <2>1 DEF RowsOK
  <2> QED BY <1>1, <2>2, <2>3, <2>4
<1>3. r.old # r.new
  BY <1>1 DEF RowsOK
<1>4. obs[s].bid = IF r.landed THEN r.new ELSE r.old
  BY <1>2 DEF Standing
<1> QED BY <1>1, <1>3, <1>4 DEF ReconciledStatus, Outcome

\* What w knows of its action stays true.
LEMMA NextOutcome ==
    ASSUME OneWorker, SoloInv, [Next]_vars, NEW w \in Workers, WorkerStep(w), Synced, TruthOK(w),
           member = Scopes, \A i \in DOMAIN acts : acts[i].status \in Unresolved => Standing(i)
    PROVE  TruthOK(w)'
<1>1. Typed /\ Typed' /\ SoloOK(w) /\ FlightInv
  BY NextTyped DEF SoloInv, FlightInv, OnceInv
<1>2. /\ pc \in [Workers -> PCs] /\ loc \in [Workers -> LocalsType] /\ acts \in Seq(ActionRow)
      /\ loc[w] \in LocalsType
  BY <1>1 DEF Typed, TypeOK
<1> DEFINE Called == \E out \in Outcomes, lands \in BOOLEAN : WBWrite(w, out, lands)
           i == loc[w].id
<1>3. Called => pc'[w] = "record"
  BY <1>2 DEF WBWrite, WBCall, Goto
<1>4. ~Called => UNCHANGED wb /\ \A j \in DOMAIN acts : acts'[j].landed = acts[j].landed
  BY <1>1, LandedKept
<1> HIDE DEF Called
<1>5. ASSUME pc'[w] = "syncStore" PROVE loc'[w].new = wb'[loc'[w].scope]
  <2>1. PICK scope \in Scopes : SyncFetch(w, scope)
    BY <1>1, <1>5, WorkerEffects
  <2> DEFINE l == [NoLocals EXCEPT !.scope = scope,
                                   !.new = IF scope \in member THEN wb[scope] ELSE None]
  <2>2. loc'[w] = l
    BY <1>2, <2>1 DEF SyncFetch
  <2>3. l.scope = scope /\ l.new = wb[scope]
    BY DEF NoLocals
  <2> HIDE DEF l
  <2> QED BY <1>3, <1>4, <1>5, <2>2, <2>3
<1>6. ASSUME pc'[w] \in Unwritten PROVE ~acts'[loc'[w].id].landed
  <2>1. CASE pc[w] \in Unwritten /\ loc'[w].id = i
    <3>1. ~acts[i].landed /\ i \in DOMAIN acts
      BY <1>1, <2>1, HeldRow DEF TruthOK, Unwritten, Flight
    <3> QED BY <1>3, <1>4, <1>6, <2>1, <3>1 DEF Unwritten
  <2>2. CASE loc'[w].id = Len(acts) + 1 /\ acts' = Append(acts, NewRow(w, "pending"))
    <3>1. acts'[Len(acts) + 1] = NewRow(w, "pending")
      BY <1>2, <2>2
    <3> QED BY <2>2, <3>1 DEF NewRow
  <2> QED BY <1>1, <1>6, <2>1, <2>2, UnwrittenStep
<1>7. ASSUME pc'[w] = "record" PROVE Outcome(acts'[loc'[w].id], loc'[w].out)
  <2>1. PICK out \in Outcomes, lands \in BOOLEAN : WBWrite(w, out, lands)
    BY <1>1, <1>7, WorkerEffects
  <2>2. /\ out = "applied" => lands
        /\ out = "failed" => ~lands
        /\ loc'[w].out = out /\ loc'[w].id = i /\ acts'[i].landed = (acts[i].landed \/ lands)
    BY <1>1, <2>1, WriteEffects
  <2>3. ~acts[i].landed
    BY <2>1 DEF TruthOK, Unwritten, WBWrite, WBCall
  <2> QED BY <2>1, <2>2, <2>3 DEF Outcome, Outcomes
<1>8. ASSUME pc'[w] \in {"complete", "recUpdate"} PROVE Outcome(acts'[loc'[w].id], loc'[w].out)
  <2>1. (RecordBidChange(w) /\ pc'[w] = "complete") \/ (ReconcileAudit(w) /\ pc'[w] = "recUpdate")
    BY <1>1, <1>8, WorkerEffects
  <2>2. loc'[w] = loc[w] /\ pc[w] \in {"record", "recAudit"}
    BY <1>1, <2>1, AuditStep DEF RecordBidChange, ReconcileAudit
  <2>3. Outcome(acts[i], loc[w].out) /\ i \in DOMAIN acts
    BY <1>1, <2>2, HeldRow DEF TruthOK, Flight
  <2>4. ~Called
    BY <1>3, <1>8
  <2>5. acts'[i].landed = acts[i].landed
    BY <1>4, <2>3, <2>4
  <2> QED BY <2>2, <2>3, <2>5 DEF Outcome
<1>9. ASSUME pc'[w] = "recAudit" PROVE Outcome(acts'[loc'[w].id], loc'[w].out)
  <2>1. ReconcileObserve(w)
    BY <1>1, <1>9, WorkerEffects
  <2>2. PICK k \in todo[w] :
           ObserveOne(w, k, /\ obs[acts[k].scope].found
                            /\ obs[acts[k].scope].ver > acts[k].created
                            /\ obs[acts[k].scope].ver > acts[k].ver)
    BY <2>1 DEF ReconcileObserve
  <2> DEFINE out == ReconciledStatus(acts[k], obs[acts[k].scope].bid)
  <2>3. /\ loc' = [loc EXCEPT ![w] = [NoLocals EXCEPT !.id = k, !.out = out]]
        /\ obs[acts[k].scope].ver > acts[k].ver /\ UNCHANGED acts
    BY <1>2, <1>9, <2>2 DEF ObserveOne, NextStale, Goto, db
  <2> HIDE DEF out
  <2>4. loc'[w].id = k /\ loc'[w].out = out
    BY <1>2, <2>3 DEF NoLocals
  <2>5. k \in DOMAIN acts /\ acts[k].status \in Unresolved
    BY <1>1, <2>2 DEF SoloOK, Typed, Control, ControlOK
  <2>6. Outcome(acts[k], out)
    BY <2>3, <2>5, ObservedTruth DEF out
  <2> QED BY <2>3, <2>4, <2>6
<1> QED BY <1>5, <1>6, <1>7, <1>8, <1>9 DEF TruthOK

\* What the final statuses say stays true.
LEMMA NextTold ==
    ASSUME OneWorker, SoloInv, [Next]_vars, NEW w \in Workers, WorkerStep(w), TruthOK(w),
           edits = 0, StatusTellsTheTruth
    PROVE  StatusTellsTheTruth'
<1>1. Typed /\ FlightInv
  BY DEF SoloInv, FlightInv, OnceInv
<1> DEFINE Told(r) == /\ r.status = "applied" => r.landed
                      /\ r.status \in {"failed", "not_applied"} => ~r.landed
                      /\ r.status # "superseded"
<1> SUFFICES ASSUME NEW j \in DOMAIN acts' PROVE Told(acts'[j])
  BY DEF StatusTellsTheTruth
<1>2. CASE j \notin DOMAIN acts
  <2>1. PICK status \in {"pending", "blocked"} : acts'[j] = NewRow(w, status)
    BY <1>1, <1>2, NewClaim
  <2> QED BY <2>1 DEF NewRow
<1>3. CASE j \in DOMAIN acts /\ acts'[j] = acts[j]
  BY <1>3 DEF StatusTellsTheTruth
<1>4. CASE j \in DOMAIN acts /\ loc[w].id = j /\ Moves(w, acts[j], acts'[j])
  <2>1. Told(acts[j])
    BY <1>4 DEF StatusTellsTheTruth
  <2>2. CASE \E out \in Outcomes, lands \in BOOLEAN : WBWrite(w, out, lands)
    <3>1. PICK out \in Outcomes, lands \in BOOLEAN : WBWrite(w, out, lands)
      BY <2>2
    <3>2. acts[j].status = "pending" /\ acts'[j].status = acts[j].status
      BY <1>1, <1>4, <3>1, WriteEffects DEF FlightInv, Flight
    <3> QED BY <3>2
  <2>3. CASE ~\E out \in Outcomes, lands \in BOOLEAN : WBWrite(w, out, lands)
    <3>1. acts'[j].landed = acts[j].landed
      BY <1>4, <2>3, LandedStep
    <3>2. CASE acts'[j].status \in {acts[j].status, "blocked"}
      BY <2>1, <3>1, <3>2
    <3>3. CASE acts'[j].status = loc[w].out /\ (CompleteAction(w) \/ ReconcileUpdate(w))
      <4>1. Outcome(acts[j], loc[w].out)
        BY <1>4, <3>3 DEF TruthOK, CompleteAction, ReconcileUpdate
      <4> QED BY <3>1, <3>3, <4>1 DEF Outcome
    <3> QED BY <1>4, <3>2, <3>3, StatusMoves
  <2> QED BY <2>2, <2>3
<1> QED BY <1>1, <1>2, <1>3, <1>4, RowStep DEF OneWorker

LEMMA NextTruth ==
    ASSUME OneWorker, SoloInv, TruthInv, [Next]_vars PROVE TruthInv'
<1>1. Typed /\ Typed' /\ edits \in Nat
  BY NextTyped DEF SoloInv, FlightInv, OnceInv, Typed, TypeOK
<1>2. CASE Quiet
  <2>1. CASE edits' = edits + 1
    BY <1>1, <2>1 DEF TruthInv
  <2>2. CASE UNCHANGED <<edits, wb, member>>
    BY <1>2, <2>2 DEF Quiet, TruthInv, TruthOK, StatusTellsTheTruth
  <2> QED BY <1>2, <2>1, <2>2 DEF Quiet
<1>3. CASE \E w \in Workers : WorkerStep(w) /\ \A v \in Workers : v = w
  <2>1. PICK w \in Workers : WorkerStep(w) /\ \A v \in Workers : v = w
    BY <1>3
  <2> SUFFICES ASSUME edits' = 0
               PROVE  /\ member' = Scopes /\ Synced' /\ StatusTellsTheTruth'
                      /\ \A j \in DOMAIN acts' : acts'[j].status \in Unresolved => Standing(j)'
                      /\ \A v \in Workers : TruthOK(v)'
    BY DEF TruthInv, Synced, Standing
  <2>2. edits = 0 /\ member' = member
    BY <1>1, <2>1, WorkerEffects
  <2>3. /\ member = Scopes /\ Synced /\ TruthOK(w) /\ StatusTellsTheTruth
        /\ \A j \in DOMAIN acts : acts[j].status \in Unresolved => Standing(j)
    BY <2>2 DEF TruthInv, Synced, Standing
  <2>4. Synced' /\ TruthOK(w)' /\ StatusTellsTheTruth'
    BY <2>1, <2>2, <2>3, NextSynced, NextOutcome, NextTold
  <2>5. ASSUME NEW j \in DOMAIN acts', acts'[j].status \in Unresolved PROVE Standing(j)'
    BY <2>1, <2>3, <2>5, NextStanding
  <2>6. \A v \in Workers : TruthOK(v)'
    BY <2>1, <2>4
  <2> QED BY <2>2, <2>3, <2>4, <2>5, <2>6
<1> QED BY <1>2, <1>3, SoloStep

LEMMA InitTruth == Init => TruthInv
<1> SUFFICES ASSUME Init PROVE TruthInv
  OBVIOUS
<1>1. acts = <<>> /\ member = Scopes /\ \A w \in Workers : pc[w] = "idle"
  BY DEF Init
<1>2. \A s \in Scopes : obs[s].bid = wb[s]
  BY DEF Init
<1> QED BY <1>1, <1>2 DEF TruthInv, TruthOK, Unwritten, StatusTellsTheTruth

\* With one worker, and as long as nobody edits bids in the WB cabinet, the
\* final status of an action says whether WB took it: a timed-out call is
\* settled by an observation that is later than the decision, never by the one
\* the decision was made from (ReconcileStaleBidActions).
THEOREM TruthTold == ASSUME OneWorker PROVE Spec => []StatusTellsTheTruth
<1>1. SoloInv /\ TruthInv => StatusTellsTheTruth
  BY DEF TruthInv, StatusTellsTheTruth
<1>2. SoloInv /\ TruthInv /\ [Next]_vars => (SoloInv /\ TruthInv)'
  BY NextSolo, NextTruth
<1> QED BY InitSolo, InitTruth, <1>1, <1>2, PTL DEF Spec

\* With one worker, and as long as nobody edits bids in the WB cabinet, a write
\* starts from the bid WB has: an action that is about to be written is open
\* and has not taken effect, and the bid it was decided from is then still
\* there, because no other decision was let through on that observation
\* (the unique keys of wb_bid_actions) or beside an open action.
THEOREM DecisionsAreCurrent == ASSUME OneWorker PROVE Spec => []ActsOnCurrentBid
<1>1. SoloInv /\ TruthInv => ActsOnCurrentBid
  <2> SUFFICES ASSUME SoloInv, TruthInv, edits = 0, NEW w \in Workers, pc[w] = "write"
               PROVE  wb[acts[loc[w].id].scope] = acts[loc[w].id].old
    BY DEF ActsOnCurrentBid
  <2> DEFINE i == loc[w].id
  <2>1. i \in DOMAIN acts
    BY HeldRow DEF SoloInv, FlightInv, OnceInv, Flight
  <2>2. acts[i].status \in Unresolved
    BY DEF SoloInv, FlightInv, Flight, Unresolved
  <2>3. ~acts[i].landed
    BY DEF TruthInv, TruthOK, Unwritten
  <2> QED BY <2>1, <2>2, <2>3 DEF TruthInv
<1>2. SoloInv /\ TruthInv /\ [Next]_vars => (SoloInv /\ TruthInv)'
  BY NextSolo, NextTruth
<1> QED BY InitSolo, InitTruth, <1>1, <1>2, PTL DEF Spec
=============================================================================
