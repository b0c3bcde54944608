-------------------------- MODULE BidActionsProofs --------------------------
(***************************************************************************)
(* Proofs about BidActions for any number of workers, targets, actions and *)
(* days.                                                                   *)
(***************************************************************************)
EXTENDS BidActions, FiniteSetTheorems, TLAPS

Flight == {"reload", "reloadStrategy", "reloadCap", "lease", "leaseWait", "write",
           "record", "complete", "finish"}

\* What a worker's place in the code says about its locals.
ControlOK(w) ==
    /\ pc[w] \in {"unresolved", "cap", "claim", "claimWait"} \cup Flight =>
           loc[w].scope \in Scopes /\ loc[w].old \in Bids /\ loc[w].new \in Bids
    /\ pc[w] \in Flight \cup {"recAudit", "recUpdate"} => loc[w].id \in DOMAIN acts
    /\ pc[w] \in {"record", "complete", "recAudit", "recUpdate"} =>
           loc[w].out \in Statuses
    /\ pc[w] = "syncStore" => loc[w].scope \in Scopes
    /\ pc[w] \in {"claimWait", "leaseWait"} => snap[w].settings \in SettingsSet
    /\ todo[w] \subseteq DOMAIN acts

Control == \A w \in Workers : ControlOK(w)

Typed == TypeOK /\ Control

-----------------------------------------------------------------------------
LEMMA NoLocalsType == NoLocals \in LocalsType
BY DEF NoLocals, LocalsType

LEMMA NoSnapType == NoSnap \in SnapType
BY DEF NoSnap, SnapType

LEMMA CapType ==
    ASSUME NEW a \in Nat, NEW b \in Nat PROVE EffectiveCap(a, b) \in Nat
BY DEF EffectiveCap

LEMMA SettingsType ==
    ASSUME NEW s \in SettingsSet PROVE s.cap \in Nat /\ s.enabled \in BOOLEAN /\ s.hold \in BOOLEAN
BY SettingsAssumption

\* Replacing one row by a row keeps the table a table of the same length.
LEMMA SetRowType ==
    ASSUME NEW rows \in Seq(ActionRow), NEW i \in DOMAIN rows, NEW row \in ActionRow
    PROVE  /\ [rows EXCEPT ![i] = row] \in Seq(ActionRow)
           /\ DOMAIN [rows EXCEPT ![i] = row] = DOMAIN rows
           /\ Len([rows EXCEPT ![i] = row]) = Len(rows)
OBVIOUS

LEMMA InitTyped == Init => Typed
<1> SUFFICES ASSUME Init PROVE Typed
  OBVIOUS
<1>1. acts \in Seq(ActionRow) /\ strategy \in BOOLEAN
  BY DEF Init
<1>2. pc \in [Workers -> PCs] /\ loc \in [Workers -> LocalsType]
      /\ snap \in [Workers -> SnapType]
  BY NoLocalsType, NoSnapType DEF Init, PCs
<1>3. wb \in [Scopes -> Bids] /\ obs \in [Scopes -> [bid : Bids, ver : Nat, found : BOOLEAN]]
  BY DEF Init
<1>4. TypeOK
  BY <1>1, <1>2, <1>3 DEF Init, TypeOK
<1>5. Control
  BY DEF Init, Control, ControlOK, Flight
<1> QED BY <1>4, <1>5 DEF Typed


-----------------------------------------------------------------------------
(* Typing and control are preserved by every step.                         *)

LEMMA LocalsUpdate ==
    ASSUME NEW l \in LocalsType
    PROVE  /\ \A c \in Nat : [l EXCEPT !.cap = c] \in LocalsType
           /\ \A c, d \in Nat : [l EXCEPT !.cap = c, !.window = d] \in LocalsType
           /\ \A i \in Nat : [l EXCEPT !.id = i] \in LocalsType
           /\ \A o \in Statuses : [l EXCEPT !.out = o] \in LocalsType
BY DEF LocalsType

LEMMA RowUpdate ==
    ASSUME NEW row \in ActionRow
    PROVE  /\ \A s \in Statuses : [row EXCEPT !.status = s] \in ActionRow
           /\ \A s \in Statuses : [row EXCEPT !.audit = s] \in ActionRow
           /\ \A g \in Nat : [row EXCEPT !.grant = g] \in ActionRow
           /\ \A b \in BOOLEAN :
                [row EXCEPT !.writes = @ + 1, !.landed = @ \/ b] \in ActionRow
           /\ row.status \in Statuses
<1>1. \A g \in Nat : [row EXCEPT !.grant = g] \in ActionRow
  BY DEF ActionRow
<1>2. \A s \in Statuses : /\ [row EXCEPT !.status = s] \in ActionRow
                          /\ [row EXCEPT !.audit = s] \in ActionRow
  BY DEF ActionRow
<1>3. ASSUME NEW b \in BOOLEAN
      PROVE  [row EXCEPT !.writes = @ + 1, !.landed = @ \/ b] \in ActionRow
  <2>1. (row.landed \/ b) \in BOOLEAN /\ row.writes + 1 \in Nat
    BY DEF ActionRow
  <2> QED BY <2>1 DEF ActionRow
<1> QED BY <1>1, <1>2, <1>3 DEF ActionRow

\* What every row keeps, and the one way in which it can stop counting.
RowsEvolve ==
    /\ acts' \in Seq(ActionRow)
    /\ DOMAIN acts \subseteq DOMAIN acts'
    /\ \A i \in DOMAIN acts :
         /\ acts'[i].scope = acts[i].scope /\ acts'[i].ver = acts[i].ver
         /\ acts'[i].day = acts[i].day /\ acts'[i].window = acts[i].window
         /\ acts'[i].status \in Counted => acts[i].status \in Counted

LEMMA RowsStutter == ASSUME TypeOK, UNCHANGED acts PROVE RowsEvolve
BY DEF TypeOK, RowsEvolve

\* Replacing row i by one that differs in status, audit or history only.
LEMMA RowsSet ==
    ASSUME TypeOK, NEW i \in DOMAIN acts, NEW row \in ActionRow, SetRow(i, row),
           row.scope = acts[i].scope, row.ver = acts[i].ver,
           row.day = acts[i].day, row.window = acts[i].window,
           row.status \in Counted => acts[i].status \in Counted
    PROVE  RowsEvolve /\ DOMAIN acts' = DOMAIN acts
BY DEF TypeOK, RowsEvolve, SetRow

LEMMA RowsAppend ==
    ASSUME TypeOK, NEW row \in ActionRow, acts' = Append(acts, row)
    PROVE  RowsEvolve /\ Len(acts') = Len(acts) + 1
BY DEF TypeOK, RowsEvolve

\* The actions that write wb_bid_actions or its audit rows.
RowWrite(w) ==
    \/ ClaimExec(w) \/ LeaseExec(w) \/ FinishBlocked(w) \/ CompleteAction(w)
    \/ RecordBidChange(w) \/ ReconcileAudit(w) \/ ReconcileUpdate(w)
    \/ \E out \in Outcomes, lands \in BOOLEAN : WBWrite(w, out, lands)

LEMMA RowWriters ==
    ASSUME [Next]_vars PROVE UNCHANGED acts \/ \E w \in Workers : RowWrite(w)
<1>1. ASSUME NEW w \in Workers, LoadRunSettings(w) \/ CheckUnresolved(w) \/ LoadCap(w)
                              \/ ClaimBegin(w) \/ LeaseBegin(w) \/ SyncStore(w)
      PROVE  UNCHANGED acts
  BY <1>1 DEF db, LoadRunSettings, CheckUnresolved, LoadCap, ClaimBegin, LeaseBegin, SyncStore
<1>2. ASSUME NEW w \in Workers, ReloadSettings(w) \/ ReloadStrategy(w) \/ ReloadCap(w)
                              \/ ReconcileObserve(w)
      PROVE  UNCHANGED acts
  BY <1>2 DEF db, ReloadSettings, ReloadStrategy, ReloadCap, ReconcileObserve, ObserveOne
<1>3. ASSUME NEW w \in Workers, Progress(w), ~RowWrite(w) PROVE UNCHANGED acts
  BY <1>1, <1>2, <1>3 DEF Progress, RowWrite
<1>4. ASSUME NEW w \in Workers, WorkerStep(w), ~Progress(w) PROVE UNCHANGED acts
  BY <1>4 DEF WorkerStep, db, RunForWorkspace, EndRun, Decide, SyncFetch,
         ReconcileList, GuardError, LoseLease, Crash
<1>5. CASE ~\E w \in Workers : WorkerStep(w)
  BY <1>5 DEF Next, vars, db, SettingsBegin, SettingsCommit, SetStrategyActive,
         SellerEdit, NextDay
<1> QED BY <1>3, <1>4, <1>5

\* The row a claim inserts is a row of the table.
LEMMA ClaimRow ==
    ASSUME Typed, NEW w \in Workers, pc[w] = "claimWait",
           NEW status \in Statuses
    PROVE  NewRow(w, status) \in ActionRow
<1>1. loc[w] \in LocalsType /\ snap[w] \in SnapType
  BY DEF Typed, TypeOK
<1>2. loc[w].scope \in Scopes /\ loc[w].old \in Bids /\ loc[w].new \in Bids
  BY DEF Typed, Control, ControlOK
<1> QED BY <1>1, <1>2 DEF NewRow, ActionRow, LocalsType, SnapType

LEMMA ClaimStatusType ==
    ASSUME NEW s, NEW rows, NEW observed, NEW window
    PROVE  ClaimStatus(s, rows, observed, window) \in {"blocked", "pending"}
BY DEF ClaimStatus

\* No step moves a row, changes its day, or makes it count again.
LEMMA StepRows == ASSUME Typed, [Next]_vars PROVE RowsEvolve
<1> USE DEF Typed
<1>1. ASSUME NEW w \in Workers, ClaimExec(w) PROVE RowsEvolve
  <2> DEFINE status == ClaimStatus(snap[w].settings, snap[w].rows,
                                   loc[w].cap, loc[w].window)
  <2>1. status \in Statuses
    BY DEF ClaimStatus, Statuses, Terminal, Unresolved
  <2>2. NewRow(w, status) \in ActionRow
    BY <1>1, <2>1, ClaimRow DEF ClaimExec
  <2>3. UNCHANGED acts \/ acts' = Append(acts, NewRow(w, status))
    BY <1>1 DEF ClaimExec
  <2> QED BY <2>2, <2>3, RowsStutter, RowsAppend
<1>2. ASSUME NEW w \in Workers, LeaseExec(w) PROVE RowsEvolve
  <2>1. CASE UNCHANGED acts
    BY <2>1, RowsStutter
  <2>2. CASE ~UNCHANGED acts
    <3> DEFINE g == EffectiveCap(snap[w].settings.cap, loc[w].cap)
               row == [acts[loc[w].id] EXCEPT !.grant = g]
    <3>1. pc[w] = "leaseWait" /\ SetRow(loc[w].id, row)
      BY <1>2, <2>2 DEF LeaseExec
    <3>2. loc[w].id \in DOMAIN acts /\ acts[loc[w].id] \in ActionRow
      BY <3>1 DEF Control, ControlOK, Flight, TypeOK
    <3>3. g \in Nat
      BY <3>1, SettingsType, CapType DEF Control, ControlOK, TypeOK, LocalsType
    <3>4. row \in ActionRow
      BY <3>2, <3>3, RowUpdate
    <3>5. /\ row.scope = acts[loc[w].id].scope /\ row.ver = acts[loc[w].id].ver
          /\ row.day = acts[loc[w].id].day /\ row.window = acts[loc[w].id].window
          /\ row.status = acts[loc[w].id].status
      BY <3>2 DEF ActionRow
    <3> HIDE DEF row
    <3> QED BY <3>1, <3>2, <3>4, <3>5, RowsSet
  <2> QED BY <2>1, <2>2
<1>3. ASSUME NEW i \in DOMAIN acts, NEW out \in Statuses,
             SetRow(i, Completed(acts[i], out))
      PROVE  RowsEvolve
  <2> DEFINE row == Completed(acts[i], out)
  <2>1. acts[i] \in ActionRow
    BY DEF TypeOK
  <2>2. row \in ActionRow
    BY <2>1, RowUpdate DEF Completed
  <2>3. /\ row.scope = acts[i].scope /\ row.ver = acts[i].ver
        /\ row.day = acts[i].day /\ row.window = acts[i].window
        /\ row.status \in Counted => acts[i].status \in Counted
    BY <2>1 DEF ActionRow, Completed, Counted, Unresolved
  <2> HIDE DEF row
  <2> QED BY <1>3, <2>2, <2>3, RowsSet DEF row
<1>4. ASSUME NEW w \in Workers, FinishBlocked(w) PROVE RowsEvolve
  <2>1. loc[w].id \in DOMAIN acts
    BY <1>4 DEF FinishBlocked, Control, ControlOK, Flight
  <2> QED BY <1>3, <1>4, <2>1 DEF FinishBlocked, Statuses, Terminal
<1>5. ASSUME NEW w \in Workers, CompleteAction(w) PROVE RowsEvolve
  <2>1. loc[w].id \in DOMAIN acts /\ loc[w].out \in Statuses
    BY <1>5 DEF CompleteAction, Control, ControlOK, Flight
  <2> QED BY <1>3, <1>5, <2>1 DEF CompleteAction
<1>6. ASSUME NEW i \in DOMAIN acts, NEW out \in Statuses,
             SetRow(i, [acts[i] EXCEPT !.audit = out])
      PROVE  RowsEvolve
  <2> DEFINE row == [acts[i] EXCEPT !.audit = out]
  <2>1. acts[i] \in ActionRow
    BY DEF TypeOK
  <2>2. row \in ActionRow
    BY <2>1, RowUpdate
  <2>3. /\ row.scope = acts[i].scope /\ row.ver = acts[i].ver
        /\ row.day = acts[i].day /\ row.window = acts[i].window
        /\ row.status = acts[i].status
    BY <2>1 DEF ActionRow
  <2> HIDE DEF row
  <2> QED BY <1>6, <2>2, <2>3, RowsSet DEF row
<1>7. ASSUME NEW w \in Workers, RecordBidChange(w) PROVE RowsEvolve
  <2>1. loc[w].id \in DOMAIN acts /\ loc[w].out \in Statuses
    BY <1>7 DEF RecordBidChange, Control, ControlOK, Flight
  <2> QED BY <1>6, <1>7, <2>1, RowsStutter DEF RecordBidChange
<1>8. ASSUME NEW w \in Workers, ReconcileAudit(w) PROVE RowsEvolve
  <2>1. loc[w].id \in DOMAIN acts /\ loc[w].out \in Statuses
    BY <1>8 DEF ReconcileAudit, Control, ControlOK
  <2> QED BY <1>6, <1>8, <2>1, RowsStutter DEF ReconcileAudit
<1>9. ASSUME NEW w \in Workers, ReconcileUpdate(w) PROVE RowsEvolve
  <2> DEFINE i == loc[w].id
             row == [acts[i] EXCEPT !.status = IF @ \in Unresolved THEN loc[w].out ELSE @]
  <2>1. i \in DOMAIN acts /\ loc[w].out \in Statuses /\ acts[i] \in ActionRow
    BY <1>9 DEF ReconcileUpdate, Control, ControlOK, TypeOK
  <2>2. row \in ActionRow
    BY <2>1, RowUpdate
  <2>3. /\ row.scope = acts[i].scope /\ row.ver = acts[i].ver
        /\ row.day = acts[i].day /\ row.window = acts[i].window
        /\ row.status \in Counted => acts[i].status \in Counted
    BY <2>1 DEF ActionRow, Counted
  <2>4. SetRow(i, row)
    BY <1>9 DEF ReconcileUpdate
  <2> HIDE DEF row
  <2> QED BY <2>1, <2>2, <2>3, <2>4, RowsSet
<1>10. ASSUME NEW w \in Workers, NEW out \in Outcomes, NEW lands \in BOOLEAN,
              WBWrite(w, out, lands)
       PROVE  RowsEvolve
  <2> DEFINE i == loc[w].id
             row == [acts[i] EXCEPT !.writes = @ + 1, !.landed = @ \/ lands]
  <2>1. i \in DOMAIN acts /\ acts[i] \in ActionRow
    BY <1>10 DEF WBWrite, WBCall, Control, ControlOK, Flight, TypeOK
  <2>2. row \in ActionRow
    BY <2>1, RowUpdate
  <2>3. /\ row.scope = acts[i].scope /\ row.ver = acts[i].ver
        /\ row.day = acts[i].day /\ row.window = acts[i].window
        /\ row.status = acts[i].status
    BY <2>1 DEF ActionRow
  <2>4. SetRow(i, row)
    BY <1>10 DEF WBWrite, WBCall
  <2> HIDE DEF row
  <2> QED BY <2>1, <2>2, <2>3, <2>4, RowsSet
<1>11. CASE UNCHANGED acts
  BY <1>11, RowsStutter
<1> QED
  BY <1>1, <1>2, <1>4, <1>5, <1>7, <1>8, <1>9, <1>10, <1>11, RowWriters DEF RowWrite

LEMMA NextTyped == ASSUME Typed, [Next]_vars PROVE Typed'
<1> USE DEF Typed
<1> acts' \in Seq(ActionRow) /\ DOMAIN acts \subseteq DOMAIN acts'
  BY StepRows DEF RowsEvolve
<1>1. ASSUME SettingsBegin PROVE Typed'
  <2>1. loc' \in [Workers -> LocalsType]
    BY <1>1, NoLocalsType DEF SettingsBegin, db, env, Goto, TypeOK
  <2>2. snap' \in [Workers -> SnapType]
    BY <1>1, NoSnapType DEF SettingsBegin, db, env, Goto, TypeOK
  <2>3. TypeOK'
    BY <1>1, <2>1, <2>2 DEF SettingsBegin, db, env, Goto, TypeOK, PCs, BidPCs
  <2>4. Control'
    BY <1>1 DEF SettingsBegin, db, env, Goto, TypeOK, Control, ControlOK, Flight, NoLocals
  <2> QED BY <2>3, <2>4
<1>2. ASSUME NEW s \in SettingsSet, SettingsCommit(s) PROVE Typed'
  <2>1. loc' \in [Workers -> LocalsType]
    BY <1>2, NoLocalsType DEF SettingsCommit, db, env, Goto, RestartLate, TypeOK
  <2>2. snap' \in [Workers -> SnapType]
    BY <1>2, NoSnapType DEF SettingsCommit, db, env, Goto, RestartLate, TypeOK
  <2>3. TypeOK'
    BY <1>2, <2>1, <2>2 DEF SettingsCommit, db, env, Goto, RestartLate, TypeOK, PCs, BidPCs
  <2>4. Control'
    BY <1>2 DEF SettingsCommit, db, env, Goto, RestartLate, TypeOK, Control, ControlOK, Flight, NoLocals
  <2> QED BY <2>3, <2>4
<1>3. ASSUME NEW active \in BOOLEAN, SetStrategyActive(active) PROVE Typed'
  <2>1. loc' \in [Workers -> LocalsType]
    BY <1>3, NoLocalsType DEF SetStrategyActive, db, env, Goto, RestartLate, TypeOK
  <2>2. snap' \in [Workers -> SnapType]
    BY <1>3, NoSnapType DEF SetStrategyActive, db, env, Goto, RestartLate, TypeOK
  <2>3. TypeOK'
    BY <1>3, <2>1, <2>2 DEF SetStrategyActive, db, env, Goto, RestartLate, TypeOK, PCs, BidPCs
  <2>4. Control'
    BY <1>3 DEF SetStrategyActive, db, env, Goto, RestartLate, TypeOK, Control, ControlOK, Flight, NoLocals
  <2> QED BY <2>3, <2>4
<1>4. ASSUME NEW w \in Workers, RunForWorkspace(w) PROVE Typed'
  <2>1. loc' \in [Workers -> LocalsType]
    BY <1>4, NoLocalsType DEF RunForWorkspace, db, env, Goto, TypeOK
  <2>2. snap' \in [Workers -> SnapType]
    BY <1>4, NoSnapType DEF RunForWorkspace, db, env, Goto, TypeOK
  <2>3. TypeOK'
    BY <1>4, <2>1, <2>2 DEF RunForWorkspace, db, env, Goto, TypeOK, PCs, BidPCs
  <2>4. Control'
    BY <1>4 DEF RunForWorkspace, db, env, Goto, TypeOK, Control, ControlOK, Flight, NoLocals
  <2> QED BY <2>3, <2>4
<1>5. ASSUME NEW w \in Workers, LoadRunSettings(w) PROVE Typed'
  <2>1. loc' \in [Workers -> LocalsType]
    BY <1>5, NoLocalsType DEF LoadRunSettings, db, env, Goto, TypeOK
  <2>2. snap' \in [Workers -> SnapType]
    BY <1>5, NoSnapType DEF LoadRunSettings, db, env, Goto, TypeOK
  <2>3. TypeOK'
    BY <1>5, <2>1, <2>2 DEF LoadRunSettings, db, env, Goto, TypeOK, PCs, BidPCs
  <2>4. Control'
    BY <1>5 DEF LoadRunSettings, db, env, Goto, TypeOK, Control, ControlOK, Flight, NoLocals
  <2> QED BY <2>3, <2>4
<1>6. ASSUME NEW w \in Workers, EndRun(w) PROVE Typed'
  <2>1. loc' \in [Workers -> LocalsType]
    BY <1>6, NoLocalsType DEF EndRun, db, env, Goto, EndJob, TypeOK
  <2>2. snap' \in [Workers -> SnapType]
    BY <1>6, NoSnapType DEF EndRun, db, env, Goto, EndJob, TypeOK
  <2>3. TypeOK'
    BY <1>6, <2>1, <2>2 DEF EndRun, db, env, Goto, EndJob, TypeOK, PCs, BidPCs
  <2>4. Control'
    BY <1>6 DEF EndRun, db, env, Goto, EndJob, TypeOK, Control, ControlOK, Flight, NoLocals
  <2> QED BY <2>3, <2>4
<1>7. ASSUME NEW w \in Workers, CheckUnresolved(w) PROVE Typed'
  <2>1. loc' \in [Workers -> LocalsType]
    BY <1>7, NoLocalsType DEF CheckUnresolved, db, env, Goto, NextBinding, TypeOK
  <2>2. snap' \in [Workers -> SnapType]
    BY <1>7, NoSnapType DEF CheckUnresolved, db, env, Goto, NextBinding, TypeOK
  <2>3. TypeOK'
    BY <1>7, <2>1, <2>2 DEF CheckUnresolved, db, env, Goto, NextBinding, TypeOK, PCs, BidPCs
  <2>4. Control'
    BY <1>7 DEF CheckUnresolved, db, env, Goto, NextBinding, TypeOK, Control, ControlOK, Flight, NoLocals
  <2> QED BY <2>3, <2>4
<1>8. ASSUME NEW w \in Workers, LoadCap(w) PROVE Typed'
  <2>1. loc' \in [Workers -> LocalsType]
    <3>1. loc[w] \in LocalsType
      BY DEF TypeOK
    <3>2. CASE Ready(settings)
      <4>1. loc' = [loc EXCEPT ![w] = [loc[w] EXCEPT !.cap = settings.cap, !.window = day]]
        BY <1>8, <3>2 DEF LoadCap, db, env, Goto, NextBinding
      <4>2. [loc[w] EXCEPT !.cap = settings.cap, !.window = day] \in LocalsType
        BY <3>1, <3>2, LocalsUpdate, SettingsType DEF TypeOK
      <4> HIDE DEF TypeOK
      <4> QED BY <4>1, <4>2 DEF TypeOK
    <3>3. CASE ~Ready(settings)
      BY <1>8, <3>3, NoLocalsType DEF LoadCap, db, env, Goto, NextBinding, TypeOK
    <3> QED BY <3>2, <3>3
  <2>2. snap' \in [Workers -> SnapType]
    BY <1>8, NoSnapType DEF LoadCap, db, env, Goto, NextBinding, TypeOK
  <2>3. TypeOK'
    BY <1>8, <2>1, <2>2 DEF LoadCap, db, env, Goto, NextBinding, TypeOK, PCs, BidPCs
  <2>4. Control'
    <3> USE DEF TypeOK, Control, ControlOK, Flight
    <3>1. \A x \in Workers : x # w => loc'[x] = loc[x] /\ pc'[x] = pc[x]
      BY <1>8 DEF LoadCap, db, env, Goto, NextBinding
    <3>2. ControlOK(w)'
      <4>1. loc[w] \in LocalsType /\ loc[w].scope \in Scopes /\ loc[w].old \in Bids /\ loc[w].new \in Bids
        BY <1>8 DEF LoadCap, db, env, Goto, NextBinding
      <4>2. CASE Ready(settings)
        <5>0. loc'[w] = [loc[w] EXCEPT !.cap = settings.cap, !.window = day]
          BY <1>8, <4>2 DEF LoadCap
        <5>1. loc'[w].scope = loc[w].scope /\ loc'[w].old = loc[w].old /\ loc'[w].new = loc[w].new
          BY <4>1, <5>0 DEF LocalsType
        <5> QED BY <1>8, <4>1, <4>2, <5>1 DEF LoadCap, db, env, Goto, NextBinding
      <4>3. CASE ~(Ready(settings))
        BY <1>8, <4>3 DEF LoadCap, db, env, Goto, NextBinding, NoLocals
      <4> QED BY <4>2, <4>3
    <3> QED BY <1>8, <3>1, <3>2 DEF LoadCap, db, env, Goto, NextBinding
  <2> QED BY <2>3, <2>4
<1>9. ASSUME NEW w \in Workers, ClaimBegin(w) PROVE Typed'
  <2>1. loc' \in [Workers -> LocalsType]
    BY <1>9, NoLocalsType DEF ClaimBegin, db, env, Goto, TakeSnapshot, TypeOK
  <2>2. snap' \in [Workers -> SnapType]
    BY <1>9 DEF ClaimBegin, TakeSnapshot, TypeOK, SnapType, Control, ControlOK, Flight
  <2>3. TypeOK'
    BY <1>9, <2>1, <2>2 DEF ClaimBegin, db, env, Goto, TakeSnapshot, TypeOK, PCs, BidPCs
  <2>4. Control'
    BY <1>9 DEF ClaimBegin, db, env, Goto, TakeSnapshot, TypeOK, Control, ControlOK, Flight, NoLocals
  <2> QED BY <2>3, <2>4
<1>10. ASSUME NEW w \in Workers, ReloadSettings(w) PROVE Typed'
  <2>1. loc' \in [Workers -> LocalsType]
    BY <1>10, NoLocalsType DEF ReloadSettings, db, env, Goto, TypeOK
  <2>2. snap' \in [Workers -> SnapType]
    BY <1>10, NoSnapType DEF ReloadSettings, db, env, Goto, TypeOK
  <2>3. TypeOK'
    BY <1>10, <2>1, <2>2 DEF ReloadSettings, db, env, Goto, TypeOK, PCs, BidPCs
  <2>4. Control'
    BY <1>10 DEF ReloadSettings, db, env, Goto, TypeOK, Control, ControlOK, Flight, NoLocals
  <2> QED BY <2>3, <2>4
<1>11. ASSUME NEW w \in Workers, ReloadStrategy(w) PROVE Typed'
  <2>1. loc' \in [Workers -> LocalsType]
    BY <1>11, NoLocalsType DEF ReloadStrategy, db, env, Goto, TypeOK
  <2>2. snap' \in [Workers -> SnapType]
    BY <1>11, NoSnapType DEF ReloadStrategy, db, env, Goto, TypeOK
  <2>3. TypeOK'
    BY <1>11, <2>1, <2>2 DEF ReloadStrategy, db, env, Goto, TypeOK, PCs, BidPCs
  <2>4. Control'
    BY <1>11 DEF ReloadStrategy, db, env, Goto, TypeOK, Control, ControlOK, Flight, NoLocals
  <2> QED BY <2>3, <2>4
<1>12. ASSUME NEW w \in Workers, ReloadCap(w) PROVE Typed'
  <2>1. loc' \in [Workers -> LocalsType]
    <3>1. loc[w] \in LocalsType
      BY DEF TypeOK
    <3>2. CASE Ready(settings)
      <4>1. loc' = [loc EXCEPT ![w] = [loc[w] EXCEPT !.cap = settings.cap]]
        BY <1>12, <3>2 DEF ReloadCap, db, env, Goto
      <4>2. [loc[w] EXCEPT !.cap = settings.cap] \in LocalsType
        BY <3>1, <3>2, LocalsUpdate, SettingsType DEF TypeOK
      <4> HIDE DEF TypeOK
      <4> QED BY <4>1, <4>2 DEF TypeOK
    <3>3. CASE ~Ready(settings)
      BY <1>12, <3>3, NoLocalsType DEF ReloadCap, db, env, Goto, TypeOK
    <3> QED BY <3>2, <3>3
  <2>2. snap' \in [Workers -> SnapType]
    BY <1>12, NoSnapType DEF ReloadCap, db, env, Goto, TypeOK
  <2>3. TypeOK'
    BY <1>12, <2>1, <2>2 DEF ReloadCap, db, env, Goto, TypeOK, PCs, BidPCs
  <2>4. Control'
    <3> USE DEF TypeOK, Control, ControlOK, Flight
    <3>1. \A x \in Workers : x # w => loc'[x] = loc[x] /\ pc'[x] = pc[x]
      BY <1>12 DEF ReloadCap, db, env, Goto
    <3>2. ControlOK(w)'
      <4>1. loc[w] \in LocalsType /\ loc[w].scope \in Scopes /\ loc[w].old \in Bids /\ loc[w].new \in Bids /\ loc[w].id \in DOMAIN acts
        BY <1>12 DEF ReloadCap, db, env, Goto
      <4>2. CASE Ready(settings)
        <5>0. loc'[w] = [loc[w] EXCEPT !.cap = settings.cap]
          BY <1>12, <4>2 DEF ReloadCap
        <5>1. loc'[w].scope = loc[w].scope /\ loc'[w].old = loc[w].old /\ loc'[w].new = loc[w].new /\ loc'[w].id = loc[w].id
          BY <4>1, <5>0 DEF LocalsType
        <5> QED BY <1>12, <4>1, <4>2, <5>1 DEF ReloadCap, db, env, Goto
      <4>3. CASE ~(Ready(settings))
        BY <1>12, <4>3 DEF ReloadCap, db, env, Goto, NoLocals
      <4> QED BY <4>2, <4>3
    <3> QED BY <1>12, <3>1, <3>2 DEF ReloadCap, db, env, Goto
  <2> QED BY <2>3, <2>4
<1>13. ASSUME NEW w \in Workers, LeaseBegin(w) PROVE Typed'
  <2>1. loc' \in [Workers -> LocalsType]
    BY <1>13, NoLocalsType DEF LeaseBegin, db, env, Goto, TakeSnapshot, TypeOK
  <2>2. snap' \in [Workers -> SnapType]
    BY <1>13 DEF LeaseBegin, TakeSnapshot, TypeOK, SnapType, Control, ControlOK, Flight
  <2>3. TypeOK'
    BY <1>13, <2>1, <2>2 DEF LeaseBegin, db, env, Goto, TakeSnapshot, TypeOK, PCs, BidPCs
  <2>4. Control'
    BY <1>13 DEF LeaseBegin, db, env, Goto, TakeSnapshot, TypeOK, Control, ControlOK, Flight, NoLocals
  <2> QED BY <2>3, <2>4
<1>14. ASSUME NEW w \in Workers, GuardError(w) PROVE Typed'
  <2>1. loc' \in [Workers -> LocalsType]
    BY <1>14, NoLocalsType DEF GuardError, db, env, Goto, DropSnapshot, TypeOK
  <2>2. snap' \in [Workers -> SnapType]
    BY <1>14, NoSnapType DEF GuardError, db, env, Goto, DropSnapshot, TypeOK
  <2>3. TypeOK'
    BY <1>14, <2>1, <2>2 DEF GuardError, db, env, Goto, DropSnapshot, TypeOK, PCs, BidPCs
  <2>4. Control'
    BY <1>14 DEF GuardError, db, env, Goto, DropSnapshot, TypeOK, Control, ControlOK, Flight, NoLocals
  <2> QED BY <2>3, <2>4
<1>15. ASSUME NEW w \in Workers, LoseLease(w) PROVE Typed'
  <2>1. loc' \in [Workers -> LocalsType]
    BY <1>15, NoLocalsType DEF LoseLease, db, env, Goto, TypeOK
  <2>2. snap' \in [Workers -> SnapType]
    BY <1>15, NoSnapType DEF LoseLease, db, env, Goto, TypeOK
  <2>3. TypeOK'
    BY <1>15, <2>1, <2>2 DEF LoseLease, db, env, Goto, TypeOK, PCs, BidPCs
  <2>4. Control'
    BY <1>15 DEF LoseLease, db, env, Goto, TypeOK, Control, ControlOK, Flight, NoLocals
  <2> QED BY <2>3, <2>4
<1>16. ASSUME NEW w \in Workers, Crash(w) PROVE Typed'
  <2>1. loc' \in [Workers -> LocalsType]
    BY <1>16, NoLocalsType DEF Crash, db, env, Goto, DropSnapshot, TypeOK
  <2>2. snap' \in [Workers -> SnapType]
    BY <1>16, NoSnapType DEF Crash, db, env, Goto, DropSnapshot, TypeOK
  <2>3. TypeOK'
    BY <1>16, <2>1, <2>2 DEF Crash, db, env, Goto, DropSnapshot, TypeOK, PCs, BidPCs
  <2>4. Control'
    BY <1>16 DEF Crash, db, env, Goto, DropSnapshot, TypeOK, Control, ControlOK, Flight, NoLocals
  <2> QED BY <2>3, <2>4
<1>17. ASSUME NEW w \in Workers, NEW scope \in Scopes, NEW new \in Bids, Decide(w, scope, new) PROVE Typed'
  <2>1. loc' \in [Workers -> LocalsType]
    BY <1>17 DEF Decide, TypeOK, LocalsType, NoLocals
  <2>2. snap' \in [Workers -> SnapType]
    BY <1>17, NoSnapType DEF Decide, db, env, Goto, TypeOK
  <2>3. TypeOK'
    BY <1>17, <2>1, <2>2 DEF Decide, db, env, Goto, TypeOK, PCs, BidPCs
  <2>4. Control'
    BY <1>17 DEF Decide, db, env, Goto, TypeOK, Control, ControlOK, Flight, NoLocals
  <2> QED BY <2>3, <2>4
<1>18. ASSUME NEW w \in Workers, NEW scope \in Scopes, SyncFetch(w, scope) PROVE Typed'
  <2>1. loc' \in [Workers -> LocalsType]
    BY <1>18 DEF SyncFetch, TypeOK, LocalsType, NoLocals
  <2>2. snap' \in [Workers -> SnapType]
    BY <1>18, NoSnapType DEF SyncFetch, db, env, Goto, TypeOK
  <2>3. TypeOK'
    BY <1>18, <2>1, <2>2 DEF SyncFetch, db, env, Goto, TypeOK, PCs, BidPCs
  <2>4. Control'
    BY <1>18 DEF SyncFetch, db, env, Goto, TypeOK, Control, ControlOK, Flight, NoLocals
  <2> QED BY <2>3, <2>4
<1>19. ASSUME NEW w \in Workers, LeaseExec(w) PROVE Typed'
  <2>1. loc' \in [Workers -> LocalsType]
    BY <1>19, NoLocalsType DEF LeaseExec, db, env, Goto, DropSnapshot, TypeOK
  <2>2. snap' \in [Workers -> SnapType]
    BY <1>19, NoSnapType DEF LeaseExec, db, env, Goto, DropSnapshot, TypeOK
  <2>3. TypeOK'
    BY <1>19, <2>1, <2>2 DEF LeaseExec, db, env, Goto, DropSnapshot, TypeOK, PCs, BidPCs
  <2>4. Control'
    BY <1>19 DEF LeaseExec, db, env, Goto, DropSnapshot, TypeOK, Control, ControlOK, Flight, NoLocals
  <2> QED BY <2>3, <2>4
<1>20. ASSUME NEW w \in Workers, FinishBlocked(w) PROVE Typed'
  <2>1. loc' \in [Workers -> LocalsType]
    BY <1>20, NoLocalsType DEF FinishBlocked, db, env, Goto, NextBinding, TypeOK
  <2>2. snap' \in [Workers -> SnapType]
    BY <1>20, NoSnapType DEF FinishBlocked, db, env, Goto, NextBinding, TypeOK
  <2>3. TypeOK'
    BY <1>20, <2>1, <2>2 DEF FinishBlocked, db, env, Goto, NextBinding, TypeOK, PCs, BidPCs
  <2>4. Control'
    BY <1>20 DEF FinishBlocked, db, env, Goto, NextBinding, TypeOK, Control, ControlOK, Flight, NoLocals
  <2> QED BY <2>3, <2>4
<1>21. ASSUME NEW w \in Workers, RecordBidChange(w) PROVE Typed'
  <2>1. loc' \in [Workers -> LocalsType]
    BY <1>21, NoLocalsType DEF RecordBidChange, db, env, Goto, NextBinding, TypeOK
  <2>2. snap' \in [Workers -> SnapType]
    BY <1>21, NoSnapType DEF RecordBidChange, db, env, Goto, NextBinding, TypeOK
  <2>3. TypeOK'
    BY <1>21, <2>1, <2>2 DEF RecordBidChange, db, env, Goto, NextBinding, TypeOK, PCs, BidPCs
  <2>4. Control'
    BY <1>21, SMTT(40) DEF RecordBidChange, db, env, Goto, NextBinding, TypeOK, Control, ControlOK, Flight, NoLocals
  <2> QED BY <2>3, <2>4
<1>22. ASSUME NEW w \in Workers, CompleteAction(w) PROVE Typed'
  <2>1. loc' \in [Workers -> LocalsType]
    BY <1>22, NoLocalsType DEF CompleteAction, db, env, Goto, NextBinding, TypeOK
  <2>2. snap' \in [Workers -> SnapType]
    BY <1>22, NoSnapType DEF CompleteAction, db, env, Goto, NextBinding, TypeOK
  <2>3. TypeOK'
    BY <1>22, <2>1, <2>2 DEF CompleteAction, db, env, Goto, NextBinding, TypeOK, PCs, BidPCs
  <2>4. Control'
    BY <1>22 DEF CompleteAction, db, env, Goto, NextBinding, TypeOK, Control, ControlOK, Flight, NoLocals
  <2> QED BY <2>3, <2>4
<1>23. ASSUME NEW w \in Workers, SyncStore(w) PROVE Typed'
  <2>1. loc' \in [Workers -> LocalsType]
    BY <1>23, NoLocalsType DEF SyncStore, db, env, Goto, EndJob, TypeOK
  <2>2. snap' \in [Workers -> SnapType]
    BY <1>23, NoSnapType DEF SyncStore, db, env, Goto, EndJob, TypeOK
  <2>3. TypeOK'
    <3> DEFINE s == loc[w].scope
               b == loc[w].new
               o == [bid |-> IF b = None THEN obs[s].bid ELSE b,
                     ver |-> obs[s].ver + 1, found |-> b # None]
    <3>1. s \in Scopes /\ b \in Bids \cup {None}
      BY <1>23 DEF SyncStore, Control, ControlOK, TypeOK, LocalsType
    <3>2. obs[s].bid \in Bids /\ obs[s].ver + 1 \in Nat
      BY <3>1 DEF TypeOK
    <3>3. o \in [bid : Bids, ver : Nat, found : BOOLEAN]
      <4> (b # None) \in BOOLEAN
        OBVIOUS
      <4> QED BY <3>1, <3>2
    <3>4. obs' = [obs EXCEPT ![s] = o]
      BY <1>23 DEF SyncStore
    <3> HIDE DEF o
    <3>5. obs' \in [Scopes -> [bid : Bids, ver : Nat, found : BOOLEAN]]
      BY <3>3, <3>4 DEF TypeOK
    <3> QED BY <1>23, <2>1, <2>2, <3>5 DEF SyncStore, EndJob, Goto, env, TypeOK, PCs
  <2>4. Control'
    BY <1>23 DEF SyncStore, db, env, Goto, EndJob, TypeOK, Control, ControlOK, Flight, NoLocals
  <2> QED BY <2>3, <2>4
<1>24. ASSUME NEW w \in Workers, ReconcileList(w) PROVE Typed'
  <2>1. loc' \in [Workers -> LocalsType]
    BY <1>24, NoLocalsType DEF ReconcileList, db, env, Goto, StaleActions, Oldest, TypeOK
  <2>2. snap' \in [Workers -> SnapType]
    BY <1>24, NoSnapType DEF ReconcileList, db, env, Goto, StaleActions, Oldest, TypeOK
  <2>3. TypeOK'
    BY <1>24, <2>1, <2>2 DEF ReconcileList, db, env, Goto, StaleActions, Oldest, TypeOK, PCs, BidPCs
  <2>4. Control'
    BY <1>24 DEF ReconcileList, db, env, Goto, StaleActions, Oldest, TypeOK, Control, ControlOK, Flight, NoLocals
  <2> QED BY <2>3, <2>4
<1>25. ASSUME NEW w \in Workers, ReconcileAudit(w) PROVE Typed'
  <2>1. loc' \in [Workers -> LocalsType]
    BY <1>25, NoLocalsType DEF ReconcileAudit, db, env, Goto, NextStale, TypeOK
  <2>2. snap' \in [Workers -> SnapType]
    BY <1>25, NoSnapType DEF ReconcileAudit, db, env, Goto, NextStale, TypeOK
  <2>3. TypeOK'
    <3>1. todo' \in [Workers -> SUBSET Nat]
      BY <1>25 DEF ReconcileAudit, db, env, Goto, NextStale, TypeOK
    <3>2. pc' \in [Workers -> PCs]
      BY <1>25 DEF ReconcileAudit, db, env, Goto, NextStale, TypeOK, PCs
    <3> QED BY <1>25, <2>1, <2>2, <3>1, <3>2 DEF ReconcileAudit, db, env, Goto, NextStale, TypeOK
  <2>4. Control'
    <3> USE DEF TypeOK, Control, ControlOK, Flight
    <3>1. \A x \in Workers : x # w =>
             loc'[x] = loc[x] /\ pc'[x] = pc[x] /\ todo'[x] = todo[x]
      BY <1>25 DEF ReconcileAudit, db, env, Goto, NextStale
    <3>2. ControlOK(w)'
      <4>1. loc[w].id \in DOMAIN acts /\ loc[w].out \in Statuses
            /\ todo[w] \subseteq DOMAIN acts
        BY <1>25 DEF ReconcileAudit, db, env, Goto, NextStale
      <4>2. CASE acts[loc[w].id].status \in Unresolved
        BY <1>25, <4>1, <4>2 DEF ReconcileAudit, db, env, Goto, NextStale
      <4>3. CASE acts[loc[w].id].status \notin Unresolved
        BY <1>25, <4>1, <4>3 DEF ReconcileAudit, db, env, Goto, NextStale, NoLocals
      <4> QED BY <4>2, <4>3
    <3> QED BY <1>25, <3>1, <3>2 DEF ReconcileAudit, db, env, Goto, NextStale
  <2> QED BY <2>3, <2>4
<1>26. ASSUME NEW w \in Workers, ReconcileUpdate(w) PROVE Typed'
  <2>1. loc' \in [Workers -> LocalsType]
    BY <1>26, NoLocalsType DEF ReconcileUpdate, db, env, Goto, NextStale, TypeOK
  <2>2. snap' \in [Workers -> SnapType]
    BY <1>26, NoSnapType DEF ReconcileUpdate, db, env, Goto, NextStale, TypeOK
  <2>3. TypeOK'
    BY <1>26, <2>1, <2>2 DEF ReconcileUpdate, db, env, Goto, NextStale, TypeOK, PCs, BidPCs
  <2>4. Control'
    BY <1>26 DEF ReconcileUpdate, db, env, Goto, NextStale, TypeOK, Control, ControlOK, Flight, NoLocals
  <2> QED BY <2>3, <2>4
<1>27. ASSUME NEW w \in Workers, ClaimExec(w) PROVE Typed'
  <2>1. loc' \in [Workers -> LocalsType]
    <3>1. loc[w] \in LocalsType /\ Len(acts) + 1 \in Nat
      BY DEF TypeOK
    <3>2. CASE loc' = [loc EXCEPT ![w] = NoLocals]
      BY <3>2, NoLocalsType DEF TypeOK
    <3>3. CASE loc' = [loc EXCEPT ![w] = [loc[w] EXCEPT !.id = Len(acts) + 1]]
      <4>1. [loc[w] EXCEPT !.id = Len(acts) + 1] \in LocalsType
        BY <3>1, LocalsUpdate
      <4> QED BY <3>3, <4>1 DEF TypeOK
    <3> QED BY <1>27, <3>2, <3>3 DEF ClaimExec, NextBinding, EndJob
  <2>2. snap' \in [Workers -> SnapType]
    BY <1>27, NoSnapType DEF ClaimExec, db, env, Goto, NextBinding, EndJob, DropSnapshot, TypeOK
  <2>3. TypeOK'
    BY <1>27, <2>1, <2>2 DEF ClaimExec, db, env, Goto, NextBinding, EndJob, DropSnapshot, TypeOK, PCs, BidPCs
  <2>4. Control'
    <3>1. \A x \in Workers : x # w => loc'[x] = loc[x] /\ pc'[x] = pc[x] /\ snap'[x] = snap[x]
      BY <1>27 DEF ClaimExec, db, env, Goto, NextBinding, EndJob, DropSnapshot, TypeOK
    <3>2. ControlOK(w)'
      <4>1. loc[w] \in LocalsType /\ loc[w].scope \in Scopes /\ loc[w].old \in Bids /\ loc[w].new \in Bids
        BY <1>27 DEF ClaimExec, TypeOK, Control, ControlOK
      <4>2. todo'[w] \subseteq DOMAIN acts'
        BY <1>27 DEF ClaimExec, Control, ControlOK
      <4>3. CASE pc'[w] \in {"idle", "binding"}
        BY <4>2, <4>3 DEF ControlOK, Flight
      <4>4. CASE pc'[w] \notin {"idle", "binding"}
        <5>1. /\ pc'[w] = "reload"
              /\ loc' = [loc EXCEPT ![w].id = Len(acts) + 1]
              /\ \E row \in ActionRow : acts' = Append(acts, row)
          <6> DEFINE status == ClaimStatus(snap[w].settings, snap[w].rows,
                                           loc[w].cap, loc[w].window)
          <6>1. status \in Statuses
            BY ClaimStatusType DEF Statuses, Unresolved, Terminal
          <6>2. NewRow(w, status) \in ActionRow
            BY <1>27, <6>1, ClaimRow DEF ClaimExec
          <6>3. /\ pc'[w] = "reload"
                /\ loc' = [loc EXCEPT ![w].id = Len(acts) + 1]
                /\ acts' = Append(acts, NewRow(w, status))
            BY <1>27, <4>4 DEF ClaimExec, db, env, Goto, NextBinding, EndJob, DropSnapshot, TypeOK
          <6> QED BY <6>2, <6>3
        <5>2. /\ loc'[w].scope = loc[w].scope /\ loc'[w].old = loc[w].old
              /\ loc'[w].new = loc[w].new /\ loc'[w].id = Len(acts) + 1
          BY <4>1, <5>1 DEF TypeOK, LocalsType
        <5>3. Len(acts) + 1 \in DOMAIN acts'
          BY <5>1 DEF TypeOK
        <5> QED BY <4>1, <4>2, <5>1, <5>2, <5>3 DEF ControlOK, Flight
      <4> QED BY <4>3, <4>4
    <3> QED BY <1>27, <3>1, <3>2 DEF ClaimExec, Control, ControlOK
  <2> QED BY <2>3, <2>4
<1>28. ASSUME NEW w \in Workers, NEW out \in Outcomes, NEW lands \in BOOLEAN, WBWrite(w, out, lands) PROVE Typed'
  <2>1. loc' \in [Workers -> LocalsType]
    BY <1>28, LocalsUpdate DEF WBWrite, WBCall, TypeOK, Outcomes, Statuses, Unresolved, Terminal
  <2>2. snap' \in [Workers -> SnapType]
    BY <1>28, NoSnapType DEF WBWrite, db, env, Goto, WBCall, TypeOK
  <2>3. TypeOK'
    <3>1. acts[loc[w].id].scope \in Scopes /\ acts[loc[w].id].new \in Bids
      <4>1. loc[w].id \in DOMAIN acts
        BY <1>28 DEF WBWrite, WBCall, Control, ControlOK, Flight
      <4>2. acts[loc[w].id] \in ActionRow
        BY <4>1 DEF TypeOK
      <4> QED BY <4>2 DEF ActionRow
    <3>2. wb' \in [Scopes -> Bids]
      BY <1>28, <3>1 DEF WBWrite, WBCall, TypeOK
    <3>3. late' \in [Workers -> Nat]
      BY <1>28 DEF WBWrite, WBCall, TypeOK
    <3>4. pc' \in [Workers -> PCs]
      BY <1>28 DEF WBWrite, WBCall, Goto, TypeOK, PCs, BidPCs
    <3> QED BY <1>28, <2>1, <2>2, <3>2, <3>3, <3>4 DEF WBWrite, WBCall, TypeOK
  <2>4. Control'
    <3>1. \A x \in Workers : x # w => loc'[x] = loc[x] /\ pc'[x] = pc[x]
      BY <1>28 DEF WBWrite, db, env, Goto, WBCall, TypeOK
    <3>2. ControlOK(w)'
      <4>1. /\ loc[w] \in LocalsType /\ loc[w].scope \in Scopes /\ loc[w].old \in Bids
            /\ loc[w].new \in Bids /\ loc[w].id \in DOMAIN acts
            /\ todo[w] \subseteq DOMAIN acts
        BY <1>28 DEF WBWrite, WBCall, TypeOK, Control, ControlOK, Flight
      <4>2. loc'[w] = [loc[w] EXCEPT !.out = out] /\ pc'[w] = "record"
        BY <1>28 DEF WBWrite, db, env, Goto, WBCall, TypeOK
      <4>3. out \in Statuses
        BY DEF Outcomes, Statuses, Unresolved, Terminal
      <4>4. UNCHANGED todo
        BY <1>28 DEF WBWrite, WBCall
      <4> QED BY <4>1, <4>2, <4>3, <4>4 DEF ControlOK, Flight, LocalsType
    <3> QED BY <1>28, <3>1, <3>2 DEF WBWrite, WBCall, Control, ControlOK
  <2> QED BY <2>3, <2>4
<1>29. ASSUME NEW w \in Workers, ReconcileObserve(w) PROVE Typed'
  <2> DEFINE seen(i) == [NoLocals EXCEPT !.id = i,
                           !.out = ReconciledStatus(acts[i], obs[acts[i].scope].bid)]
  <2>a. PICK i \in todo[w] :
           \/ NextStale(w, i)
           \/ /\ Goto(w, "recAudit")
              /\ loc' = [loc EXCEPT ![w] = seen(i)]
              /\ UNCHANGED todo
    BY <1>29 DEF ReconcileObserve, ObserveOne
  <2>b. i \in DOMAIN acts /\ i \in Nat
    BY DEF Control, ControlOK, TypeOK
  <2>c. /\ seen(i) \in LocalsType
        /\ seen(i).id = i /\ seen(i).out \in Statuses
    <3>1. ReconciledStatus(acts[i], obs[acts[i].scope].bid) \in Statuses
      BY DEF ReconciledStatus, Statuses, Terminal
    <3> QED BY <2>b, <3>1 DEF NoLocals, LocalsType
  <2>d. UNCHANGED <<settings, strategy, lock, acts, obs, env, snap, left, late>>
    BY <1>29 DEF ReconcileObserve, ObserveOne, db
  <2> HIDE DEF seen
  <2>1. loc' \in [Workers -> LocalsType]
    BY <2>a, <2>c, NoLocalsType DEF NextStale, TypeOK
  <2>2. snap' \in [Workers -> SnapType]
    BY <2>d DEF TypeOK
  <2>3. TypeOK'
    <3>0. todo[w] \ {i} \in SUBSET Nat /\ todo \in [Workers -> SUBSET Nat]
      BY DEF TypeOK
    <3>1. todo' \in [Workers -> SUBSET Nat]
      <4>1. todo' = [todo EXCEPT ![w] = todo[w] \ {i}] \/ UNCHANGED todo
        BY <2>a DEF NextStale
      <4> QED BY <3>0, <4>1
    <3>2. \E p \in PCs : pc' = [pc EXCEPT ![w] = p]
      BY <2>a DEF NextStale, Goto, PCs
    <3>3. pc' \in [Workers -> PCs]
      BY <3>2 DEF TypeOK
    <3> QED BY <2>1, <2>2, <2>d, <3>1, <3>3 DEF TypeOK, env
  <2>4. Control'
    <3>1. \A x \in Workers : x # w =>
             loc'[x] = loc[x] /\ pc'[x] = pc[x] /\ todo'[x] = todo[x]
      BY <2>a DEF NextStale, Goto, TypeOK
    <3>2. ControlOK(w)'
      <4>1. CASE NextStale(w, i)
        BY <4>1, <2>d DEF NextStale, Goto, TypeOK, Control, ControlOK, Flight
      <4>2. CASE loc' = [loc EXCEPT ![w] = seen(i)] /\ Goto(w, "recAudit") /\ UNCHANGED todo
        BY <4>2, <2>b, <2>c, <2>d DEF Goto, TypeOK, Control, ControlOK, Flight
      <4> QED BY <2>a, <4>1, <4>2
    <3> QED BY <2>d, <3>1, <3>2 DEF Control, ControlOK
  <2> QED BY <2>3, <2>4
<1>30. ASSUME NEW scope \in Scopes, SellerEdit(scope) PROVE Typed'
  <2>1. loc' \in [Workers -> LocalsType]
    BY <1>30, NoLocalsType DEF SellerEdit, db, env, Goto, TypeOK
  <2>2. snap' \in [Workers -> SnapType]
    BY <1>30, NoSnapType DEF SellerEdit, db, env, Goto, TypeOK
  <2>3. TypeOK'
    <3>1. wb' \in [Scopes -> Bids]
      <4>1. CASE UNCHANGED wb
        BY <4>1 DEF TypeOK
      <4>2. CASE \E b \in Bids : wb' = [wb EXCEPT ![scope] = b]
        BY <4>2 DEF TypeOK
      <4> QED BY <1>30, <4>1, <4>2 DEF SellerEdit
    <3>2. member' \subseteq Scopes
      BY <1>30 DEF SellerEdit, TypeOK
    <3> QED BY <1>30, <2>1, <2>2, <3>1, <3>2 DEF SellerEdit, db, TypeOK
  <2>4. Control'
    BY <1>30 DEF SellerEdit, db, env, Goto, TypeOK, Control, ControlOK, Flight, NoLocals
  <2> QED BY <2>3, <2>4
<1>31. ASSUME NextDay PROVE Typed'
  <2>1. loc' \in [Workers -> LocalsType]
    BY <1>31, NoLocalsType DEF NextDay, db, env, Goto, TypeOK
  <2>2. snap' \in [Workers -> SnapType]
    BY <1>31, NoSnapType DEF NextDay, db, env, Goto, TypeOK
  <2>3. TypeOK'
    BY <1>31, <2>1, <2>2 DEF NextDay, db, env, Goto, TypeOK, PCs, BidPCs
  <2>4. Control'
    BY <1>31 DEF NextDay, db, env, Goto, TypeOK, Control, ControlOK, Flight, NoLocals
  <2> QED BY <2>3, <2>4
<1>32. CASE UNCHANGED vars
  BY <1>32 DEF vars, TypeOK, Control, ControlOK
<1> QED
  BY <1>1, <1>2, <1>3, <1>4, <1>5, <1>6, <1>7, <1>8, <1>9, <1>10, <1>11, <1>12, <1>13, <1>14, <1>15, <1>16, <1>17, <1>18, <1>19, <1>20, <1>21, <1>22, <1>23, <1>24, <1>25, <1>26, <1>27, <1>28, <1>29, <1>30, <1>31, <1>32 DEF Next, WorkerStep, Progress

\* The tables, the controls and the locals of every worker stay typed.
THEOREM TypeCorrect == Spec => []TypeOK
<1>1. Init => Typed
  BY InitTyped
<1>2. Typed /\ [Next]_vars => Typed'
  BY NextTyped
<1>3. Typed => TypeOK
  BY DEF Typed
<1> QED BY <1>1, <1>2, <1>3, PTL DEF Spec
=============================================================================
