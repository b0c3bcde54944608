------------------------ MODULE RecommendationsProofs ------------------------
(***************************************************************************)
(* Type correctness and the safety properties of Recommendations, for any  *)
(* number of requests and generators and any bounds.                       *)
(***************************************************************************)
EXTENDS Recommendations, FiniteSetTheorems, TLAPS

Labels == {"idle", "claim", "local", "invalidate", "look", "put"} \cup Claiming
States == {"active", "paused", "stopped"}
Jobs   == {"none", "generate", "apply", "set", "rollback", "switch"}

Row == [type : Types, old : Bids, new : Bids, status : Statuses,
        calls : Nat, reopened : Nat, landed : BOOLEAN, overruled : BOOLEAN, lost : BOOLEAN]

Change == [old : Bids, new : Bids, rec : 0 .. MaxRecs]

Syncs == [bid : Bids, clean : BOOLEAN] \cup {NoSync}

\* A step of the generator.
Step == {s \in [op : {"upsert", "close"}, type : Types, old : 0 .. MaxBid, new : 0 .. MaxBid] :
            s.op = "upsert" => s.old \in Bids /\ s.new \in Bids}

Local == [job : Jobs, rec : Nat, old : 0 .. MaxBid, new : 0 .. MaxBid, blind : BOOLEAN,
          to : States \cup {"none"}, todo : Seq(Step)]

\* What a label says about the locals x of a process, when there are n rows.
Fits(p, l, x, n) ==
    /\ l \in Labels /\ x \in Local
    /\ l = "idle" => x = Idle
    /\ l \in {"look", "put"} => x.job = "generate" /\ x.todo # <<>> /\ x.rec \in 0 .. n
    /\ l = "put" /\ x.rec = 0 => x.todo[1].op = "upsert"
    /\ p \in Generators => l \in {"idle", "look", "put"}
    /\ l \in {"claim", "check", "release", "complete", "mark"} => x.job = "apply"
    /\ l = "record" => x.job \in {"apply", "rollback"}
    /\ l = "call" => x.job \in {"apply", "rollback", "set", "switch"}
    /\ l \in {"local", "invalidate"} \/ x.job = "switch" => x.to \in States
    /\ x.job = "apply" => x.rec \in 1 .. n
    /\ x.job = "rollback" => x.rec = 0
    /\ l \in {"check", "record"} \/ (l = "call" /\ x.job # "switch") => x.old \in Bids /\ x.new \in Bids

Typed ==
    /\ TypeOK
    /\ Len(recs) <= MaxRecs
    /\ loc \in [Procs -> Local]
    /\ \A p \in Procs : Fits(p, pc[p], loc[p], Len(recs))

-----------------------------------------------------------------------------
(* Lemmas.                                                                 *)

USE DEF Labels, States, Jobs, Claiming

LEMMA Bounds ==
    /\ MaxBid \in Nat /\ MaxBid >= 1 /\ MaxRecs \in Nat /\ MaxChanges \in Nat
    /\ MaxRuns \in Nat /\ MaxEvents \in Nat
    /\ 1 \in Bids /\ Bids \subseteq 0 .. MaxBid
BY BoundsAssumption DEF Bids

LEMMA IdleLocal == Idle \in Local /\ \A p, n : Fits(p, "idle", Idle, n)
<1>1. Idle \in Local
  BY Bounds DEF Idle, Local
<1> QED BY <1>1 DEF Fits, Idle

\* More rows do no harm.
LEMMA FitsMore ==
    ASSUME NEW p, NEW l, NEW x, NEW n \in Nat, NEW k \in Nat, n <= k, Fits(p, l, x, n)
    PROVE  Fits(p, l, x, k)
BY DEF Fits

\* One row is replaced.
LEMMA SetRow ==
    ASSUME recs \in Seq(Row), NEW r \in 1 .. Len(recs), NEW v \in Row,
           NEW new, new = [recs EXCEPT ![r] = v]
    PROVE  /\ new \in Seq(Row) /\ Len(new) = Len(recs) /\ new[r] = v
           /\ \A s \in 1 .. Len(recs) : s # r => new[s] = recs[s]
<1>1. Len(recs) \in Nat /\ recs \in [1 .. Len(recs) -> Row] /\ DOMAIN recs = 1 .. Len(recs)
  OBVIOUS
<1>2. new \in [1 .. Len(recs) -> Row] /\ DOMAIN new = 1 .. Len(recs)
  BY <1>1
<1>3. new \in Seq(Row)
  BY <1>1, <1>2
<1>4. Len(new) = Len(recs)
  BY <1>1, <1>2, <1>3
<1> QED BY <1>1, <1>3, <1>4

\* One process moves; there may be more rows than before.
LEMMA Moves ==
    ASSUME Typed, NEW p \in Procs, NEW l, NEW x, Fits(p, l, x, Len(recs)'),
           pc' = [pc EXCEPT ![p] = l], loc' = [loc EXCEPT ![p] = x],
           Len(recs)' \in Nat, Len(recs) <= Len(recs)'
    PROVE  /\ pc' \in [Procs -> Labels] /\ loc' \in [Procs -> Local]
           /\ \A q \in Procs : Fits(q, pc'[q], loc'[q], Len(recs)')
<1>1. pc \in [Procs -> Labels] /\ loc \in [Procs -> Local] /\ Len(recs) \in Nat
  BY DEF Typed, TypeOK
<1>2. l \in Labels /\ x \in Local
  BY DEF Fits
<1>3. \A q \in Procs : Fits(q, pc'[q], loc'[q], Len(recs)')
  <2> SUFFICES ASSUME NEW q \in Procs PROVE Fits(q, pc'[q], loc'[q], Len(recs)')
    OBVIOUS
  <2>1. CASE q = p
    BY <1>1, <2>1
  <2>2. CASE q # p
    <3>1. Fits(q, pc[q], loc[q], Len(recs)')
      BY <1>1, FitsMore DEF Typed
    <3> QED BY <1>1, <2>2, <3>1
  <2> QED BY <2>1, <2>2
<1> QED BY <1>1, <1>2, <1>3

LEMMA Returns ==
    ASSUME Typed, NEW p \in Procs, Return(p), Len(recs)' \in Nat, Len(recs) <= Len(recs)'
    PROVE  /\ pc' \in [Procs -> Labels] /\ loc' \in [Procs -> Local]
           /\ \A q \in Procs : Fits(q, pc'[q], loc'[q], Len(recs)')
BY Moves, IdleLocal DEF Return

LEMMA Gotos ==
    ASSUME Typed, NEW p \in Procs, NEW l, Goto(p, l), Fits(p, l, loc[p], Len(recs)'),
           Len(recs)' \in Nat, Len(recs) <= Len(recs)'
    PROVE  /\ pc' \in [Procs -> Labels] /\ loc' \in [Procs -> Local]
           /\ \A q \in Procs : Fits(q, pc'[q], loc'[q], Len(recs)')
<1>1. loc' = [loc EXCEPT ![p] = loc[p]]
  BY DEF Goto, Typed
<1> QED BY <1>1, Moves DEF Goto

-----------------------------------------------------------------------------
(* Type correctness.                                                       *)

LEMMA TypedInit == Init => Typed
<1> SUFFICES ASSUME Init PROVE Typed
  OBVIOUS
<1>1. recs \in Seq(Row) /\ changes \in Seq(Change) /\ Len(recs) = 0
  BY DEF Init
<1>2. sync \in Syncs
  BY DEF Init, Syncs
<1>3. runs \in 0 .. MaxRuns /\ used \in 0 .. MaxEvents /\ Len(recs) <= MaxRecs
  BY <1>1, Bounds DEF Init
<1>4. pc \in [Procs -> Labels] /\ loc \in [Procs -> Local]
  BY IdleLocal DEF Init
<1>5. \A p \in Procs : Fits(p, pc[p], loc[p], Len(recs))
  BY IdleLocal DEF Init
<1> QED BY <1>1, <1>2, <1>3, <1>4, <1>5 DEF Init, Typed, TypeOK, Row, Change, Syncs

\* The parts of Typed, as a step needs them.
LEMMA TypedParts ==
    ASSUME Typed
    PROVE  /\ recs \in Seq(Row) /\ changes \in Seq(Change) /\ Len(recs) \in Nat /\ Len(changes) \in Nat
           /\ Len(recs) <= MaxRecs
           /\ \A r \in 1 .. Len(recs) : recs[r] \in Row
           /\ pc \in [Procs -> Labels] /\ loc \in [Procs -> Local]
           /\ \A p \in Procs : loc[p] \in Local /\ Fits(p, pc[p], loc[p], Len(recs))
<1>1. recs \in Seq(Row) /\ changes \in Seq(Change)
  BY DEF Typed, TypeOK, Row, Change
<1>2. /\ pc \in [Procs -> Labels] /\ loc \in [Procs -> Local] /\ Len(recs) <= MaxRecs
      /\ \A p \in Procs : Fits(p, pc[p], loc[p], Len(recs))
  BY DEF Typed, TypeOK
<1> QED BY <1>1, <1>2

\* What a step must leave typed.
World ==
    /\ obs \in Bids /\ wb \in Bids /\ synced \in BOOLEAN
    /\ camp \in States /\ sync \in Syncs
    /\ runs \in 0 .. MaxRuns /\ used \in 0 .. MaxEvents

LEMMA TypedWorld == Typed => World
BY DEF Typed, TypeOK, World, Syncs

\* An event keeps the counter in its bounds.
LEMMA EventCounts == ASSUME Typed, Event PROVE used' \in 0 .. MaxEvents
BY Bounds DEF Typed, TypeOK, Event

\* The row after a statement, or after a call of WB.
LEMMA Rows ==
    ASSUME NEW rec \in Row
    PROVE  /\ \A to \in Statuses : [rec EXCEPT !.status = to] \in Row /\ Overwritten(rec, to) \in Row
           /\ Invalidated(rec) \in Row
           /\ [rec EXCEPT !.lost = TRUE] \in Row
           /\ \A n \in Nat, l \in BOOLEAN : [rec EXCEPT !.calls = n, !.landed = l] \in Row
           /\ [rec EXCEPT !.reopened = @ + 1] \in Row
           /\ \A b, c \in Bids : [rec EXCEPT !.old = b, !.new = c] \in Row
<1>1. \A to \in Statuses : [rec EXCEPT !.status = to] \in Row
  BY DEF Row
<1>2. \A to \in Statuses : Overwritten(rec, to) \in Row
  <2> SUFFICES ASSUME NEW to \in Statuses PROVE Overwritten(rec, to) \in Row
    OBVIOUS
  <2> DEFINE o == rec.overruled \/ rec.status \in {"applying", "apply_unknown"}
  <2>1. Overwritten(rec, to) = [rec EXCEPT !.status = to, !.overruled = o]
    BY DEF Overwritten
  <2>2. o \in BOOLEAN
    BY Zenon
  <2> HIDE DEF o
  <2> QED BY <2>1, <2>2 DEF Row
<1>3. Invalidated(rec) \in Row
  BY <1>1 DEF Invalidated, Statuses
<1>4. [rec EXCEPT !.lost = TRUE] \in Row
  BY DEF Row
<1>5. \A n \in Nat, l \in BOOLEAN : [rec EXCEPT !.calls = n, !.landed = l] \in Row
  BY DEF Row
<1>6. [rec EXCEPT !.reopened = @ + 1] \in Row
  BY DEF Row
<1>7. \A b, c \in Bids : [rec EXCEPT !.old = b, !.new = c] \in Row
  BY DEF Row
<1> QED BY <1>1, <1>2, <1>3, <1>4, <1>5, <1>6, <1>7

-----------------------------------------------------------------------------
(* What a step does to the rows, seen through how far the application of a *)
(* row has come: not claimed, before the call of WB, after it, or with the *)
(* change stored.                                                          *)

Stage(q) ==
    IF loc[q].job # "apply" THEN "out"
    ELSE IF pc[q] \in {"check", "release", "call"} THEN "early"
    ELSE IF pc[q] \in {"record", "mark"} THEN "late"
    ELSE IF pc[q] = "complete" THEN "complete"
    ELSE "out"

Keep(q) == Stage(q)' = Stage(q) /\ (Stage(q) # "out" => loc'[q].rec = loc[q].rec)

\* Process p goes from one stage of row r to another, the others stay.
Turns(p, r, s, t) ==
    /\ p \in Procs /\ r \in 1 .. Len(recs)
    /\ Stage(p) = s /\ Stage(p)' = t
    /\ s # "out" => loc[p].rec = r
    /\ t # "out" => loc'[p].rec = r
    /\ \A q \in Procs \ {p} : Keep(q)

CountsSame(r) == recs'[r].calls = recs[r].calls /\ recs'[r].reopened = recs[r].reopened
MarksSame(r)  == recs'[r].landed = recs[r].landed /\ recs'[r].overruled = recs[r].overruled
LostSame(r)   == recs'[r].lost = recs[r].lost

RowSame(r) == recs'[r].status = recs[r].status /\ CountsSame(r) /\ MarksSame(r) /\ LostSame(r)

Others(r) == Len(recs') = Len(recs) /\ \A s \in 1 .. Len(recs) : s # r => RowSame(s)

AllSame == Len(recs') = Len(recs) /\ \A s \in 1 .. Len(recs) : RowSame(s)

StatusMoves(r, from, to) ==
    /\ Others(r) /\ CountsSame(r) /\ MarksSame(r) /\ LostSame(r)
    /\ recs'[r].status = IF recs[r].status = from THEN to ELSE recs[r].status

Grows ==
    /\ Len(recs') >= Len(recs)
    /\ \A s \in 1 .. Len(recs) : RowSame(s)
    /\ \A s \in Len(recs) + 1 .. Len(recs') : recs'[s] = NewRec(recs'[s].type, recs'[s].old, recs'[s].new)

KeepsChanges ==
    /\ Len(changes') >= Len(changes)
    /\ \A i \in 1 .. Len(changes) : changes'[i] = changes[i]

Quiet == Grows /\ KeepsChanges /\ \A q \in Procs : Keep(q)

Claims(p, r) ==
    /\ Turns(p, r, "out", "early") /\ changes' = changes
    /\ recs[r].status = "active" /\ StatusMoves(r, "active", "applying")

Releases(p, r) ==
    Turns(p, r, "early", "out") /\ changes' = changes /\ StatusMoves(r, "applying", "active")

Completes(p, r) ==
    Turns(p, r, "complete", "late") /\ changes' = changes /\ StatusMoves(r, "applying", "completed")

GivesUp(p, r) == Turns(p, r, "complete", "late") /\ changes' = changes /\ AllSame

Marks(p, r) ==
    Turns(p, r, "late", "out") /\ changes' = changes /\ StatusMoves(r, "applying", "apply_unknown")

Calls(p, r) ==
    /\ Turns(p, r, "early", "late") /\ changes' = changes /\ Others(r)
    /\ recs'[r].status = recs[r].status /\ recs'[r].overruled = recs[r].overruled /\ LostSame(r)
    /\ recs'[r].calls = recs[r].calls + 1 /\ recs'[r].reopened = recs[r].reopened

Records(p, r) ==
    /\ Turns(p, r, "late", "complete") /\ KeepsChanges /\ AllSame
    /\ \E i \in 1 .. Len(changes') : changes'[i].rec = r

Dies(p, r) ==
    /\ \E s \in {"early", "late", "complete"} : Turns(p, r, s, "out")
    /\ changes' = changes /\ Others(r) /\ CountsSame(r) /\ MarksSame(r)
    /\ recs'[r].status = recs[r].status /\ recs'[r].lost = TRUE

Overrules(r) ==
    /\ r \in 1 .. Len(recs)
    /\ \A q \in Procs : Keep(q)
    /\ changes' = changes /\ Others(r) /\ LostSame(r)
    /\ recs'[r].status \in {"active", "completed", "dismissed"}
    /\ recs'[r].calls = recs[r].calls /\ recs'[r].landed = recs[r].landed
    /\ recs'[r].reopened = IF recs'[r].status = "active" THEN recs[r].reopened + 1 ELSE recs[r].reopened
    /\ recs[r].overruled \/ recs[r].status \in {"applying", "apply_unknown"} => recs'[r].overruled
    /\ ~ recs'[r].overruled => ~ recs[r].overruled

Invalidates ==
    /\ \A q \in Procs : Keep(q)
    /\ changes' = changes /\ Len(recs') = Len(recs)
    /\ \A r \in 1 .. Len(recs) :
         /\ CountsSame(r) /\ MarksSame(r) /\ LostSame(r)
         /\ recs'[r].status = IF recs[r].status = "active" THEN "invalidated" ELSE recs[r].status

\* Every step is one of these.
Acts ==
    \/ Quiet \/ Invalidates
    \/ \E r \in 1 .. Len(recs) : Overrules(r)
    \/ \E p \in Procs, r \in 1 .. Len(recs) :
          \/ Claims(p, r) \/ Releases(p, r) \/ Completes(p, r) \/ GivesUp(p, r) \/ Marks(p, r)
          \/ Calls(p, r) \/ Records(p, r) \/ Dies(p, r)

\* A compare and set changes a status or nothing.
LEMMA Transitions ==
    ASSUME Typed, NEW r \in 1 .. Len(recs), NEW from, NEW to \in Statuses, Transition(r, from, to)
    PROVE  recs' \in Seq(Row) /\ Len(recs') = Len(recs) /\ StatusMoves(r, from, to)
<1> DEFINE v == [recs[r] EXCEPT !.status = to]
<1>1. recs \in Seq(Row) /\ recs[r] \in Row /\ v \in Row
  BY TypedParts, Rows
<1>2. /\ v.status = to /\ v.calls = recs[r].calls /\ v.reopened = recs[r].reopened
      /\ v.landed = recs[r].landed /\ v.overruled = recs[r].overruled /\ v.lost = recs[r].lost
  BY <1>1 DEF Row
<1>3. CASE recs[r].status = from
  <2>1. recs' = [recs EXCEPT ![r] = v]
    BY <1>3 DEF Transition
  <2> HIDE DEF v
  <2>2. /\ recs' \in Seq(Row) /\ Len(recs') = Len(recs) /\ recs'[r] = v
        /\ \A s \in 1 .. Len(recs) : s # r => recs'[s] = recs[s]
    BY <1>1, <2>1, SetRow
  <2> QED BY <1>2, <1>3, <2>2 DEF StatusMoves, Others, RowSame, CountsSame, MarksSame, LostSame
<1>4. CASE recs[r].status # from
  <2>1. recs' = recs
    BY <1>4 DEF Transition
  <2> QED BY <1>1, <1>4, <2>1 DEF StatusMoves, Others, RowSame, CountsSame, MarksSame, LostSame
<1> QED BY <1>3, <1>4

\* Nothing happens to the rows.
LEMMA SameRows == ASSUME Typed, recs' = recs PROVE AllSame /\ Grows
<1>1. Len(recs) \in Nat
  BY TypedParts
<1> QED BY <1>1 DEF AllSame, Grows, RowSame, CountsSame, MarksSame, LostSame

LEMMA SameChanges == ASSUME Typed, changes' = changes PROVE KeepsChanges
BY TypedParts DEF KeepsChanges

\* A process whose label and claim stay as they are keeps its stage.
LEMMA Keeps ==
    ASSUME NEW q \in Procs, pc'[q] = pc[q], loc'[q].job = loc[q].job, loc'[q].rec = loc[q].rec
    PROVE  Keep(q)
BY DEF Keep, Stage

\* The others when one process moves by an update of its entries.
LEMMA Stay ==
    ASSUME Typed, NEW p \in Procs, NEW l, NEW x, pc' = [pc EXCEPT ![p] = l], loc' = [loc EXCEPT ![p] = x]
    PROVE  /\ pc'[p] = l /\ loc'[p] = x
           /\ \A q \in Procs \ {p} : Keep(q)
<1>1. pc \in [Procs -> Labels] /\ loc \in [Procs -> Local]
  BY TypedParts
<1>2. \A q \in Procs \ {p} : pc'[q] = pc[q] /\ loc'[q] = loc[q]
  BY <1>1
<1> QED BY <1>1, <1>2, Keeps

-----------------------------------------------------------------------------
(* Every action keeps the types and is one of Acts.                        *)

LEMMA Calm ==
    ASSUME Typed, UNCHANGED <<outside, camp>>, runs' \in 0 .. MaxRuns, used' \in 0 .. MaxEvents
    PROVE  World'
BY TypedWorld DEF World, outside

LEMMA CalmCounters == Typed => runs \in 0 .. MaxRuns /\ used \in 0 .. MaxEvents
BY TypedWorld DEF World

\* One process takes a label and locals; the tables keep their types.
Moved(p, l, x) == pc' = [pc EXCEPT ![p] = l] /\ loc' = [loc EXCEPT ![p] = x]

Stored ==
    /\ recs' \in Seq(Row) /\ Len(recs) <= Len(recs') /\ Len(recs') <= MaxRecs
    /\ changes' \in Seq(Change)

LEMMA NothingStored == ASSUME Typed, recs' = recs, changes' = changes PROVE Stored
BY TypedParts DEF Stored

LEMMA RowsStored == ASSUME Typed, recs' \in Seq(Row), Len(recs') = Len(recs), changes' = changes PROVE Stored
BY TypedParts DEF Stored

\* One process moves, and what it leaves behind is typed.
LEMMA MovesTyped ==
    ASSUME Typed, NEW p \in Procs, NEW l, NEW x, Fits(p, l, x, Len(recs')),
           Moved(p, l, x), Stored, World'
    PROVE  /\ Typed'
           /\ pc'[p] = l /\ loc'[p] = x
           /\ \A q \in Procs \ {p} : Keep(q)
<1> USE DEF Moved, Stored
<1>1. Len(recs') \in Nat
  OBVIOUS
<1>2. /\ pc' \in [Procs -> Labels] /\ loc' \in [Procs -> Local]
      /\ \A q \in Procs : Fits(q, pc'[q], loc'[q], Len(recs'))
  BY <1>1, Moves
<1>3. Typed'
  BY <1>2 DEF Typed, TypeOK, Row, Change, Syncs, World
<1> QED BY <1>3, Stay

LEMMA ReturnIsMove == ASSUME NEW p, Return(p) PROVE Moved(p, "idle", Idle)
BY DEF Return, Moved

LEMMA GotoIsMove ==
    ASSUME Typed, NEW p \in Procs, NEW l, Goto(p, l)
    PROVE  Moved(p, l, loc[p])
BY TypedParts DEF Goto, Moved

\* A process that is nowhere in an application, before and after, is quiet.
LEMMA QuietStep ==
    ASSUME NEW p \in Procs, Stage(p) = "out", Stage(p)' = "out", \A q \in Procs \ {p} : Keep(q),
           Grows, KeepsChanges
    PROVE  Acts
BY DEF Keep, Acts, Quiet

LEMMA ApplyActs ==
    ASSUME Typed, NEW u \in Users, ApplyRecommendation(u)
    PROVE  Typed' /\ Acts
<1> USE TypedParts
<1>0. u \in Procs
  BY DEF Procs
<1>1. PICK r \in 1 .. Len(recs) : loc' = [loc EXCEPT ![u] = [Idle EXCEPT !.job = "apply", !.rec = r]]
  BY DEF ApplyRecommendation
<1> DEFINE x == [Idle EXCEPT !.job = "apply", !.rec = r]
<1>2. x \in Local /\ x.job = "apply" /\ x.rec = r
  <2>1. r \in Nat /\ Idle \in Local
    BY IdleLocal
  <2> QED BY <2>1 DEF Local
<1>3. u \notin Generators
  BY BoundsAssumption
<1>4. Fits(u, "claim", x, Len(recs))
  BY <1>2, <1>3 DEF Fits
<1>5. recs' = recs /\ changes' = changes /\ pc' = [pc EXCEPT ![u] = "claim"] /\ pc[u] = "idle"
  BY DEF ApplyRecommendation
<1>6. World'
  BY Calm, CalmCounters DEF ApplyRecommendation
<1> HIDE DEF x
<1>7. Typed' /\ pc'[u] = "claim" /\ loc'[u] = x /\ \A q \in Procs \ {u} : Keep(q)
  <2>1. Moved(u, "claim", x) /\ Stored /\ Fits(u, "claim", x, Len(recs'))
    BY <1>1, <1>4, <1>5, NothingStored DEF Moved, x
  <2> QED BY <1>0, <1>6, <2>1, MovesTyped
<1>8. Stage(u) = "out" /\ Stage(u)' = "out"
  BY <1>0, <1>5, <1>7 DEF Stage
<1> QED BY <1>0, <1>5, <1>7, <1>8, QuietStep, SameRows, SameChanges

LEMMA ClaimActs ==
    ASSUME Typed, NEW u \in Users, ClaimActiveRecommendation(u)
    PROVE  Typed' /\ Acts
<1> USE TypedParts
<1> DEFINE r == loc[u].rec
           x == [loc[u] EXCEPT !.old = recs[r].old, !.new = recs[r].new]
           v == [recs[r] EXCEPT !.status = "applying"]
<1>0. u \in Procs /\ u \notin Generators /\ pc[u] = "claim" /\ changes' = changes
  BY BoundsAssumption DEF Procs, ClaimActiveRecommendation
<1>1. loc[u].job = "apply" /\ r \in 1 .. Len(recs) /\ loc[u] \in Local
  BY <1>0 DEF Fits
<1>2. World' /\ Stage(u) = "out"
  BY <1>0, Calm, CalmCounters DEF ClaimActiveRecommendation, Stage
<1>3. CASE recs[r].status = "active"
  <2>1. Transition(r, "active", "applying") /\ "applying" \in Statuses
    BY <1>3 DEF ClaimActiveRecommendation, Transition, Statuses
  <2>2. recs' \in Seq(Row) /\ Len(recs') = Len(recs) /\ StatusMoves(r, "active", "applying")
    BY <1>1, <2>1, Transitions
  <2>3. x \in Local /\ x.job = "apply" /\ x.rec = r /\ x.old \in Bids /\ x.new \in Bids
    <3>1. recs[r].old \in Bids /\ recs[r].new \in Bids
      BY <1>1 DEF Row
    <3> QED BY <1>1, <3>1, Bounds DEF Local
  <2>4. Fits(u, "check", x, Len(recs'))
    BY <1>0, <1>1, <2>2, <2>3 DEF Fits
  <2>5. Moved(u, "check", x) /\ Stored
    BY <1>0, <1>3, <2>2, RowsStored DEF ClaimActiveRecommendation, Moved
  <2> HIDE DEF x, r
  <2>6. Typed' /\ pc'[u] = "check" /\ loc'[u] = x /\ \A q \in Procs \ {u} : Keep(q)
    BY <1>0, <1>2, <2>2, <2>4, <2>5, MovesTyped
  <2>7. Turns(u, r, "out", "early")
    BY <1>0, <1>1, <1>2, <2>3, <2>6 DEF Turns, Stage
  <2> QED BY <1>0, <1>1, <1>3, <2>2, <2>6, <2>7 DEF Acts, Claims
<1>4. CASE recs[r].status # "active"
  <2>1. Return(u) /\ recs' = recs
    BY <1>4 DEF ClaimActiveRecommendation
  <2>2. Typed' /\ pc'[u] = "idle" /\ loc'[u] = Idle /\ \A q \in Procs \ {u} : Keep(q)
    BY <1>0, <1>2, <2>1, MovesTyped, NothingStored, ReturnIsMove, IdleLocal
  <2>3. Stage(u)' = "out"
    BY <2>2 DEF Stage, Idle
  <2> QED BY <1>0, <1>2, <2>1, <2>2, <2>3, QuietStep, SameRows, SameChanges
<1> QED BY <1>3, <1>4

LEMMA ChecksActs ==
    ASSUME Typed, NEW u \in Users, ApplyChecks(u)
    PROVE  Typed' /\ Acts
<1> USE TypedParts
<1> DEFINE b == ~ synced
           x == [loc[u] EXCEPT !.blind = b]
<1>0. u \in Procs /\ u \notin Generators /\ pc[u] = "check" /\ changes' = changes /\ recs' = recs
  BY BoundsAssumption DEF Procs, ApplyChecks
<1>1. World' /\ b \in BOOLEAN
  BY <1>0, Calm, CalmCounters DEF ApplyChecks
<1>2. PICK l, y : /\ l \in {"call", "release"} /\ y \in {x, loc[u]}
                  /\ Moved(u, l, y)
  <2>1. CASE Send(u)
    BY <2>1 DEF Send, Moved
  <2>2. CASE Goto(u, "release")
    BY <1>0, <2>2, GotoIsMove
  <2> QED BY <2>1, <2>2 DEF ApplyChecks
<1>3. y \in Local /\ y.job = "apply" /\ y.rec = loc[u].rec /\ y.old = loc[u].old /\ y.new = loc[u].new
      /\ loc[u].rec \in 1 .. Len(recs)
  <2> HIDE DEF b
  <2> QED BY <1>0, <1>1, <1>2 DEF Fits, Local
<1>4. Fits(u, l, y, Len(recs')) /\ Stored
  BY <1>0, <1>2, <1>3, NothingStored DEF Fits
<1>5. Typed' /\ pc'[u] = l /\ loc'[u] = y /\ \A q \in Procs \ {u} : Keep(q)
  BY <1>0, <1>1, <1>2, <1>4, MovesTyped
<1>6. Keep(u)
  BY <1>0, <1>2, <1>3, <1>5 DEF Keep, Stage, Fits
<1> QED BY <1>0, <1>5, <1>6, SameRows, SameChanges DEF Acts, Quiet

\* A request that has claimed a row, at the end of which it sets a status.
LEMMA ReleaseActs ==
    ASSUME Typed, NEW u \in Users, ReleaseClaim(u) \/ MarkApplyUnknown(u)
    PROVE  Typed' /\ Acts
<1> DEFINE r == loc[u].rec
<1>0. u \in Procs /\ pc[u] \in {"release", "mark"} /\ changes' = changes
  BY DEF Procs, ReleaseClaim, MarkApplyUnknown
<1>1. loc[u].job = "apply" /\ r \in 1 .. Len(recs)
  BY <1>0, TypedParts DEF Fits
<1>2. World'
  BY Calm, CalmCounters DEF ReleaseClaim, MarkApplyUnknown
<1>3. PICK to \in Statuses : /\ Transition(r, "applying", to)
                             /\ pc[u] = "release" => to = "active"
                             /\ pc[u] = "mark" => to = "apply_unknown"
  BY DEF ReleaseClaim, MarkApplyUnknown, Statuses
<1>4. Return(u)
  BY DEF ReleaseClaim, MarkApplyUnknown
<1> HIDE DEF r
<1>5. recs' \in Seq(Row) /\ Len(recs') = Len(recs) /\ StatusMoves(r, "applying", to)
  BY <1>1, <1>3, Transitions
<1>6. Typed' /\ pc'[u] = "idle" /\ loc'[u] = Idle /\ \A q \in Procs \ {u} : Keep(q)
  BY <1>0, <1>2, <1>4, <1>5, MovesTyped, RowsStored, ReturnIsMove, IdleLocal
<1>7. Stage(u)' = "out" /\ Stage(u) = IF pc[u] = "release" THEN "early" ELSE "late"
  BY <1>0, <1>1, <1>6 DEF Stage, Idle
<1>8. Turns(u, r, IF pc[u] = "release" THEN "early" ELSE "late", "out")
  BY <1>0, <1>1, <1>6, <1>7 DEF Turns, r
<1>9. CASE pc[u] = "release"
  BY <1>0, <1>1, <1>3, <1>5, <1>6, <1>8, <1>9 DEF Acts, Releases
<1>10. CASE pc[u] = "mark"
  BY <1>0, <1>1, <1>3, <1>5, <1>6, <1>8, <1>10 DEF Acts, Marks
<1> QED BY <1>0, <1>9, <1>10

LEMMA CompleteActs ==
    ASSUME Typed, NEW u \in Users, CompleteRecommendation(u) \/ CompleteFails(u)
    PROVE  Typed' /\ Acts
<1> DEFINE r == loc[u].rec
<1>0. u \in Procs /\ u \notin Generators /\ pc[u] = "complete" /\ changes' = changes /\ Goto(u, "mark")
  BY BoundsAssumption DEF Procs, CompleteRecommendation, CompleteFails
<1>1. loc[u].job = "apply" /\ r \in 1 .. Len(recs) /\ loc[u] \in Local
  BY <1>0, TypedParts DEF Fits
<1>2. World'
  BY Calm, CalmCounters, EventCounts DEF CompleteRecommendation, CompleteFails
<1>3. /\ recs' \in Seq(Row) /\ Len(recs') = Len(recs)
      /\ StatusMoves(r, "applying", "completed") \/ AllSame
  <2>1. CASE CompleteRecommendation(u)
    <3>1. Transition(r, "applying", "completed") /\ "completed" \in Statuses
      BY <2>1 DEF CompleteRecommendation, Statuses
    <3> QED BY <1>1, <3>1, Transitions
  <2>2. CASE CompleteFails(u)
    <3>1. recs' = recs
      BY <2>2 DEF CompleteFails
    <3> QED BY <3>1, TypedParts, SameRows
  <2> QED BY <2>1, <2>2
<1>4. Fits(u, "mark", loc[u], Len(recs'))
  BY <1>0, <1>1, <1>3, TypedParts DEF Fits
<1>5. Typed' /\ pc'[u] = "mark" /\ loc'[u] = loc[u] /\ \A q \in Procs \ {u} : Keep(q)
  BY <1>0, <1>2, <1>3, <1>4, MovesTyped, RowsStored, GotoIsMove
<1>6. Turns(u, r, "complete", "late")
  BY <1>0, <1>1, <1>5 DEF Turns, Stage
<1> HIDE DEF r
<1>7. Completes(u, r) \/ GivesUp(u, r)
  BY <1>0, <1>3, <1>6 DEF Completes, GivesUp
<1> QED BY <1>0, <1>1, <1>5, <1>7 DEF Acts

\* A request begins with a call of WB, on behalf of no row.
LEMMA StartActs ==
    ASSUME Typed, NEW u \in Users, SetClusterBid(u) \/ RollbackBidChange(u) \/ SwitchCampaign(u)
    PROVE  Typed' /\ Acts
<1>0. u \in Procs /\ u \notin Generators /\ pc[u] = "idle" /\ recs' = recs /\ changes' = changes
  BY BoundsAssumption DEF Procs, SetClusterBid, RollbackBidChange, SwitchCampaign
<1>1. World'
  BY Calm, CalmCounters, EventCounts DEF SetClusterBid, RollbackBidChange, SwitchCampaign
<1>2. PICK x : /\ Moved(u, "call", x) /\ x \in Local /\ x.rec = 0
               /\ x.job \in {"set", "rollback", "switch"}
               /\ x.job = "switch" => x.to \in States
               /\ x.job # "switch" => x.old \in Bids /\ x.new \in Bids
  <2>0. Idle \in Local /\ Idle.rec = 0 /\ obs \in Bids
    BY IdleLocal, TypedWorld DEF Idle, World
  <2>1. CASE SetClusterBid(u)
    <3>1. PICK b \in Bids : loc' = [loc EXCEPT ![u] = [Idle EXCEPT !.job = "set", !.old = obs, !.new = b]]
      BY <2>1 DEF SetClusterBid
    <3> DEFINE y == [Idle EXCEPT !.job = "set", !.old = obs, !.new = b]
    <3>2. y \in Local /\ y.rec = 0 /\ y.job = "set" /\ y.old \in Bids /\ y.new \in Bids
      BY <2>0, Bounds DEF Local
    <3>3. Moved(u, "call", y)
      BY <2>1, <3>1 DEF SetClusterBid, Moved
    <3> HIDE DEF y
    <3> QED BY <3>2, <3>3
  <2>2. CASE RollbackBidChange(u)
    <3> DEFINE blind == ~ synced
    <3>1. PICK i \in 1 .. Len(changes) :
             loc' = [loc EXCEPT ![u] = [Idle EXCEPT !.job = "rollback", !.blind = blind,
                                                    !.old = changes[i].new, !.new = changes[i].old]]
      BY <2>2 DEF RollbackBidChange
    <3> DEFINE y == [Idle EXCEPT !.job = "rollback", !.blind = blind,
                                 !.old = changes[i].new, !.new = changes[i].old]
    <3>2. blind \in BOOLEAN
      OBVIOUS
    <3>3. Moved(u, "call", y)
      BY <2>2, <3>1 DEF RollbackBidChange, Moved
    <3>4. changes[i].old \in Bids /\ changes[i].new \in Bids
      <4>1. changes \in Seq(Change)
        BY TypedParts
      <4>2. changes[i] \in Change
        BY <4>1
      <4> QED BY <4>2 DEF Change
    <3> HIDE DEF blind
    <3>5. y \in Local /\ y.rec = 0 /\ y.job = "rollback" /\ y.old \in Bids /\ y.new \in Bids
      BY <2>0, <3>2, <3>4, Bounds DEF Local
    <3> HIDE DEF y
    <3> QED BY <3>3, <3>5
  <2>3. CASE SwitchCampaign(u)
    <3>1. PICK s \in Switches : loc' = [loc EXCEPT ![u] = [Idle EXCEPT !.job = "switch", !.to = s[2]]]
      BY <2>3 DEF SwitchCampaign
    <3> DEFINE y == [Idle EXCEPT !.job = "switch", !.to = s[2]]
    <3>2. s[2] \in States
      BY DEF Switches
    <3>3. Moved(u, "call", y)
      BY <2>3, <3>1 DEF SwitchCampaign, Moved
    <3>4. y \in Local /\ y.rec = 0 /\ y.job = "switch" /\ y.to \in States
      BY <2>0, <3>2 DEF Local
    <3> HIDE DEF y
    <3> QED BY <3>3, <3>4
  <2> QED BY <2>1, <2>2, <2>3
<1>3. Fits(u, "call", x, Len(recs'))
  BY <1>0, <1>2 DEF Fits
<1>4. Typed' /\ pc'[u] = "call" /\ loc'[u] = x /\ \A q \in Procs \ {u} : Keep(q)
  BY <1>0, <1>1, <1>2, <1>3, MovesTyped, NothingStored
<1>5. Stage(u) = "out" /\ Stage(u)' = "out"
  BY <1>0, <1>2, <1>4 DEF Stage
<1> QED BY <1>0, <1>4, <1>5, QuietStep, SameRows, SameChanges

LEMMA LocalStatusActs ==
    ASSUME Typed, NEW u \in Users, UpdateLocalStatus(u)
    PROVE  Typed' /\ Acts
<1>0. u \in Procs /\ u \notin Generators /\ pc[u] = "local" /\ recs' = recs /\ changes' = changes
  BY BoundsAssumption DEF Procs, UpdateLocalStatus
<1>1. loc[u] \in Local /\ loc[u].to \in States
  BY <1>0, TypedParts DEF Fits
<1>2. World'
  BY <1>1, TypedWorld DEF UpdateLocalStatus, World, outside
<1>3. CASE loc[u].to = "active"
  <2>1. Return(u)
    BY <1>3 DEF UpdateLocalStatus
  <2>2. Typed' /\ pc'[u] = "idle" /\ \A q \in Procs \ {u} : Keep(q)
    BY <1>0, <1>2, <2>1, MovesTyped, NothingStored, ReturnIsMove, IdleLocal
  <2>3. Stage(u) = "out" /\ Stage(u)' = "out"
    BY <1>0, <2>2 DEF Stage
  <2> QED BY <1>0, <2>2, <2>3, QuietStep, SameRows, SameChanges
<1>4. CASE loc[u].to # "active"
  <2>1. Goto(u, "invalidate")
    BY <1>4 DEF UpdateLocalStatus
  <2>2. Fits(u, "invalidate", loc[u], Len(recs'))
    BY <1>0, <1>1, TypedParts DEF Fits
  <2>3. Typed' /\ pc'[u] = "invalidate" /\ \A q \in Procs \ {u} : Keep(q)
    BY <1>0, <1>2, <2>1, <2>2, MovesTyped, NothingStored, GotoIsMove
  <2>4. Stage(u) = "out" /\ Stage(u)' = "out"
    BY <1>0, <2>3 DEF Stage
  <2> QED BY <1>0, <2>3, <2>4, QuietStep, SameRows, SameChanges
<1> QED BY <1>3, <1>4

LEMMA InvalidateActs ==
    ASSUME Typed, NEW u \in Users, InvalidateRecommendations(u)
    PROVE  Typed' /\ Acts
<1>0. /\ u \in Procs /\ pc[u] = "invalidate" /\ changes' = changes /\ Return(u)
      /\ recs' = [r \in 1 .. Len(recs) |-> Invalidated(recs[r])]
  BY DEF Procs, InvalidateRecommendations
<1>1. World'
  BY Calm, CalmCounters DEF InvalidateRecommendations
<1>2. \A r \in 1 .. Len(recs) : recs[r] \in Row /\ Invalidated(recs[r]) \in Row
  BY TypedParts, Rows
<1>3. Len(recs) \in Nat
  BY TypedParts
<1>4. recs' \in Seq(Row) /\ Len(recs') = Len(recs) /\ \A r \in 1 .. Len(recs) : recs'[r] = Invalidated(recs[r])
  BY <1>0, <1>2, <1>3
<1>5. Typed' /\ pc'[u] = "idle" /\ \A q \in Procs \ {u} : Keep(q)
  BY <1>0, <1>1, <1>4, MovesTyped, RowsStored, ReturnIsMove, IdleLocal
<1>6. Keep(u)
  BY <1>0, <1>5 DEF Stage, Keep
<1>7. \A r \in 1 .. Len(recs) :
         /\ CountsSame(r) /\ MarksSame(r) /\ LostSame(r)
         /\ recs'[r].status = IF recs[r].status = "active" THEN "invalidated" ELSE recs[r].status
  BY <1>2, <1>4 DEF Invalidated, CountsSame, MarksSame, LostSame, Row
<1> QED BY <1>0, <1>4, <1>5, <1>6, <1>7 DEF Acts, Invalidates

LEMMA IdleBlind == [Idle EXCEPT !.blind = FALSE] = Idle
<1>1. Idle.blind = FALSE
  BY DEF Idle
<1>2. \A x \in Local : [x EXCEPT !.blind = x.blind] = x
  BY DEF Local
<1> QED BY <1>1, <1>2, IdleLocal

\* Only blind changes: the locals fit as before.
LEMMA Blinded ==
    ASSUME NEW p, NEW l, NEW x, NEW n, Fits(p, l, x, n), NEW b \in BOOLEAN, l = "idle" => ~ b,
           NEW y, y = [x EXCEPT !.blind = b]
    PROVE  /\ Fits(p, l, y, n) /\ y \in Local /\ y.blind = b
           /\ y.job = x.job /\ y.rec = x.rec /\ y.old = x.old /\ y.new = x.new /\ y.to = x.to
<1>1. x \in Local
  BY DEF Fits
<1>2. /\ y \in Local /\ y.blind = b /\ y.job = x.job /\ y.rec = x.rec
      /\ y.old = x.old /\ y.new = x.new /\ y.to = x.to /\ y.todo = x.todo
  BY <1>1 DEF Local
<1>3. l = "idle" => y = Idle
  <2>1. l = "idle" => x = Idle /\ b = FALSE
    BY DEF Fits
  <2> QED BY <2>1, IdleBlind
<1>4. Fits(p, l, y, n)
  BY <1>2, <1>3 DEF Fits
<1> QED BY <1>2, <1>4

\* After a bid has landed, those about to call are outdated; the rest stays.
LEMMA OthersBlinded ==
    ASSUME Typed, NEW lands \in BOOLEAN, NEW q \in Procs,
           pc'[q] = pc[q], loc'[q] = [loc[q] EXCEPT !.blind = @ \/ (lands /\ pc[q] = "call")]
    PROVE  /\ Fits(q, pc'[q], loc'[q], Len(recs)) /\ Keep(q)
           /\ loc'[q].job = loc[q].job /\ loc'[q].old = loc[q].old
           /\ loc'[q].blind = (loc[q].blind \/ (lands /\ pc[q] = "call"))
<1>1. Fits(q, pc[q], loc[q], Len(recs)) /\ loc[q] \in Local
  BY TypedParts
<1>2. PICK b \in BOOLEAN : b = (loc[q].blind \/ (lands /\ pc[q] = "call"))
  OBVIOUS
<1>3. pc[q] = "idle" => ~ b
  <2>1. pc[q] = "idle" => loc[q] = Idle
    BY <1>1 DEF Fits
  <2>2. ~ Idle.blind
    BY DEF Idle
  <2> QED BY <1>2, <2>1, <2>2
<1>4. loc'[q] = [loc[q] EXCEPT !.blind = b]
  BY <1>2
<1>5. /\ Fits(q, pc[q], loc'[q], Len(recs)) /\ loc'[q].blind = b
      /\ loc'[q].job = loc[q].job /\ loc'[q].rec = loc[q].rec /\ loc'[q].old = loc[q].old
  <2>1. Fits(q, pc[q], loc'[q], Len(recs))
    BY <1>1, <1>3, <1>4, Blinded
  <2>2. loc'[q].blind = b
    BY <1>1, <1>4 DEF Local
  <2>3. loc'[q].job = loc[q].job /\ loc'[q].rec = loc[q].rec /\ loc'[q].old = loc[q].old
    BY <1>1, <1>3, <1>4, Blinded
  <2> QED BY <2>1, <2>2, <2>3
<1>6. Keep(q)
  BY <1>5, Keeps
<1> QED BY <1>2, <1>5, <1>6

After(u, label) == IF label = "idle" THEN Idle ELSE [loc[u] EXCEPT !.blind = FALSE]

LEMMA Proceeds ==
    ASSUME Typed, NEW u \in Procs, NEW label \in Labels, NEW lands \in BOOLEAN, Proceed(u, label, lands),
           Fits(u, label, After(u, label), Len(recs)), recs' \in Seq(Row), Len(recs') = Len(recs),
           changes' = changes, World'
    PROVE  /\ Typed' /\ pc'[u] = label /\ loc'[u] = After(u, label)
           /\ \A q \in Procs \ {u} : Keep(q)
           /\ \A q \in Procs \ {u} : /\ pc'[q] = pc[q] /\ loc'[q].job = loc[q].job /\ loc'[q].old = loc[q].old
                                     /\ loc'[q].blind = (loc[q].blind \/ (lands /\ pc[q] = "call"))
<1>1. pc \in [Procs -> Labels] /\ loc \in [Procs -> Local] /\ Len(recs) <= MaxRecs /\ changes \in Seq(Change)
  BY TypedParts
<1>2. pc' \in [Procs -> Labels] /\ pc'[u] = label /\ \A q \in Procs \ {u} : pc'[q] = pc[q]
  BY <1>1 DEF Proceed
<1>3. loc'[u] = After(u, label)
  BY DEF Proceed, After
<1>4. \A q \in Procs \ {u} : loc'[q] = [loc[q] EXCEPT !.blind = @ \/ (lands /\ pc[q] = "call")]
  BY DEF Proceed
<1>5. \A q \in Procs \ {u} :
         /\ Fits(q, pc'[q], loc'[q], Len(recs)) /\ Keep(q)
         /\ loc'[q].job = loc[q].job /\ loc'[q].old = loc[q].old
         /\ loc'[q].blind = (loc[q].blind \/ (lands /\ pc[q] = "call"))
  BY <1>2, <1>4, OthersBlinded
<1>6. \A q \in Procs : Fits(q, pc'[q], loc'[q], Len(recs'))
  BY <1>2, <1>3, <1>5
<1>7. loc' \in [Procs -> Local]
  <2> DEFINE f(q) == IF q = u THEN After(u, label)
                     ELSE [loc[q] EXCEPT !.blind = @ \/ (lands /\ pc[q] = "call")]
  <2>1. loc' = [q \in Procs |-> f(q)]
    BY DEF Proceed, After
  <2> HIDE DEF f
  <2>2. loc' = [q \in Procs |-> loc'[q]]
    BY <2>1
  <2>3. \A q \in Procs : loc'[q] \in Local
    BY <1>6 DEF Fits
  <2> QED BY <2>2, <2>3
<1>8. Typed'
  BY <1>1, <1>2, <1>6, <1>7 DEF Typed, TypeOK, Row, Change, Syncs, World
<1> QED BY <1>2, <1>3, <1>5, <1>8

\* WB's bid becomes a bid: the world stays typed.
LEMMA LandsTyped ==
    ASSUME Typed, NEW b \in Bids, Lands(b), camp' = camp, runs' = runs, used' \in 0 .. MaxEvents
    PROVE  World'
<1>1. [sync EXCEPT !.clean = FALSE] \in Syncs
  <2>1. CASE sync = NoSync
    <3>1. [NoSync EXCEPT !.clean = FALSE] = NoSync
      <4>1. \A x \in [bid : Nat, clean : BOOLEAN] : [x EXCEPT !.clean = x.clean] = x
        OBVIOUS
      <4>2. NoSync \in [bid : Nat, clean : BOOLEAN] /\ NoSync.clean = FALSE
        BY DEF NoSync
      <4> QED BY <4>1, <4>2
    <3> QED BY <2>1, <3>1 DEF Syncs
  <2>2. CASE sync \in [bid : Bids, clean : BOOLEAN]
    BY <2>2 DEF Syncs
  <2> QED BY <2>1, <2>2, TypedWorld DEF World, Syncs
<1> QED BY <1>1, TypedWorld DEF World, Lands

\* The row of an application after the call.
LEMMA CalledRow ==
    ASSUME Typed, NEW u \in Procs, loc[u].job = "apply", loc[u].rec \in 1 .. Len(recs),
           NEW landed \in BOOLEAN, Called(u, landed)
    PROVE  LET r == loc[u].rec IN
           /\ recs' \in Seq(Row) /\ Others(r) /\ LostSame(r)
           /\ recs'[r].status = recs[r].status /\ recs'[r].overruled = recs[r].overruled
           /\ recs'[r].calls = recs[r].calls + 1 /\ recs'[r].reopened = recs[r].reopened
<1> DEFINE r == loc[u].rec
<1>1. recs \in Seq(Row) /\ recs[r] \in Row /\ recs[r].calls \in Nat
  BY TypedParts DEF Row
<1>2. PICK n \in Nat, o \in BOOLEAN : n = recs[r].calls + 1 /\ o = (recs[r].landed \/ landed)
  <2>1. (recs[r].landed \/ landed) \in BOOLEAN
    OBVIOUS
  <2>2. recs[r].calls + 1 \in Nat
    BY <1>1
  <2> QED BY <2>1, <2>2
<1> DEFINE v == [recs[r] EXCEPT !.calls = n, !.landed = o]
<1>3. recs' = [recs EXCEPT ![r] = v]
  BY <1>2 DEF Called, Sent
<1>4. v \in Row
  BY <1>1, Rows
<1>5. /\ v.status = recs[r].status /\ v.overruled = recs[r].overruled /\ v.lost = recs[r].lost
      /\ v.calls = recs[r].calls + 1 /\ v.reopened = recs[r].reopened
  BY <1>1, <1>2 DEF Row
<1> HIDE DEF v, r
<1>6. /\ recs' \in Seq(Row) /\ Len(recs') = Len(recs) /\ recs'[r] = v
      /\ \A s \in 1 .. Len(recs) : s # r => recs'[s] = recs[s]
  BY <1>1, <1>3, <1>4, SetRow DEF r
<1>7. Others(r) /\ LostSame(r)
  BY <1>5, <1>6 DEF Others, RowSame, CountsSame, MarksSame, LostSame
<1> QED BY <1>5, <1>6, <1>7 DEF r

\* What a call does, whatever WB answers.
LEMMA CallSteps ==
    ASSUME Typed, NEW u \in Users, CallAccepted(u) \/ CallRefused(u) \/ CallLost(u)
    PROVE  /\ u \in Procs /\ pc[u] = "call" /\ changes' = changes /\ World'
           /\ \E landed \in BOOLEAN : Called(u, landed)
           /\ \E label \in Labels, lands \in BOOLEAN :
                /\ Proceed(u, label, lands)
                /\ loc[u].job = "apply" => label \in {"record", "mark"}
                /\ loc[u].job = "rollback" => label \in {"record", "idle"}
                /\ loc[u].job = "set" => label = "idle"
                /\ loc[u].job = "switch" => label \in {"local", "idle"}
<1>0. u \in Procs /\ pc[u] = "call" /\ changes' = changes
  BY DEF Procs, CallAccepted, CallRefused, CallLost
<1>1. loc[u] \in Local /\ loc[u].job \in {"apply", "rollback", "set", "switch"}
      /\ (loc[u].job # "switch" => loc[u].new \in Bids)
  BY <1>0, TypedParts DEF Fits
<1>2. \E landed \in BOOLEAN : Called(u, landed)
  BY DEF CallAccepted, CallRefused, CallLost
<1>3. World'
  <2>1. used' \in 0 .. MaxEvents /\ runs' = runs /\ camp' = camp
    BY CalmCounters, EventCounts DEF CallAccepted, CallRefused, CallLost
  <2>2. CASE Bidding(u) /\ Lands(loc[u].new)
    BY <1>1, <2>1, <2>2, LandsTyped DEF Bidding
  <2>3. CASE UNCHANGED outside
    BY <2>1, <2>3, Calm, CalmCounters
  <2> QED BY <2>2, <2>3 DEF CallAccepted, CallRefused, CallLost
<1>4. \E label \in Labels, lands \in BOOLEAN :
                /\ Proceed(u, label, lands)
                /\ loc[u].job = "apply" => label \in {"record", "mark"}
                /\ loc[u].job = "rollback" => label \in {"record", "idle"}
                /\ loc[u].job = "set" => label = "idle"
                /\ loc[u].job = "switch" => label \in {"local", "idle"}
  <2>1. Bidding(u) \in BOOLEAN
    BY DEF Bidding
  <2>2. /\ Answered(u) \in Labels
        /\ loc[u].job = "apply" => Answered(u) \in {"record", "mark"}
        /\ loc[u].job = "rollback" => Answered(u) \in {"record", "idle"}
        /\ loc[u].job = "set" => Answered(u) = "idle"
        /\ loc[u].job = "switch" => Answered(u) \in {"local", "idle"}
    BY <1>1 DEF Answered
  <2>3. /\ Failed(u) \in Labels
        /\ loc[u].job = "apply" => Failed(u) \in {"record", "mark"}
        /\ loc[u].job = "rollback" => Failed(u) \in {"record", "idle"}
        /\ loc[u].job = "set" => Failed(u) = "idle"
        /\ loc[u].job = "switch" => Failed(u) \in {"local", "idle"}
    BY DEF Failed
  <2>4. CASE CallAccepted(u)
    BY <2>1, <2>2, <2>4 DEF CallAccepted
  <2>5. CASE CallRefused(u)
    BY <2>3, <2>5 DEF CallRefused
  <2>6. CASE CallLost(u)
    BY <2>1, <2>3, <2>6 DEF CallLost
  <2> QED BY <2>4, <2>5, <2>6
<1> QED BY <1>0, <1>2, <1>3, <1>4

LEMMA CallActs ==
    ASSUME Typed, NEW u \in Users, CallAccepted(u) \/ CallRefused(u) \/ CallLost(u)
    PROVE  Typed' /\ Acts
<1>0. u \in Procs /\ u \notin Generators /\ pc[u] = "call" /\ changes' = changes /\ World'
  BY CallSteps, BoundsAssumption
<1>1. PICK landed \in BOOLEAN : Called(u, landed)
  BY CallSteps
<1>2. PICK label \in Labels, lands \in BOOLEAN :
                /\ Proceed(u, label, lands)
                /\ loc[u].job = "apply" => label \in {"record", "mark"}
                /\ loc[u].job = "rollback" => label \in {"record", "idle"}
                /\ loc[u].job = "set" => label = "idle"
                /\ loc[u].job = "switch" => label \in {"local", "idle"}
  BY CallSteps
<1>3. /\ loc[u] \in Local /\ Fits(u, "call", loc[u], Len(recs))
      /\ loc[u].job \in {"apply", "rollback", "set", "switch"}
      /\ loc[u].job = "apply" => loc[u].rec \in 1 .. Len(recs)
  BY <1>0, TypedParts DEF Fits
<1>4. Fits(u, label, After(u, label), Len(recs))
  <2>1. CASE label = "idle"
    BY <2>1, IdleLocal DEF After
  <2>2. CASE label # "idle"
    <3> DEFINE y == [loc[u] EXCEPT !.blind = FALSE]
    <3>1. /\ Fits(u, "call", y, Len(recs)) /\ y \in Local
          /\ y.job = loc[u].job /\ y.rec = loc[u].rec /\ y.to = loc[u].to
      <4>2. PICK b \in BOOLEAN : b = FALSE
        OBVIOUS
      <4>3. y = [loc[u] EXCEPT !.blind = b] /\ ("call" = "idle" => ~ b)
        BY <4>2
      <4> HIDE DEF y
      <4> QED BY <1>3, <4>3, Blinded
    <3> HIDE DEF y
    <3>2. Fits(u, label, y, Len(recs))
      BY <1>0, <1>2, <1>3, <2>2, <3>1 DEF Fits
    <3> QED BY <2>2, <3>2 DEF After, y
  <2> QED BY <2>1, <2>2
<1>5. CASE loc[u].job = "apply"
  <2> DEFINE r == loc[u].rec
  <2>1. /\ recs' \in Seq(Row) /\ Others(r) /\ LostSame(r)
        /\ recs'[r].status = recs[r].status /\ recs'[r].overruled = recs[r].overruled
        /\ recs'[r].calls = recs[r].calls + 1 /\ recs'[r].reopened = recs[r].reopened
    BY <1>0, <1>1, <1>3, <1>5, CalledRow
  <2>2. Len(recs') = Len(recs)
    BY <2>1 DEF Others
  <2>3. Typed' /\ pc'[u] = label /\ loc'[u] = After(u, label) /\ \A q \in Procs \ {u} : Keep(q)
    BY <1>0, <1>2, <1>4, <2>1, <2>2, Proceeds
  <2>4. loc'[u].job = "apply" /\ loc'[u].rec = r
    BY <1>2, <1>3, <1>5, <2>3 DEF After, Local
  <2>5. Turns(u, r, "early", "late")
    BY <1>0, <1>2, <1>3, <1>5, <2>3, <2>4 DEF Turns, Stage
  <2> HIDE DEF r
  <2>6. Calls(u, r)
    BY <1>0, <2>1, <2>5 DEF Calls
  <2>7. r \in 1 .. Len(recs)
    BY <1>3, <1>5 DEF r
  <2> QED BY <1>0, <2>3, <2>6, <2>7 DEF Acts
<1>6. CASE loc[u].job # "apply"
  <2>1. recs' = recs
    BY <1>1, <1>6 DEF Called
  <2>2. recs' \in Seq(Row) /\ Len(recs') = Len(recs)
    BY <2>1, TypedParts
  <2>3. Typed' /\ pc'[u] = label /\ loc'[u] = After(u, label) /\ \A q \in Procs \ {u} : Keep(q)
    BY <1>0, <1>2, <1>4, <2>2, Proceeds
  <2>4. loc'[u].job # "apply"
    BY <1>3, <1>6, <2>3 DEF After, Local, Idle
  <2>5. Stage(u) = "out" /\ Stage(u)' = "out"
    BY <1>6, <2>4 DEF Stage
  <2> QED BY <1>0, <2>1, <2>3, <2>5, QuietStep, SameRows, SameChanges
<1> QED BY <1>5, <1>6

LEMMA RecordActs ==
    ASSUME Typed, NEW u \in Users, RecordChange(u) \/ RecordFails(u)
    PROVE  Typed' /\ Acts
<1> DEFINE r == loc[u].rec
           c == [old |-> loc[u].old, new |-> loc[u].new, rec |-> loc[u].rec]
<1>0. u \in Procs /\ u \notin Generators /\ pc[u] = "record" /\ recs' = recs
  BY BoundsAssumption DEF Procs, RecordChange, RecordFails
<1>1. /\ loc[u] \in Local /\ loc[u].job \in {"apply", "rollback"} /\ r \in 0 .. MaxRecs
      /\ loc[u].old \in Bids /\ loc[u].new \in Bids
      /\ loc[u].job = "apply" => r \in 1 .. Len(recs)
  BY <1>0, TypedParts, Bounds DEF Fits
<1>2. World'
  BY Calm, CalmCounters, EventCounts DEF RecordChange, RecordFails
<1>3. c \in Change /\ changes \in Seq(Change) /\ Len(changes) \in Nat
  BY <1>1, TypedParts DEF Change
<1>4. changes' = Append(changes, c) \/ changes' = changes
  BY DEF RecordChange, RecordFails
<1>5. changes' \in Seq(Change) /\ KeepsChanges /\ Stored
  <2> HIDE DEF c
  <2>1. changes' \in Seq(Change) /\ KeepsChanges
    BY <1>3, <1>4 DEF KeepsChanges
  <2> QED BY <1>0, <2>1, TypedParts DEF Stored
<1>6. AllSame /\ Grows
  BY <1>0, SameRows
<1>7. CASE loc[u].job = "apply"
  <2>1. PICK l : /\ Goto(u, l) /\ l \in {"complete", "mark"}
                 /\ RecordChange(u) => l = "complete"
                 /\ ~ RecordChange(u) => l = "mark" /\ changes' = changes
    BY <1>7 DEF RecordChange, RecordFails
  <2>2. Fits(u, l, loc[u], Len(recs'))
    BY <1>0, <1>1, <1>7, <2>1, TypedParts DEF Fits
  <2>3. Typed' /\ pc'[u] = l /\ loc'[u] = loc[u] /\ \A q \in Procs \ {u} : Keep(q)
    BY <1>0, <1>2, <1>5, <2>1, <2>2, MovesTyped, GotoIsMove
  <2>4. CASE RecordChange(u)
    <3>1. Turns(u, r, "late", "complete")
      BY <1>0, <1>1, <1>7, <2>1, <2>3, <2>4 DEF Turns, Stage
    <3>2. \E i \in 1 .. Len(changes') : changes'[i].rec = r
      <4>1. changes' = Append(changes, c) /\ c.rec = r
        BY <2>4 DEF RecordChange
      <4> HIDE DEF c, r
      <4>2. Len(changes) + 1 \in 1 .. Len(changes') /\ changes'[Len(changes) + 1] = c
        BY <1>3, <4>1
      <4> QED BY <4>1, <4>2
    <3> HIDE DEF r
    <3>3. Records(u, r)
      BY <1>5, <1>6, <3>1, <3>2 DEF Records
    <3> QED BY <1>0, <1>1, <1>7, <2>3, <3>3 DEF Acts
  <2>5. CASE ~ RecordChange(u)
    <3>1. Keep(u)
      BY <1>0, <2>1, <2>3, <2>5 DEF Keep, Stage
    <3> QED BY <1>5, <1>6, <2>3, <3>1 DEF Acts, Quiet
  <2> QED BY <2>4, <2>5
<1>8. CASE loc[u].job # "apply"
  <2>1. Return(u)
    BY <1>8 DEF RecordChange, RecordFails
  <2>2. Typed' /\ pc'[u] = "idle" /\ loc'[u] = Idle /\ \A q \in Procs \ {u} : Keep(q)
    BY <1>0, <1>2, <1>5, <2>1, MovesTyped, ReturnIsMove, IdleLocal
  <2>3. Stage(u) = "out" /\ Stage(u)' = "out"
    BY <1>8, <2>2 DEF Stage, Idle
  <2> QED BY <1>0, <1>5, <1>6, <2>2, <2>3, QuietStep
<1> QED BY <1>7, <1>8

\* The plans of a generator are sequences of steps.
LEMMA PlanType == ASSUME NEW b \in Bids, NEW plan \in Plans(b) PROVE plan \in Seq(Step) /\ plan # <<>>
<1>1. \A t \in Types : Close(t) \in Step
  BY Bounds DEF Close, Step
<1>2. \A t \in Types, c, d \in Bids : Upsert(t, c, d) \in Step
  BY Bounds DEF Upsert, Step
<1>3. "lower_bid" \in Types /\ "raise_bid" \in Types
  BY DEF Types
<1>4. CASE plan = <<Close("lower_bid"), Close("raise_bid")>>
  BY <1>1, <1>3, <1>4
<1>5. ASSUME NEW d \in Bids, plan = <<Upsert("lower_bid", b, d), Close("raise_bid"), Close("raise_bid")>>
      PROVE  plan \in Seq(Step) /\ plan # <<>>
  BY <1>1, <1>2, <1>3, <1>5
<1>6. ASSUME NEW d \in Bids, plan = <<Close("lower_bid"), Upsert("raise_bid", b, d), Close("lower_bid")>>
      PROVE  plan \in Seq(Step) /\ plan # <<>>
  BY <1>1, <1>2, <1>3, <1>6
<1> QED BY <1>4, <1>5, <1>6 DEF Plans

LEMMA GenerateActs ==
    ASSUME Typed, NEW g \in Generators, Generate(g)
    PROVE  Typed' /\ Acts
<1>0. g \in Procs /\ pc[g] = "idle" /\ recs' = recs /\ changes' = changes /\ obs \in Bids
  BY TypedWorld DEF Procs, Generate, World
<1>1. PICK plan \in Plans(obs) : loc' = [loc EXCEPT ![g] = [Idle EXCEPT !.job = "generate", !.todo = plan]]
  BY DEF Generate
<1> DEFINE x == [Idle EXCEPT !.job = "generate", !.todo = plan]
<1>2. plan \in Seq(Step) /\ plan # <<>> /\ Idle \in Local /\ Idle.rec = 0
  BY <1>0, PlanType, IdleLocal DEF Idle
<1>3. x \in Local /\ x.job = "generate" /\ x.todo = plan /\ x.rec = 0
  BY <1>2 DEF Local
<1>4. World'
  <2>1. runs' \in 0 .. MaxRuns
    BY CalmCounters, Bounds DEF Generate
  <2> QED BY <2>1, Calm, CalmCounters DEF Generate
<1>5. Moved(g, "look", x)
  BY <1>1 DEF Generate, Moved
<1> HIDE DEF x
<1>6. Fits(g, "look", x, Len(recs'))
  BY <1>0, <1>2, <1>3, TypedParts DEF Fits
<1>7. Typed' /\ pc'[g] = "look" /\ loc'[g] = x /\ \A q \in Procs \ {g} : Keep(q)
  BY <1>0, <1>4, <1>5, <1>6, MovesTyped, NothingStored
<1>8. Stage(g) = "out" /\ Stage(g)' = "out"
  BY <1>0, <1>7 DEF Stage
<1> QED BY <1>0, <1>7, <1>8, QuietStep, SameRows, SameChanges

\* The next step of a plan, or its end.
LEMMA NextStepFits ==
    ASSUME Typed, NEW g \in Generators, pc[g] \in {"look", "put"}, NextStep(g), NEW n \in Nat
    PROVE  \E l \in {"idle", "look"}, x \in Local : Moved(g, l, x) /\ Fits(g, l, x, n)
<1>0. g \in Procs /\ g \in Generators
  BY DEF Procs
<1>1. loc[g] \in Local /\ loc[g].job = "generate" /\ loc[g].todo # <<>> /\ loc[g].todo \in Seq(Step)
  BY <1>0, TypedParts DEF Fits, Local
<1>2. CASE Len(loc[g].todo) = 1
  BY <1>2, ReturnIsMove, IdleLocal DEF NextStep
<1>3. CASE Len(loc[g].todo) # 1
  <2> DEFINE rest == Tail(loc[g].todo)
             x == [loc[g] EXCEPT !.todo = rest, !.rec = 0]
  <2>1. rest \in Seq(Step) /\ rest # <<>>
    <3>1. PICK s \in Seq(Step) : s = loc[g].todo /\ s # <<>>
      BY <1>1
    <3>2. Len(s) \in Nat /\ Len(s) # 0 /\ Len(s) # 1
      BY <1>3, <3>1
    <3>3. Tail(s) \in Seq(Step) /\ Len(Tail(s)) = Len(s) - 1
      BY <3>1
    <3>4. Len(Tail(s)) # 0
      BY <3>2, <3>3
    <3>5. Tail(s) # <<>>
      <4>1. Len(<<>>) = 0
        OBVIOUS
      <4> QED BY <3>4, <4>1, Zenon
    <3> QED BY <3>1, <3>3, <3>5
  <2>2. Moved(g, "look", x)
    BY <1>3 DEF NextStep, Moved
  <2> HIDE DEF rest
  <2>3. x \in Local /\ x.job = "generate" /\ x.todo = rest /\ x.rec = 0
    BY <1>1, <2>1 DEF Local
  <2> HIDE DEF x
  <2>4. Fits(g, "look", x, n)
    BY <1>0, <2>1, <2>3 DEF Fits
  <2> QED BY <2>2, <2>3, <2>4
<1> QED BY <1>2, <1>3

LEMMA LookActs ==
    ASSUME Typed, NEW g \in Generators, Look(g)
    PROVE  Typed' /\ Acts
<1>0. g \in Procs /\ pc[g] = "look" /\ recs' = recs /\ changes' = changes
  BY DEF Procs, Look
<1>1. World' /\ Len(recs) \in Nat
  BY Calm, CalmCounters, TypedParts DEF Look
<1>2. /\ loc[g] \in Local /\ loc[g].job = "generate" /\ loc[g].todo # <<>> /\ loc[g].todo \in Seq(Step)
      /\ Fits(g, "look", loc[g], Len(recs))
  BY <1>0, TypedParts DEF Fits, Local
<1>3. Head(loc[g].todo) = loc[g].todo[1]
  BY <1>2
<1>4. \E l \in {"idle", "look", "put"}, x \in Local : Moved(g, l, x) /\ Fits(g, l, x, Len(recs))
  <2>1. ASSUME NEW r \in 1 .. Len(recs), pc' = [pc EXCEPT ![g] = "put"], loc' = [loc EXCEPT ![g].rec = r]
        PROVE  \E l \in {"idle", "look", "put"}, x \in Local : Moved(g, l, x) /\ Fits(g, l, x, Len(recs))
    <3> DEFINE x == [loc[g] EXCEPT !.rec = r]
    <3>1. r \in Nat /\ r # 0
      BY <1>1
    <3>2. x \in Local /\ x.job = "generate" /\ x.todo = loc[g].todo /\ x.rec = r /\ x.to = loc[g].to
      BY <1>2, <3>1 DEF Local
    <3>3. Moved(g, "put", x)
      BY <2>1 DEF Moved
    <3> HIDE DEF x
    <3>4. Fits(g, "put", x, Len(recs))
      BY <1>0, <1>1, <1>2, <3>1, <3>2 DEF Fits
    <3> QED BY <3>2, <3>3, <3>4
  <2>2. ASSUME Head(loc[g].todo).op = "upsert", Goto(g, "put")
        PROVE  \E l \in {"idle", "look", "put"}, x \in Local : Moved(g, l, x) /\ Fits(g, l, x, Len(recs))
    <3>1. Fits(g, "put", loc[g], Len(recs))
      BY <1>2, <1>3, <2>2 DEF Fits
    <3> QED BY <1>0, <1>2, <2>2, <3>1, GotoIsMove
  <2>3. CASE NextStep(g)
    BY <1>0, <1>1, <2>3, NextStepFits
  <2> QED BY <2>1, <2>2, <2>3 DEF Look, Active
<1>5. PICK l \in {"idle", "look", "put"}, x \in Local : Moved(g, l, x) /\ Fits(g, l, x, Len(recs'))
  BY <1>0, <1>4
<1>6. Typed' /\ pc'[g] = l /\ \A q \in Procs \ {g} : Keep(q)
  BY <1>0, <1>1, <1>5, MovesTyped, NothingStored
<1>7. Stage(g) = "out" /\ Stage(g)' = "out"
  BY <1>0, <1>6 DEF Stage
<1> QED BY <1>0, <1>6, <1>7, QuietStep, SameRows, SameChanges

\* What the generator stores: a new row, a refreshed one, or a closed one.
LEMMA PutRows ==
    ASSUME Typed, NEW g \in Generators, Put(g)
    PROVE  /\ recs' \in Seq(Row) /\ Len(recs) <= Len(recs') /\ Len(recs') <= MaxRecs
           /\ Grows \/ \E r \in 1 .. Len(recs) :
                         /\ Others(r) /\ LostSame(r) /\ recs'[r].status = "completed"
                         /\ recs'[r].calls = recs[r].calls /\ recs'[r].reopened = recs[r].reopened
                         /\ recs'[r].landed = recs[r].landed
                         /\ (recs'[r].overruled <=>
                               (recs[r].overruled \/ recs[r].status \in {"applying", "apply_unknown"}))
<1> DEFINE r    == loc[g].rec
           step == Head(loc[g].todo)
<1>0. g \in Procs /\ pc[g] = "put"
  BY DEF Procs, Put
<1>1. /\ loc[g] \in Local /\ loc[g].todo # <<>> /\ loc[g].todo \in Seq(Step) /\ r \in 0 .. Len(recs)
      /\ r = 0 => loc[g].todo[1].op = "upsert"
  BY <1>0, TypedParts DEF Fits, Local
<1>2. step = loc[g].todo[1] /\ step \in Step
  BY <1>1
<1>3. /\ step.type \in Types /\ step.op \in {"upsert", "close"}
      /\ step.op = "upsert" => step.old \in Bids /\ step.new \in Bids
  BY <1>2 DEF Step
<1>4. recs \in Seq(Row) /\ Len(recs) \in Nat /\ Len(recs) <= MaxRecs
  BY TypedParts
<1>5. CASE r = 0
  <2> DEFINE v == NewRec(step.type, step.old, step.new)
  <2>1. Len(recs) < MaxRecs /\ recs' = Append(recs, v)
    BY <1>5 DEF Put
  <2>2. v \in Row /\ v.type = step.type /\ v.old = step.old /\ v.new = step.new
    BY <1>1, <1>2, <1>3, <1>5 DEF NewRec, Row, Statuses
  <2>3. v = NewRec(v.type, v.old, v.new)
    BY <2>2
  <2> HIDE DEF v
  <2>4. /\ recs' \in Seq(Row) /\ Len(recs') = Len(recs) + 1 /\ recs'[Len(recs) + 1] = v
        /\ \A s \in 1 .. Len(recs) : recs'[s] = recs[s]
    BY <1>4, <2>1, <2>2
  <2>5. Len(recs') <= MaxRecs /\ Len(recs) <= Len(recs') /\ Len(recs) + 1 .. Len(recs') = {Len(recs) + 1}
    BY <1>4, <2>1, <2>4, Bounds
  <2>6. Grows
    BY <2>3, <2>4, <2>5 DEF Grows, RowSame, CountsSame, MarksSame, LostSame
  <2> QED BY <2>4, <2>5, <2>6
<1>6. CASE r # 0 /\ step.op = "close"
  <2>1. r \in 1 .. Len(recs)
    BY <1>1, <1>4, <1>6
  <2> DEFINE v == Overwritten(recs[r], "completed")
  <2>2. recs' = [recs EXCEPT ![r] = v]
    BY <1>6 DEF Put
  <2>3. recs[r] \in Row /\ v \in Row
    BY <1>4, <2>1, TypedParts, Rows DEF Statuses
  <2>4. /\ v.status = "completed" /\ v.calls = recs[r].calls /\ v.reopened = recs[r].reopened
        /\ v.landed = recs[r].landed /\ v.lost = recs[r].lost
    BY <2>3 DEF Overwritten, Row
  <2>5. v.overruled <=> (recs[r].overruled \/ recs[r].status \in {"applying", "apply_unknown"})
    BY <2>3 DEF Overwritten, Row
  <2> HIDE DEF v, r
  <2>6. /\ recs' \in Seq(Row) /\ Len(recs') = Len(recs) /\ recs'[r] = v
        /\ \A s \in 1 .. Len(recs) : s # r => recs'[s] = recs[s]
    BY <1>4, <2>1, <2>2, <2>3, SetRow
  <2>7. Others(r) /\ LostSame(r)
    BY <2>4, <2>6 DEF Others, RowSame, CountsSame, MarksSame, LostSame
  <2> QED BY <1>4, <2>1, <2>4, <2>5, <2>6, <2>7
<1>7. CASE r # 0 /\ step.op # "close"
  <2>1. r \in 1 .. Len(recs)
    BY <1>1, <1>4, <1>7
  <2> DEFINE v == [recs[r] EXCEPT !.old = step.old, !.new = step.new]
  <2>2. recs' = [recs EXCEPT ![r] = v]
    BY <1>7 DEF Put
  <2>3. recs[r] \in Row /\ v \in Row
    BY <1>3, <1>4, <1>7, <2>1, TypedParts, Rows
  <2>4. /\ v.status = recs[r].status /\ v.calls = recs[r].calls /\ v.reopened = recs[r].reopened
        /\ v.landed = recs[r].landed /\ v.lost = recs[r].lost /\ v.overruled = recs[r].overruled
    BY <2>3 DEF Row
  <2> HIDE DEF v, r
  <2>6. /\ recs' \in Seq(Row) /\ Len(recs') = Len(recs) /\ recs'[r] = v
        /\ \A s \in 1 .. Len(recs) : s # r => recs'[s] = recs[s]
    BY <1>4, <2>1, <2>2, <2>3, SetRow
  <2>7. Grows
    BY <1>4, <2>1, <2>4, <2>6 DEF Grows, RowSame, CountsSame, MarksSame, LostSame
  <2> QED BY <1>4, <2>6, <2>7
<1> QED BY <1>5, <1>6, <1>7

LEMMA PutActs ==
    ASSUME Typed, NEW g \in Generators, Put(g)
    PROVE  Typed' /\ Acts
<1>0. g \in Procs /\ pc[g] = "put" /\ changes' = changes
  BY DEF Procs, Put
<1>1. World' /\ Stored
  BY <1>0, Calm, CalmCounters, TypedParts, PutRows DEF Put, Stored
<1>2. Len(recs') \in Nat
  BY <1>1 DEF Stored
<1>3. PICK l \in {"idle", "look"}, x \in Local : Moved(g, l, x) /\ Fits(g, l, x, Len(recs'))
  <2>1. NextStep(g)
    BY DEF Put
  <2> QED BY <1>0, <1>2, <2>1, NextStepFits
<1>4. Typed' /\ pc'[g] = l /\ \A q \in Procs \ {g} : Keep(q)
  BY <1>0, <1>1, <1>3, MovesTyped
<1>5. Stage(g) = "out" /\ Stage(g)' = "out"
  BY <1>0, <1>4 DEF Stage
<1>6. CASE Grows
  BY <1>0, <1>4, <1>5, <1>6, QuietStep, SameChanges
<1>7. CASE ~ Grows
  <2>1. PICK r \in 1 .. Len(recs) :
                         /\ Others(r) /\ LostSame(r) /\ recs'[r].status = "completed"
                         /\ recs'[r].calls = recs[r].calls /\ recs'[r].reopened = recs[r].reopened
                         /\ recs'[r].landed = recs[r].landed
                         /\ (recs'[r].overruled <=>
                               (recs[r].overruled \/ recs[r].status \in {"applying", "apply_unknown"}))
    BY <1>7, PutRows
  <2>2. \A q \in Procs : Keep(q)
    BY <1>4, <1>5 DEF Keep
  <2>3. Overrules(r)
    BY <1>0, <2>1, <2>2 DEF Overrules
  <2> QED BY <1>4, <2>3 DEF Acts
<1> QED BY <1>6, <1>7

LEMMA StatusActs ==
    ASSUME Typed, NEW r \in 1 .. Len(recs), NEW to \in Statuses, UpdateStatus(r, to)
    PROVE  Typed' /\ Acts
<1>1. /\ to \in {"active", "completed", "dismissed"} /\ changes' = changes /\ pc' = pc /\ loc' = loc
      /\ recs' = [recs EXCEPT ![r] = Decided(recs[r], to)]
  BY DEF UpdateStatus
<1>2. World'
  BY Calm, CalmCounters, EventCounts DEF UpdateStatus
<1> DEFINE o == Overwritten(recs[r], to)
           v == Decided(recs[r], to)
<1>3. recs \in Seq(Row) /\ recs[r] \in Row /\ o \in Row
  BY TypedParts, Rows
<1>4. /\ o.status = to /\ o.calls = recs[r].calls /\ o.reopened = recs[r].reopened
      /\ o.landed = recs[r].landed /\ o.lost = recs[r].lost
  BY <1>3 DEF Overwritten, Row
<1>5. o.overruled <=> (recs[r].overruled \/ recs[r].status \in {"applying", "apply_unknown"})
  BY <1>3 DEF Overwritten, Row
<1>6. PICK n \in Nat : n = IF to = "active" THEN recs[r].reopened + 1 ELSE recs[r].reopened
  BY <1>3 DEF Row
<1>7. v = [o EXCEPT !.reopened = n]
  BY <1>4, <1>6 DEF Decided
<1> HIDE DEF o, v
<1>8. /\ v \in Row /\ v.status = to /\ v.calls = recs[r].calls /\ v.reopened = n
      /\ v.landed = recs[r].landed /\ v.lost = recs[r].lost /\ v.overruled = o.overruled
  BY <1>3, <1>4, <1>7 DEF Row
<1>9. /\ recs' \in Seq(Row) /\ Len(recs') = Len(recs) /\ recs'[r] = v
      /\ \A s \in 1 .. Len(recs) : s # r => recs'[s] = recs[s]
  BY <1>1, <1>3, <1>8, SetRow DEF v
<1>10. Typed'
  <2>1. changes' \in Seq(Change) /\ Len(recs') <= MaxRecs
    BY <1>1, <1>9, TypedParts
  <2>2. /\ pc' \in [Procs -> Labels] /\ loc' \in [Procs -> Local]
        /\ \A q \in Procs : Fits(q, pc'[q], loc'[q], Len(recs'))
    BY <1>1, <1>9, TypedParts
  <2> QED BY <1>2, <1>9, <2>1, <2>2 DEF Typed, TypeOK, Row, Change, Syncs, World
<1>11. \A q \in Procs : Keep(q)
  BY <1>1, Keeps
<1>12. Others(r) /\ LostSame(r)
  BY <1>8, <1>9 DEF Others, RowSame, CountsSame, MarksSame, LostSame
<1>13. Overrules(r)
  BY <1>1, <1>5, <1>6, <1>8, <1>9, <1>11, <1>12 DEF Overrules
<1> QED BY <1>10, <1>13 DEF Acts

LEMMA CrashActs ==
    ASSUME Typed, NEW p \in Procs, Crash(p)
    PROVE  Typed' /\ Acts
<1> DEFINE r == loc[p].rec
           v == [recs[r] EXCEPT !.lost = TRUE]
<1>0. pc[p] # "idle" /\ Return(p) /\ changes' = changes
  BY DEF Crash
<1>1. World'
  BY Calm, CalmCounters, EventCounts DEF Crash
<1>2. recs \in Seq(Row) /\ Fits(p, pc[p], loc[p], Len(recs)) /\ pc[p] \in Labels
  BY TypedParts DEF Fits
<1>3. CASE pc[p] \in Claiming /\ loc[p].job = "apply"
  <2>1. p \in Users
    BY <1>2, <1>3 DEF Fits, Procs
  <2>2. r \in 1 .. Len(recs)
    BY <1>2, <1>3 DEF Fits
  <2>3. recs' = [recs EXCEPT ![r] = v]
    BY <1>3, <2>1 DEF Crash
  <2>4. recs[r] \in Row /\ v \in Row
    BY <2>2, TypedParts, Rows
  <2>5. /\ v.status = recs[r].status /\ v.calls = recs[r].calls /\ v.reopened = recs[r].reopened
        /\ v.landed = recs[r].landed /\ v.overruled = recs[r].overruled /\ v.lost = TRUE
    BY <2>4 DEF Row
  <2> HIDE DEF v
  <2>6. /\ recs' \in Seq(Row) /\ Len(recs') = Len(recs) /\ recs'[r] = v
        /\ \A s \in 1 .. Len(recs) : s # r => recs'[s] = recs[s]
    BY <1>2, <2>2, <2>3, <2>4, SetRow
  <2>7. Typed' /\ pc'[p] = "idle" /\ loc'[p] = Idle /\ \A q \in Procs \ {p} : Keep(q)
    BY <1>0, <1>1, <2>6, MovesTyped, RowsStored, ReturnIsMove, IdleLocal
  <2>8. Stage(p)' = "out" /\ Stage(p) \in {"early", "late", "complete"}
    BY <1>3, <2>7 DEF Stage
  <2>9. PICK s \in {"early", "late", "complete"} : Turns(p, r, s, "out")
    BY <2>2, <2>7, <2>8 DEF Turns
  <2> HIDE DEF r
  <2>10. Others(r) /\ CountsSame(r) /\ MarksSame(r)
    BY <2>5, <2>6 DEF Others, RowSame, CountsSame, MarksSame, LostSame
  <2>11. Dies(p, r)
    BY <1>0, <2>5, <2>6, <2>9, <2>10 DEF Dies
  <2> QED BY <2>2, <2>7, <2>11 DEF Acts
<1>4. CASE ~ (pc[p] \in Claiming /\ loc[p].job = "apply")
  <2>1. recs' = recs
    BY <1>4 DEF Crash
  <2>2. Typed' /\ pc'[p] = "idle" /\ loc'[p] = Idle /\ \A q \in Procs \ {p} : Keep(q)
    BY <1>0, <1>1, <2>1, MovesTyped, NothingStored, ReturnIsMove, IdleLocal
  <2>3. Stage(p) = "out" /\ Stage(p)' = "out"
    BY <1>4, <2>2 DEF Stage
  <2> QED BY <1>0, <2>1, <2>2, <2>3, QuietStep, SameRows, SameChanges
<1> QED BY <1>3, <1>4

LEMMA SyncActs ==
    ASSUME Typed, SyncRead \/ SyncWrite
    PROVE  Typed' /\ Acts
<1>1. recs' = recs /\ changes' = changes /\ pc' = pc /\ loc' = loc
  BY DEF SyncRead, SyncWrite
<1>2. World'
  <2>1. CASE SyncRead
    <3>1. sync' \in Syncs
      BY <2>1, TypedWorld DEF SyncRead, World, Syncs
    <3> QED BY <2>1, <3>1, TypedWorld DEF SyncRead, World
  <2>2. CASE SyncWrite
    <3>1. NoSync \in Syncs
      BY DEF Syncs
    <3>2. sync.bid \in Bids /\ sync.clean \in BOOLEAN
      BY <2>2, TypedWorld DEF SyncWrite, World, Syncs
    <3> QED BY <2>2, <3>1, <3>2, TypedWorld DEF SyncWrite, World
  <2> QED BY <2>1, <2>2
<1>3. Typed'
  <2>1. /\ pc' \in [Procs -> Labels] /\ loc' \in [Procs -> Local]
        /\ \A q \in Procs : Fits(q, pc'[q], loc'[q], Len(recs'))
        /\ recs' \in Seq(Row) /\ changes' \in Seq(Change) /\ Len(recs') <= MaxRecs
    BY <1>1, TypedParts
  <2> QED BY <1>2, <2>1 DEF Typed, TypeOK, Row, Change, Syncs, World
<1>4. \A q \in Procs : Keep(q)
  BY <1>1, Keeps
<1> QED BY <1>1, <1>3, <1>4, SameRows, SameChanges DEF Acts, Quiet

LEMMA EditActs ==
    ASSUME Typed, EditInWB
    PROVE  Typed' /\ Acts
<1>1. /\ recs' = recs /\ changes' = changes /\ pc' = pc /\ camp' = camp /\ runs' = runs
      /\ used' \in 0 .. MaxEvents
  BY EventCounts DEF EditInWB
<1>2. PICK b \in Bids : Lands(b)
  BY DEF EditInWB
<1>3. World'
  BY <1>1, <1>2, LandsTyped
<1>4. TRUE \in BOOLEAN /\ \A q \in Procs : loc'[q] = [loc[q] EXCEPT !.blind = @ \/ (TRUE /\ pc[q] = "call")]
  BY DEF EditInWB
<1>5. \A q \in Procs : Fits(q, pc'[q], loc'[q], Len(recs)) /\ Keep(q)
  BY <1>1, <1>4, OthersBlinded
<1>6. loc' \in [Procs -> Local]
  <2> DEFINE f(q) == [loc[q] EXCEPT !.blind = @ \/ pc[q] = "call"]
  <2>1. loc' = [q \in Procs |-> f(q)]
    BY DEF EditInWB
  <2> HIDE DEF f
  <2>2. loc' = [q \in Procs |-> loc'[q]]
    BY <2>1
  <2>3. \A q \in Procs : loc'[q] \in Local
    BY <1>5 DEF Fits
  <2> QED BY <2>2, <2>3
<1>7. Typed'
  <2>1. /\ pc' \in [Procs -> Labels] /\ Len(recs') <= MaxRecs
        /\ recs' \in Seq(Row) /\ changes' \in Seq(Change)
        /\ \A q \in Procs : Fits(q, pc'[q], loc'[q], Len(recs'))
    BY <1>1, <1>5, TypedParts
  <2> QED BY <1>3, <1>6, <2>1 DEF Typed, TypeOK, Row, Change, Syncs, World
<1> QED BY <1>1, <1>5, <1>7, SameRows, SameChanges DEF Acts, Quiet

\* Every step of the specification keeps the types and is one of Acts.
LEMMA NextActs == ASSUME Typed, Next PROVE Typed' /\ Acts
<1>1. ASSUME NEW u \in Users, Apply(u) PROVE Typed' /\ Acts
  BY <1>1, ApplyActs, ClaimActs, ChecksActs, ReleaseActs, CompleteActs DEF Apply
<1>2. ASSUME NEW u \in Users, ByHand(u) PROVE Typed' /\ Acts
  BY <1>2, StartActs, LocalStatusActs, InvalidateActs DEF ByHand
<1>3. ASSUME NEW u \in Users, Call(u) PROVE Typed' /\ Acts
  BY <1>3, CallActs, RecordActs DEF Call
<1>4. ASSUME NEW g \in Generators, Generate(g) \/ Look(g) \/ Put(g) PROVE Typed' /\ Acts
  BY <1>4, GenerateActs, LookActs, PutActs
<1>5. ASSUME NEW r \in 1 .. Len(recs), NEW to \in Statuses, UpdateStatus(r, to) PROVE Typed' /\ Acts
  BY <1>5, StatusActs
<1>6. ASSUME NEW p \in Procs, Crash(p) PROVE Typed' /\ Acts
  BY <1>6, CrashActs
<1> QED BY <1>1, <1>2, <1>3, <1>4, <1>5, <1>6, SyncActs, EditActs DEF Next

LEMMA TypedStep == ASSUME Typed, [Next]_vars PROVE Typed'
<1>1. CASE UNCHANGED vars
  BY <1>1 DEF vars, Typed, TypeOK
<1> QED BY <1>1, NextActs

\* Rows, changes, requests, generators and the bids they handle keep their
\* types, and no row is created beyond the bound.
THEOREM TypeCorrect == Spec => []TypeOK
<1>1. Spec => []Typed
  BY TypedInit, TypedStep, PTL DEF Spec
<1> QED BY <1>1, PTL DEF Typed

-----------------------------------------------------------------------------
(* No claim is leaked.                                                     *)

LeakInv ==
    \A r \in 1 .. Len(recs) : recs[r].status = "applying" =>
        recs[r].lost \/ \E q \in Procs : Stage(q) # "out" /\ loc[q].rec = r

\* A row that exists after a quiet step is an old one, unchanged, or a new one.
LEMMA GrownRows ==
    ASSUME Typed, Quiet, NEW r \in 1 .. Len(recs')
    PROVE  \/ r \in 1 .. Len(recs) /\ RowSame(r)
           \/ /\ r \notin 1 .. Len(recs) /\ recs'[r].status = "active" /\ recs'[r].calls = 0
              /\ recs'[r].reopened = 0 /\ ~ recs'[r].landed /\ ~ recs'[r].overruled
<1>1. Len(recs) \in Nat /\ Grows
  BY TypedParts DEF Quiet
<1>2. CASE r \in 1 .. Len(recs)
  BY <1>1, <1>2 DEF Grows
<1>3. CASE r \notin 1 .. Len(recs)
  <2>1. r \in Len(recs) + 1 .. Len(recs')
    BY <1>1, <1>3
  <2>2. PICK t, b, c : recs'[r] = NewRec(t, b, c)
    BY <1>1, <2>1 DEF Grows
  <2> QED BY <1>3, <2>2 DEF NewRec
<1> QED BY <1>2, <1>3

LEMMA LeakActs == ASSUME Typed, LeakInv, Acts PROVE LeakInv'
<1> SUFFICES ASSUME NEW r \in 1 .. Len(recs'), recs'[r].status = "applying", ~ recs'[r].lost
             PROVE  \E q \in Procs : Stage(q)' # "out" /\ loc'[q].rec = r
  BY DEF LeakInv
<1>0. Len(recs) \in Nat
  BY TypedParts
\* A row that was applying before had somebody at work on it.
<1>1. ASSUME r \in 1 .. Len(recs), recs[r].status = "applying", recs'[r].lost = recs[r].lost
      PROVE  \E q \in Procs : Stage(q) # "out" /\ loc[q].rec = r
  BY <1>1 DEF LeakInv
<1>2. CASE Quiet
  <2>1. r \in 1 .. Len(recs)
    BY <1>0, <1>2, GrownRows
  <2> QED BY <1>1, <1>2, <2>1 DEF Quiet, Grows, Keep, RowSame, LostSame
<1>3. CASE Invalidates
  BY <1>1, <1>3 DEF Invalidates, Keep, LostSame
<1>4. ASSUME NEW s \in 1 .. Len(recs), Overrules(s)
      PROVE  \E q \in Procs : Stage(q)' # "out" /\ loc'[q].rec = r
  BY <1>1, <1>4 DEF Overrules, Others, RowSame, Keep, LostSame
<1>5. ASSUME NEW p \in Procs, NEW s \in 1 .. Len(recs),
             \/ Claims(p, s) \/ Completes(p, s) \/ GivesUp(p, s) \/ Calls(p, s) \/ Records(p, s)
      PROVE  \E q \in Procs : Stage(q)' # "out" /\ loc'[q].rec = r
  <2>1. Stage(p)' # "out" /\ loc'[p].rec = s /\ Len(recs') = Len(recs)
    BY <1>5 DEF Claims, Completes, GivesUp, Calls, Records, Turns, StatusMoves, Others, AllSame
  <2>2. CASE r = s
    BY <2>1, <2>2
  <2>3. CASE r # s
    <3>1. RowSame(r) /\ \A q \in Procs \ {p} : Keep(q)
      BY <1>5, <2>1, <2>3 DEF Claims, Completes, GivesUp, Calls, Records, Turns, StatusMoves, Others, AllSame
    <3>2. PICK q \in Procs : Stage(q) # "out" /\ loc[q].rec = r
      BY <1>1, <2>1, <3>1 DEF RowSame, LostSame
    <3>3. q # p
      BY <1>5, <2>3, <3>2 DEF Claims, Completes, GivesUp, Calls, Records, Turns
    <3> QED BY <3>1, <3>2, <3>3 DEF Keep
  <2> QED BY <2>2, <2>3
<1>6. ASSUME NEW p \in Procs, NEW s \in 1 .. Len(recs), Releases(p, s) \/ Marks(p, s) \/ Dies(p, s)
      PROVE  \E q \in Procs : Stage(q)' # "out" /\ loc'[q].rec = r
  <2>1. r # s /\ Len(recs') = Len(recs)
    BY <1>6 DEF Releases, Marks, Dies, StatusMoves, Others
  <2>2. RowSame(r) /\ Stage(p) # "out" /\ loc[p].rec = s /\ \A q \in Procs \ {p} : Keep(q)
    BY <1>6, <2>1 DEF Releases, Marks, Dies, StatusMoves, Others, Turns
  <2>3. PICK q \in Procs : Stage(q) # "out" /\ loc[q].rec = r
    BY <1>1, <2>1, <2>2 DEF RowSame, LostSame
  <2> QED BY <2>1, <2>2, <2>3 DEF Keep
<1> QED BY <1>2, <1>3, <1>4, <1>5, <1>6 DEF Acts

LEMMA LeakStep == ASSUME Typed, LeakInv, [Next]_vars PROVE LeakInv'
<1>1. CASE UNCHANGED vars
  BY <1>1 DEF vars, LeakInv, Stage
<1> QED BY <1>1, NextActs, LeakActs

\* A recommendation is applying only while a request works on it, unless a
\* request that did has died or lost its client: the deferred release or mark
\* of applyRecommendation leaves no other way out.
THEOREM ClaimsAreReleased == Spec => []ClaimNotLeaked
<1>1. Init => LeakInv
  BY DEF Init, LeakInv
<1>2. Typed /\ LeakInv => ClaimNotLeaked
  <2> SUFFICES ASSUME Typed, LeakInv, NEW r \in 1 .. Len(recs), recs[r].status = "applying", ~ recs[r].lost
               PROVE  \E u \in Users : loc[u].rec = r /\ loc[u].job = "apply" /\ pc[u] \in Claiming
    BY DEF ClaimNotLeaked
  <2>1. PICK q \in Procs : Stage(q) # "out" /\ loc[q].rec = r
    BY DEF LeakInv
  <2>2. loc[q].job = "apply" /\ pc[q] \in Claiming
    BY <2>1 DEF Stage
  <2>3. q \in Users
    BY <2>2, TypedParts DEF Fits, Procs
  <2> QED BY <2>1, <2>2, <2>3
<1>3. Spec => [](Typed /\ LeakInv)
  BY <1>1, TypedInit, TypedStep, LeakStep, PTL DEF Spec
<1> QED BY <1>2, <1>3, PTL

-----------------------------------------------------------------------------
(* An uncertain write stays visible.                                       *)

Known(r) == \E i \in 1 .. Len(changes) : changes[i].rec = r

At(q, r) == Stage(q) # "out" /\ loc[q].rec = r

\* A row nobody has overruled, with no change stored, has one application at
\* most; the application has not reached WB before its call is over.
OpenInv(r) ==
    /\ recs[r].landed => recs[r].status \in {"applying", "apply_unknown"}
    /\ \A q \in Procs : At(q, r) => recs[r].status = "applying" /\ (Stage(q) = "early" => ~ recs[r].landed)
    /\ \A p, q \in Procs : At(p, r) /\ At(q, r) => p = q

VisibleAt(r) ==
    /\ \A q \in Procs : At(q, r) /\ Stage(q) = "complete" => Known(r)
    /\ ~ Known(r) /\ ~ recs[r].overruled => OpenInv(r)

VisibleInv == \A r \in 1 .. Len(recs) : VisibleAt(r)

\* Those who stay where they are stay at their row.
LEMMA KeepAt == ASSUME NEW q \in Procs, Keep(q) PROVE \A r : (At(q, r)' <=> At(q, r)) /\ (At(q, r) => Stage(q)' = Stage(q))
BY DEF Keep, At

LEMMA TurnsAt ==
    ASSUME NEW p, NEW s, NEW st, NEW t, Turns(p, s, st, t), NEW r
    PROVE  /\ Stage(p) = st /\ Stage(p)' = t
           /\ At(p, r) <=> (st # "out" /\ r = s)
           /\ At(p, r)' <=> (t # "out" /\ r = s)
           /\ \A q \in Procs \ {p} : (At(q, r)' <=> At(q, r)) /\ (At(q, r) => Stage(q)' = Stage(q))
BY KeepAt DEF Turns, At

LEMMA KnownStays == ASSUME Typed, KeepsChanges \/ changes' = changes, NEW r PROVE Known(r) => Known(r)'
<1>1. Len(changes) \in Nat /\ Len(changes') >= Len(changes) /\ Len(changes') \in Int
  BY TypedParts DEF KeepsChanges
<1> QED BY <1>1 DEF Known, KeepsChanges

\* A row to which nothing happens, at which nobody moves.
LEMMA VisibleUntouched ==
    ASSUME Typed, NEW r \in 1 .. Len(recs), VisibleAt(r), RowSame(r),
           \A q \in Procs : (At(q, r)' <=> At(q, r)) /\ (At(q, r) => Stage(q)' = Stage(q)),
           KeepsChanges \/ changes' = changes
    PROVE  VisibleAt(r)'
<1>1. Known(r) => Known(r)'
  BY KnownStays
<1> QED BY <1>1 DEF VisibleAt, OpenInv, RowSame, MarksSame

LEMMA VisibleActs == ASSUME Typed, VisibleInv, Acts PROVE VisibleInv'
<1> SUFFICES ASSUME NEW r \in 1 .. Len(recs') PROVE VisibleAt(r)'
  BY DEF VisibleInv
<1>0. r \in 1 .. Len(recs) => VisibleAt(r)
  BY DEF VisibleInv
<1>1. CASE Quiet
  <2>1. \A q \in Procs : (At(q, r)' <=> At(q, r)) /\ (At(q, r) => Stage(q)' = Stage(q))
    BY <1>1, KeepAt DEF Quiet
  <2>2. CASE r \in 1 .. Len(recs) /\ RowSame(r)
    BY <1>0, <1>1, <2>1, <2>2, VisibleUntouched DEF Quiet
  <2>3. CASE ~ (r \in 1 .. Len(recs) /\ RowSame(r))
    <3>1. r \notin 1 .. Len(recs) /\ ~ recs'[r].landed
      BY <1>1, <2>3, GrownRows
    <3>2. \A q \in Procs : ~ At(q, r)
      BY <3>1, TypedParts DEF At, Stage, Fits
    <3> QED BY <2>1, <3>1, <3>2 DEF VisibleAt, OpenInv
  <2> QED BY <2>2, <2>3
<1>2. CASE Invalidates
  <2>1. r \in 1 .. Len(recs) /\ \A q \in Procs : (At(q, r)' <=> At(q, r)) /\ (At(q, r) => Stage(q)' = Stage(q))
    BY <1>2, KeepAt DEF Invalidates, Keep, At
  <2>2. Known(r) => Known(r)'
    BY <1>2, KnownStays DEF Invalidates
  <2>3. /\ recs'[r].landed = recs[r].landed /\ recs'[r].overruled = recs[r].overruled
        /\ recs[r].status \in {"applying", "apply_unknown"} => recs'[r].status = recs[r].status
    BY <1>2, <2>1 DEF Invalidates, MarksSame
  <2> QED BY <1>0, <2>1, <2>2, <2>3 DEF VisibleAt, OpenInv
<1>3. ASSUME NEW s \in 1 .. Len(recs), Overrules(s) PROVE VisibleAt(r)'
  <2>1. r \in 1 .. Len(recs) /\ \A q \in Procs : (At(q, r)' <=> At(q, r)) /\ (At(q, r) => Stage(q)' = Stage(q))
    BY <1>3, KeepAt DEF Overrules, Others, Keep, At
  <2>2. CASE r # s
    BY <1>0, <1>3, <2>1, <2>2, VisibleUntouched DEF Overrules, Others
  <2>3. CASE r = s
    <3>1. Known(r) => Known(r)'
      BY <1>3, KnownStays DEF Overrules
    <3>2. ~ recs'[r].overruled => /\ ~ recs[r].overruled /\ recs'[r].landed = recs[r].landed
                                  /\ recs[r].status \notin {"applying", "apply_unknown"}
      BY <1>3, <2>3 DEF Overrules
    <3> QED BY <1>0, <2>1, <3>1, <3>2 DEF VisibleAt, OpenInv
  <2> QED BY <2>2, <2>3
<1>4. ASSUME NEW p \in Procs, NEW s \in 1 .. Len(recs), Claims(p, s) PROVE VisibleAt(r)'
  <2> USE <1>4 DEF Claims, StatusMoves, Others
  <2>0. Turns(p, s, "out", "early")
    OBVIOUS
  <2>k. r \in 1 .. Len(recs) /\ (Known(r) => Known(r)')
    BY KnownStays
  <2>1. /\ At(p, s)' /\ ~ At(p, r) /\ Stage(p)' = "early"
        /\ (r # s => ~ At(p, r)')
        /\ \A q \in Procs \ {p} : (At(q, r)' <=> At(q, r)) /\ (At(q, r) => Stage(q)' = Stage(q))
    BY <2>0, TurnsAt
  <2>2. CASE r # s
    BY <1>0, <2>k, <2>1, <2>2, VisibleUntouched
  <2>3. CASE r = s
    BY <1>0, <2>k, <2>1, <2>3 DEF VisibleAt, OpenInv, MarksSame
  <2> QED BY <2>2, <2>3
<1>5. ASSUME NEW p \in Procs, NEW s \in 1 .. Len(recs), Releases(p, s) PROVE VisibleAt(r)'
  <2> USE <1>5 DEF Releases, StatusMoves, Others
  <2>0. Turns(p, s, "early", "out")
    OBVIOUS
  <2>k. r \in 1 .. Len(recs) /\ (Known(r) => Known(r)')
    BY KnownStays
  <2>1. /\ At(p, s) /\ ~ At(p, r)' /\ Stage(p) = "early"
        /\ (r # s => ~ At(p, r))
        /\ \A q \in Procs \ {p} : (At(q, r)' <=> At(q, r)) /\ (At(q, r) => Stage(q)' = Stage(q))
    BY <2>0, TurnsAt
  <2>2. CASE r # s
    BY <1>0, <2>k, <2>1, <2>2, VisibleUntouched
  <2>3. CASE r = s
    BY <1>0, <2>k, <2>1, <2>3 DEF VisibleAt, OpenInv, MarksSame
  <2> QED BY <2>2, <2>3
<1>6. ASSUME NEW p \in Procs, NEW s \in 1 .. Len(recs), Completes(p, s) \/ GivesUp(p, s) PROVE VisibleAt(r)'
  <2> USE <1>6 DEF Completes, GivesUp, StatusMoves, Others, AllSame
  <2>0. Turns(p, s, "complete", "late")
    OBVIOUS
  <2>k. r \in 1 .. Len(recs) /\ (Known(r) => Known(r)')
    BY KnownStays
  <2>1. /\ At(p, s) /\ At(p, s)'
        /\ Stage(p) = "complete" /\ Stage(p)' = "late"
        /\ (r # s => ~ At(p, r) /\ ~ At(p, r)')
        /\ \A q \in Procs \ {p} : (At(q, r)' <=> At(q, r)) /\ (At(q, r) => Stage(q)' = Stage(q))
    BY <2>0, TurnsAt
  <2>2. CASE r # s
    BY <1>0, <2>k, <2>1, <2>2, VisibleUntouched
  <2>3. CASE r = s
    BY <1>0, <2>k, <2>1, <2>3 DEF VisibleAt
  <2> QED BY <2>2, <2>3
<1>7. ASSUME NEW p \in Procs, NEW s \in 1 .. Len(recs), Marks(p, s) PROVE VisibleAt(r)'
  <2> USE <1>7 DEF Marks, StatusMoves, Others
  <2>0. Turns(p, s, "late", "out")
    OBVIOUS
  <2>k. r \in 1 .. Len(recs) /\ (Known(r) => Known(r)')
    BY KnownStays
  <2>1. /\ At(p, s) /\ ~ At(p, r)' /\ Stage(p) = "late"
        /\ (r # s => ~ At(p, r))
        /\ \A q \in Procs \ {p} : (At(q, r)' <=> At(q, r)) /\ (At(q, r) => Stage(q)' = Stage(q))
    BY <2>0, TurnsAt
  <2>2. CASE r # s
    BY <1>0, <2>k, <2>1, <2>2, VisibleUntouched
  <2>3. CASE r = s
    BY <1>0, <2>k, <2>1, <2>3 DEF VisibleAt, OpenInv, MarksSame
  <2> QED BY <2>2, <2>3
<1>8. ASSUME NEW p \in Procs, NEW s \in 1 .. Len(recs), Calls(p, s) PROVE VisibleAt(r)'
  <2> USE <1>8 DEF Calls, Others
  <2>0. Turns(p, s, "early", "late")
    OBVIOUS
  <2>k. r \in 1 .. Len(recs) /\ (Known(r) => Known(r)')
    BY KnownStays
  <2>1. /\ At(p, s) /\ At(p, s)'
        /\ Stage(p) = "early" /\ Stage(p)' = "late"
        /\ (r # s => ~ At(p, r) /\ ~ At(p, r)')
        /\ \A q \in Procs \ {p} : (At(q, r)' <=> At(q, r)) /\ (At(q, r) => Stage(q)' = Stage(q))
    BY <2>0, TurnsAt
  <2>2. CASE r # s
    BY <1>0, <2>k, <2>1, <2>2, VisibleUntouched
  <2>3. CASE r = s
    BY <1>0, <2>k, <2>1, <2>3 DEF VisibleAt, OpenInv
  <2> QED BY <2>2, <2>3
<1>9. ASSUME NEW p \in Procs, NEW s \in 1 .. Len(recs), Records(p, s) PROVE VisibleAt(r)'
  <2>0. Turns(p, s, "late", "complete")
    BY <1>9 DEF Records
  <2>k. r \in 1 .. Len(recs) /\ (Known(r) => Known(r)')
    BY <1>9, KnownStays DEF Records, AllSame
  <2>s. Known(s)'
    BY <1>9 DEF Records, Known
  <2>1. /\ (r # s => ~ At(p, r) /\ ~ At(p, r)')
        /\ \A q \in Procs \ {p} : (At(q, r)' <=> At(q, r)) /\ (At(q, r) => Stage(q)' = Stage(q))
    BY <2>0, TurnsAt
  <2>2. CASE r # s
    BY <1>0, <2>k, <2>1, <2>2, <1>9, VisibleUntouched DEF Records, AllSame
  <2>3. CASE r = s
    BY <1>0, <2>k, <2>1, <2>3, <2>s DEF VisibleAt
  <2> QED BY <2>2, <2>3
<1>10. ASSUME NEW p \in Procs, NEW s \in 1 .. Len(recs), Dies(p, s) PROVE VisibleAt(r)'
  <2> USE <1>10 DEF Dies, Others
  <2>0. \E t \in {"early", "late", "complete"} : Turns(p, s, t, "out")
    OBVIOUS
  <2>k. r \in 1 .. Len(recs) /\ (Known(r) => Known(r)')
    BY KnownStays
  <2>1. /\ At(p, s) /\ ~ At(p, r)'
        /\ (r # s => ~ At(p, r))
        /\ \A q \in Procs \ {p} : (At(q, r)' <=> At(q, r)) /\ (At(q, r) => Stage(q)' = Stage(q))
    BY <2>0, TurnsAt
  <2>2. CASE r # s
    BY <1>0, <2>k, <2>1, <2>2, VisibleUntouched
  <2>3. CASE r = s
    BY <1>0, <2>k, <2>1, <2>3 DEF VisibleAt, OpenInv, MarksSame
  <2> QED BY <2>2, <2>3
<1> QED BY <1>1, <1>2, <1>3, <1>4, <1>5, <1>6, <1>7, <1>8, <1>9, <1>10 DEF Acts

LEMMA VisibleStep == ASSUME Typed, VisibleInv, [Next]_vars PROVE VisibleInv'
<1>1. CASE UNCHANGED vars
  BY <1>1 DEF vars, VisibleInv, VisibleAt, OpenInv, Known, At, Stage
<1> QED BY <1>1, NextActs, VisibleActs

\* A bid that WB took and bid_changes does not know of stays applying or
\* apply_unknown until somebody decides otherwise: no answer, failure or
\* crash between the call of WB and CreateBidChange hides it.
THEOREM UncertaintyIsShown == Spec => []UncertainStaysVisible
<1>1. Init => VisibleInv
  BY DEF Init, VisibleInv
<1>2. VisibleInv => UncertainStaysVisible
  BY DEF VisibleInv, VisibleAt, OpenInv, UncertainStaysVisible, Unrecorded, Known
<1>3. Spec => [](Typed /\ VisibleInv)
  BY <1>1, TypedInit, TypedStep, VisibleStep, PTL DEF Spec
<1> QED BY <1>2, <1>3, PTL

-----------------------------------------------------------------------------
(* A recommendation is sent once.                                          *)

\* The applications of a row that may still call WB.
Early(r) == {q \in Procs : Stage(q) = "early" /\ loc[q].rec = r}

\* An active row is worth a call, and so is every application before its call.
OnceAt(r) ==
    /\ IsFiniteSet(Early(r))
    /\ recs[r].calls + Cardinality(Early(r)) + (IF recs[r].status = "active" THEN 1 ELSE 0)
         <= 1 + recs[r].reopened

OnceInv == \A r \in 1 .. Len(recs) : OnceAt(r)

LEMMA EarlySame == ASSUME \A q \in Procs : Keep(q), NEW r PROVE Early(r)' = Early(r)
BY DEF Keep, Early

LEMMA EarlyTurns ==
    ASSUME NEW p, NEW s, NEW st, NEW t, Turns(p, s, st, t), NEW r
    PROVE  Early(r)' = IF r # s THEN Early(r)
                       ELSE IF t = "early" THEN Early(r) \cup {p} ELSE Early(r) \ {p}
<1>1. p \in Procs /\ \A q \in Procs \ {p} : Keep(q)
  BY DEF Turns
<1>2. \A q \in Procs \ {p} : q \in Early(r)' <=> q \in Early(r)
  BY <1>1 DEF Keep, Early
<1>3. p \in Early(r)' <=> (t = "early" /\ r = s)
  BY DEF Turns, Early
<1>4. p \in Early(r) <=> (st = "early" /\ r = s)
  BY DEF Turns, Early
<1>5. Early(r) \subseteq Procs /\ Early(r)' \subseteq Procs
  BY DEF Early, Procs
<1>6. CASE r # s
  BY <1>1, <1>2, <1>3, <1>4, <1>5, <1>6
<1>7. CASE r = s /\ t = "early"
  BY <1>1, <1>2, <1>3, <1>5, <1>7
<1>8. CASE r = s /\ t # "early"
  BY <1>1, <1>2, <1>3, <1>5, <1>8
<1> QED BY <1>6, <1>7, <1>8

\* The numbers of a row are numbers.
LEMMA RowNumbers ==
    ASSUME Typed, NEW r \in 1 .. Len(recs)
    PROVE  recs[r].calls \in Nat /\ recs[r].reopened \in Nat
BY TypedParts DEF Row

\* A row nobody begins to apply, that does not become active and is not sent.
LEMMA OnceQuiet ==
    ASSUME Typed, NEW r \in 1 .. Len(recs), OnceAt(r), Early(r)' \subseteq Early(r),
           CountsSame(r), recs'[r].status = "active" => recs[r].status = "active"
    PROVE  OnceAt(r)'
<1>1. IsFiniteSet(Early(r)') /\ Cardinality(Early(r)') <= Cardinality(Early(r))
      /\ Cardinality(Early(r)) \in Nat /\ Cardinality(Early(r)') \in Nat
  BY FS_Subset, FS_CardinalityType DEF OnceAt
<1> QED BY <1>1, RowNumbers DEF OnceAt, CountsSame

\* One process more, or one less, in a set.
LEMMA OneMore ==
    ASSUME NEW S, IsFiniteSet(S), NEW x, NEW T, T = S \cup {x}
    PROVE  IsFiniteSet(T) /\ Cardinality(T) \in Nat /\ Cardinality(T) <= Cardinality(S) + 1
<1>1. IsFiniteSet(T) /\ (Cardinality(T) = Cardinality(S) \/ Cardinality(T) = Cardinality(S) + 1)
  BY FS_AddElement
<1>2. Cardinality(T) \in Nat /\ Cardinality(S) \in Nat
  BY <1>1, FS_CardinalityType
<1> QED BY <1>1, <1>2

LEMMA OneLess ==
    ASSUME NEW S, IsFiniteSet(S), NEW x \in S, NEW T, T = S \ {x}
    PROVE  IsFiniteSet(T) /\ Cardinality(S) \in Nat /\ Cardinality(T) = Cardinality(S) - 1
<1>1. IsFiniteSet(T) /\ Cardinality(T) = Cardinality(S) - 1
  BY FS_RemoveElement
<1> QED BY <1>1, FS_CardinalityType

\* One process less in the count makes room for the row to be active again, or
\* for one more call.
LEMMA Room ==
    ASSUME NEW c \in Nat, NEW e \in Nat, NEW a, NEW o \in Nat,
           c + e + (IF a = "active" THEN 1 ELSE 0) <= 1 + o
    PROVE  /\ \A b : b = (IF a = "applying" THEN "active" ELSE a) =>
                     c + (e - 1) + (IF b = "active" THEN 1 ELSE 0) <= 1 + o
           /\ (c + 1) + (e - 1) + (IF a = "active" THEN 1 ELSE 0) <= 1 + o
OBVIOUS

LEMMA OnceActs == ASSUME Typed, OnceInv, Acts PROVE OnceInv'
<1> SUFFICES ASSUME NEW r \in 1 .. Len(recs') PROVE OnceAt(r)'
  BY DEF OnceInv
<1>0. r \in 1 .. Len(recs) => OnceAt(r)
  BY DEF OnceInv
<1>1. CASE Quiet
  <2>1. Early(r)' = Early(r)
    BY <1>1, EarlySame DEF Quiet
  <2>2. CASE r \in 1 .. Len(recs) /\ RowSame(r)
    BY <1>0, <2>1, <2>2, OnceQuiet DEF RowSame
  <2>3. CASE ~ (r \in 1 .. Len(recs) /\ RowSame(r))
    <3>1. r \notin 1 .. Len(recs) /\ recs'[r].calls = 0 /\ recs'[r].reopened = 0
      BY <1>1, <2>3, GrownRows
    <3>2. \A q \in Procs : Stage(q) # "out" => loc[q].rec # r
      BY <3>1, TypedParts DEF Stage, Fits
    <3>3. Early(r) = {}
      BY <3>2 DEF Early
    <3> QED BY <2>1, <3>1, <3>3, FS_EmptySet DEF OnceAt
  <2> QED BY <2>2, <2>3
<1>2. CASE Invalidates
  <2>1. r \in 1 .. Len(recs) /\ Early(r)' = Early(r)
    BY <1>2, EarlySame DEF Invalidates
  <2> QED BY <1>0, <1>2, <2>1, OnceQuiet DEF Invalidates
<1>3. ASSUME NEW s \in 1 .. Len(recs), Overrules(s) PROVE OnceAt(r)'
  <2>1. r \in 1 .. Len(recs) /\ Early(r)' = Early(r)
    BY <1>3, EarlySame DEF Overrules, Others
  <2>2. CASE r # s
    BY <1>0, <1>3, <2>1, <2>2, OnceQuiet DEF Overrules, Others, RowSame
  <2>3. CASE r = s /\ recs'[r].status = "active"
    <3>1. recs'[r].calls = recs[r].calls /\ recs'[r].reopened = recs[r].reopened + 1
      BY <1>3, <2>3 DEF Overrules
    <3>2. Cardinality(Early(r)) \in Nat
      BY <1>0, <2>1, FS_CardinalityType DEF OnceAt
    <3> QED BY <1>0, <2>1, <2>3, <3>1, <3>2, RowNumbers DEF OnceAt
  <2>4. CASE r = s /\ recs'[r].status # "active"
    BY <1>0, <1>3, <2>1, <2>4, OnceQuiet DEF Overrules, CountsSame
  <2> QED BY <2>2, <2>3, <2>4
<1>4. ASSUME NEW p \in Procs, NEW s \in 1 .. Len(recs), Claims(p, s) PROVE OnceAt(r)'
  <2>1. Turns(p, s, "out", "early") /\ r \in 1 .. Len(recs)
    BY <1>4 DEF Claims, StatusMoves, Others
  <2>2. CASE r # s
    <3>1. Early(r)' = Early(r) /\ RowSame(r)
      BY <1>4, <2>1, <2>2, EarlyTurns DEF Claims, StatusMoves, Others
    <3> QED BY <1>0, <2>1, <3>1, OnceQuiet DEF RowSame
  <2>3. CASE r = s
    <3>1. Early(r)' = Early(r) \cup {p} /\ IsFiniteSet(Early(r)) /\ Cardinality(Early(r)) \in Nat
      BY <1>0, <2>1, <2>3, EarlyTurns, FS_CardinalityType DEF OnceAt
    <3>2. IsFiniteSet(Early(r)') /\ Cardinality(Early(r)') <= Cardinality(Early(r)) + 1
          /\ Cardinality(Early(r)') \in Nat
      BY <3>1, OneMore
    <3>3. /\ recs[r].status = "active" /\ recs'[r].status = "applying"
          /\ recs'[r].calls = recs[r].calls /\ recs'[r].reopened = recs[r].reopened
      BY <1>4, <2>3 DEF Claims, StatusMoves, CountsSame
    <3> QED BY <1>0, <2>1, <3>1, <3>2, <3>3, RowNumbers DEF OnceAt
  <2> QED BY <2>2, <2>3
\* A request that is about to call, or to give the row back, leaves.
<1>5. ASSUME NEW p \in Procs, NEW s \in 1 .. Len(recs), NEW t, t # "early", Turns(p, s, "early", t), r = s
      PROVE  /\ IsFiniteSet(Early(r)') /\ Cardinality(Early(r)) \in Nat
             /\ Cardinality(Early(r)') = Cardinality(Early(r)) - 1
  <2>1. r \in 1 .. Len(recs) /\ Early(r)' = Early(r) \ {p}
    BY <1>5, EarlyTurns
  <2>2. p \in Early(r)
    BY <1>5 DEF Turns, Early
  <2>3. IsFiniteSet(Early(r))
    BY <1>0, <2>1 DEF OnceAt
  <2> QED BY <2>1, <2>2, <2>3, OneLess
<1>6. ASSUME NEW p \in Procs, NEW s \in 1 .. Len(recs), Releases(p, s) PROVE OnceAt(r)'
  <2>1. Turns(p, s, "early", "out") /\ r \in 1 .. Len(recs)
    BY <1>6 DEF Releases, StatusMoves, Others
  <2>2. CASE r # s
    <3>1. Early(r)' = Early(r) /\ RowSame(r)
      BY <1>6, <2>1, <2>2, EarlyTurns DEF Releases, StatusMoves, Others
    <3> QED BY <1>0, <2>1, <3>1, OnceQuiet DEF RowSame
  <2>3. CASE r = s
    <3>1. /\ IsFiniteSet(Early(r)') /\ Cardinality(Early(r)) \in Nat
          /\ Cardinality(Early(r)') = Cardinality(Early(r)) - 1
      BY <1>5, <2>1, <2>3
    <3>2. /\ recs'[r].status = IF recs[r].status = "applying" THEN "active" ELSE recs[r].status
          /\ recs'[r].calls = recs[r].calls /\ recs'[r].reopened = recs[r].reopened
      BY <1>6, <2>3 DEF Releases, StatusMoves, CountsSame
    <3>3. recs[r].calls \in Nat /\ recs[r].reopened \in Nat
      BY <2>1, RowNumbers
    <3>4. recs[r].calls + Cardinality(Early(r)) + (IF recs[r].status = "active" THEN 1 ELSE 0)
            <= 1 + recs[r].reopened
      BY <1>0, <2>1 DEF OnceAt
    <3>5. recs'[r].calls + Cardinality(Early(r)') + (IF recs'[r].status = "active" THEN 1 ELSE 0)
            <= 1 + recs'[r].reopened
      BY ONLY <3>1, <3>2, <3>3, <3>4, Room, Zenon
    <3> QED BY <3>1, <3>5 DEF OnceAt
  <2> QED BY <2>2, <2>3
<1>7. ASSUME NEW p \in Procs, NEW s \in 1 .. Len(recs), Calls(p, s) PROVE OnceAt(r)'
  <2>1. Turns(p, s, "early", "late") /\ r \in 1 .. Len(recs)
    BY <1>7 DEF Calls, Others
  <2>2. CASE r # s
    <3>1. Early(r)' = Early(r) /\ RowSame(r)
      BY <1>7, <2>1, <2>2, EarlyTurns DEF Calls, Others
    <3> QED BY <1>0, <2>1, <3>1, OnceQuiet DEF RowSame
  <2>3. CASE r = s
    <3>1. /\ IsFiniteSet(Early(r)') /\ Cardinality(Early(r)) \in Nat
          /\ Cardinality(Early(r)') = Cardinality(Early(r)) - 1
      BY <1>5, <2>1, <2>3
    <3>2. /\ recs'[r].status = recs[r].status
          /\ recs'[r].calls = recs[r].calls + 1 /\ recs'[r].reopened = recs[r].reopened
      BY <1>7, <2>3 DEF Calls
    <3>3. recs[r].calls \in Nat /\ recs[r].reopened \in Nat
      BY <2>1, RowNumbers
    <3>4. recs[r].calls + Cardinality(Early(r)) + (IF recs[r].status = "active" THEN 1 ELSE 0)
            <= 1 + recs[r].reopened
      BY <1>0, <2>1 DEF OnceAt
    <3>5. recs'[r].calls + Cardinality(Early(r)') + (IF recs'[r].status = "active" THEN 1 ELSE 0)
            <= 1 + recs'[r].reopened
      BY ONLY <3>1, <3>2, <3>3, <3>4, Room, Zenon
    <3> QED BY <3>1, <3>5 DEF OnceAt
  <2> QED BY <2>2, <2>3
<1>8. ASSUME NEW p \in Procs, NEW s \in 1 .. Len(recs),
             Completes(p, s) \/ GivesUp(p, s) \/ Marks(p, s) \/ Records(p, s) \/ Dies(p, s)
      PROVE  OnceAt(r)'
  <2>1. \E st \in {"early", "late", "complete"}, t \in {"out", "late", "complete"} : Turns(p, s, st, t)
    BY <1>8 DEF Completes, GivesUp, Marks, Records, Dies
  <2>2. Early(r)' \subseteq Early(r)
    BY <2>1, EarlyTurns
  <2>3. r \in 1 .. Len(recs) /\ CountsSame(r) /\ (recs'[r].status = "active" => recs[r].status = "active")
    BY <1>8 DEF Completes, GivesUp, Marks, Records, Dies, StatusMoves, Others, AllSame, RowSame
  <2> QED BY <1>0, <2>2, <2>3, OnceQuiet
<1> QED BY <1>1, <1>2, <1>3, <1>4, <1>6, <1>7, <1>8 DEF Acts

LEMMA OnceStep == ASSUME Typed, OnceInv, [Next]_vars PROVE OnceInv'
<1>1. CASE UNCHANGED vars
  BY <1>1 DEF vars, OnceInv, OnceAt, Early, Stage
<1> QED BY <1>1, NextActs, OnceActs

\* However requests, failures and generators race, a recommendation is sent
\* to WB once, and once more for each time a person reopened it: the claim of
\* applyRecommendation is the only way to the call.
THEOREM SentOnlyOnce == Spec => []SentOnce
<1>1. Init => OnceInv
  BY DEF Init, OnceInv
<1>2. Typed /\ OnceInv => SentOnce
  <2> SUFFICES ASSUME Typed, OnceInv, NEW r \in 1 .. Len(recs) PROVE recs[r].calls <= 1 + recs[r].reopened
    BY DEF SentOnce
  <2>1. Cardinality(Early(r)) \in Nat /\ OnceAt(r)
    BY FS_CardinalityType DEF OnceInv, OnceAt
  <2> QED BY <2>1, RowNumbers DEF OnceAt
<1>3. Spec => [](Typed /\ OnceInv)
  BY <1>1, TypedInit, TypedStep, OnceStep, PTL DEF Spec
<1> QED BY <1>2, <1>3, PTL

-----------------------------------------------------------------------------
(* No bid is overwritten blindly.                                          *)

\* What was synced is WB's bid for as long as nothing changes it, and so is
\* what a sync in progress has read.
BlindInv ==
    /\ synced => obs = wb
    /\ sync.clean => sync.bid = wb
    /\ NoBlindOverwrite

\* A decision that may be sent as it is.
Founded(l, x) == l = "call" /\ x.job \in {"apply", "rollback"} => wb = x.old \/ x.blind

LEMMA BlindMoves ==
    ASSUME Typed, BlindInv, UNCHANGED outside, NEW p \in Procs, NEW l, NEW x, Moved(p, l, x), Founded(l, x)
    PROVE  BlindInv'
<1>1. pc'[p] = l /\ loc'[p] = x /\ \A q \in Procs \ {p} : pc'[q] = pc[q] /\ loc'[q] = loc[q]
  BY TypedParts DEF Moved
<1>2. \A q \in Users : q \in Procs
  BY DEF Procs
<1>3. UNCHANGED <<obs, wb, synced, sync>>
  BY DEF outside
<1>4. NoBlindOverwrite'
  <2> SUFFICES ASSUME NEW q \in Users, pc'[q] = "call", loc'[q].job \in {"apply", "rollback"}
               PROVE  wb' = loc'[q].old \/ loc'[q].blind
    BY DEF NoBlindOverwrite
  <2>1. CASE q = p
    BY <1>1, <1>3, <2>1 DEF Founded
  <2>2. CASE q # p
    BY <1>1, <1>2, <1>3, <2>2 DEF BlindInv, NoBlindOverwrite
  <2> QED BY <2>1, <2>2
<1> QED BY <1>3, <1>4 DEF BlindInv

\* Most steps end elsewhere than at a call.
LEMMA BlindGoes ==
    ASSUME Typed, BlindInv, UNCHANGED outside, NEW p \in Procs, NEW l, NEW x, Moved(p, l, x), l # "call"
    PROVE  BlindInv'
BY BlindMoves DEF Founded

LEMMA BlindReturns ==
    ASSUME Typed, BlindInv, UNCHANGED outside, NEW p \in Procs, Return(p)
    PROVE  BlindInv'
BY BlindGoes, ReturnIsMove

LEMMA BlindGotos ==
    ASSUME Typed, BlindInv, UNCHANGED outside, NEW p \in Procs, NEW l, Goto(p, l), l # "call"
    PROVE  BlindInv'
BY BlindGoes, GotoIsMove

\* A recommendation is sent when its baseline is the synced bid, a rollback
\* when its change is; who relies on an outdated sync says so.
LEMMA BlindApply ==
    ASSUME Typed, BlindInv, NEW u \in Users, Apply(u)
    PROVE  BlindInv'
<1>0. u \in Procs
  BY DEF Procs
<1>1. CASE ApplyRecommendation(u) \/ ClaimActiveRecommendation(u)
  <2>1. UNCHANGED outside
    BY <1>1 DEF ApplyRecommendation, ClaimActiveRecommendation
  <2>2. Return(u) \/ \E l, x : Moved(u, l, x) /\ l # "call"
    BY <1>1 DEF ApplyRecommendation, ClaimActiveRecommendation, Moved
  <2> QED BY <1>0, <2>1, <2>2, BlindGoes, BlindReturns
<1>2. CASE ApplyChecks(u)
  <2>1. UNCHANGED outside
    BY <1>2 DEF ApplyChecks
  <2>2. CASE obs = loc[u].old /\ Send(u)
    <3>1. PICK b \in BOOLEAN : b = ~ synced
      OBVIOUS
    <3> DEFINE x == [loc[u] EXCEPT !.blind = b]
    <3>2. Moved(u, "call", x)
      BY <2>2, <3>1 DEF Send, Moved
    <3>3. x.old = loc[u].old /\ x.blind = b
      BY <1>0, TypedParts DEF Local
    <3> HIDE DEF x
    <3>4. wb = x.old \/ x.blind
      BY <2>2, <3>1, <3>3 DEF BlindInv
    <3> QED BY <1>0, <2>1, <3>2, <3>4, BlindMoves DEF Founded
  <2>3. CASE Goto(u, "release")
    BY <1>0, <2>1, <2>3, BlindGotos
  <2> QED BY <1>2, <2>2, <2>3 DEF ApplyChecks
<1>3. CASE ReleaseClaim(u) \/ MarkApplyUnknown(u)
  BY <1>0, <1>3, BlindReturns DEF ReleaseClaim, MarkApplyUnknown
<1>4. CASE CompleteRecommendation(u) \/ CompleteFails(u)
  BY <1>0, <1>4, BlindGotos DEF CompleteRecommendation, CompleteFails
<1> QED BY <1>1, <1>2, <1>3, <1>4 DEF Apply

LEMMA BlindByHand ==
    ASSUME Typed, BlindInv, NEW u \in Users, ByHand(u)
    PROVE  BlindInv'
<1>0. u \in Procs /\ Idle \in Local
  BY IdleLocal DEF Procs
<1>1. CASE SetClusterBid(u)
  <2>1. PICK b \in Bids : loc' = [loc EXCEPT ![u] = [Idle EXCEPT !.job = "set", !.old = obs, !.new = b]]
    BY <1>1 DEF SetClusterBid
  <2> DEFINE x == [Idle EXCEPT !.job = "set", !.old = obs, !.new = b]
  <2>2. x.job = "set"
    BY <1>0 DEF Local
  <2>3. Moved(u, "call", x) /\ UNCHANGED outside
    BY <1>1, <2>1 DEF SetClusterBid, Moved
  <2> HIDE DEF x
  <2> QED BY <1>0, <2>2, <2>3, BlindMoves DEF Founded
<1>2. CASE RollbackBidChange(u)
  <2>1. PICK b \in BOOLEAN : b = ~ synced
    OBVIOUS
  <2>2. PICK i \in 1 .. Len(changes) :
          /\ obs = changes[i].new
          /\ loc' = [loc EXCEPT ![u] = [Idle EXCEPT !.job = "rollback", !.blind = b,
                                                    !.old = changes[i].new, !.new = changes[i].old]]
    BY <1>2, <2>1 DEF RollbackBidChange, Restorable
  <2> DEFINE x == [Idle EXCEPT !.job = "rollback", !.blind = b,
                               !.old = changes[i].new, !.new = changes[i].old]
  <2>3. x.old = changes[i].new /\ x.blind = b
    BY <1>0 DEF Local
  <2>4. Moved(u, "call", x) /\ UNCHANGED outside
    BY <1>2, <2>2 DEF RollbackBidChange, Moved
  <2> HIDE DEF x
  <2>5. wb = x.old \/ x.blind
    BY <2>1, <2>2, <2>3 DEF BlindInv
  <2> QED BY <1>0, <2>4, <2>5, BlindMoves DEF Founded
<1>3. CASE SwitchCampaign(u)
  <2>1. PICK s \in Switches : loc' = [loc EXCEPT ![u] = [Idle EXCEPT !.job = "switch", !.to = s[2]]]
    BY <1>3 DEF SwitchCampaign
  <2> DEFINE x == [Idle EXCEPT !.job = "switch", !.to = s[2]]
  <2>2. x.job = "switch"
    BY <1>0 DEF Local
  <2>3. Moved(u, "call", x) /\ UNCHANGED outside
    BY <1>3, <2>1 DEF SwitchCampaign, Moved
  <2> HIDE DEF x
  <2> QED BY <1>0, <2>2, <2>3, BlindMoves DEF Founded
<1>4. CASE UpdateLocalStatus(u)
  BY <1>0, <1>4, BlindReturns, BlindGotos DEF UpdateLocalStatus
<1>5. CASE InvalidateRecommendations(u)
  BY <1>0, <1>5, BlindReturns DEF InvalidateRecommendations
<1> QED BY <1>1, <1>2, <1>3, <1>4, <1>5 DEF ByHand

\* A bid that has landed outdates the sync in progress and what was synced.
LEMMA LandsBlind == ASSUME Typed, NEW b, Lands(b) PROVE ~ synced' /\ ~ sync'.clean
<1>1. sync \in [bid : Bids, clean : BOOLEAN] \/ sync = [bid |-> 0, clean |-> FALSE]
  BY TypedWorld DEF World, Syncs, NoSync
<1> QED BY <1>1 DEF Lands

\* Whoever is about to call when a bid lands is outdated from then on.
LEMMA BlindCall ==
    ASSUME Typed, BlindInv, NEW u \in Users, CallAccepted(u) \/ CallRefused(u) \/ CallLost(u)
    PROVE  BlindInv'
<1>0. u \in Procs /\ \A q \in Users : q \in Procs
  BY DEF Procs
<1> DEFINE Goes(label, lands) ==
         /\ Proceed(u, label, lands) /\ label # "call"
         /\ lands => ~ synced' /\ ~ sync'.clean
         /\ ~ lands => UNCHANGED outside
<1>c. \E label \in Labels, lands \in BOOLEAN : Goes(label, lands)
  <2>1. Bidding(u) \in BOOLEAN /\ Failed(u) \in Labels \ {"call"}
    BY DEF Bidding, Failed
  <2>2. pc[u] = "call"
    BY DEF CallAccepted, CallRefused, CallLost
  <2>3. loc[u].job \in {"apply", "rollback", "set", "switch"}
    BY <1>0, <2>2, TypedParts DEF Fits
  <2>4. Answered(u) \in Labels \ {"call"}
    BY <2>3 DEF Answered
  <2>5. CASE CallAccepted(u)
    <3>1. Proceed(u, Answered(u), Bidding(u)) /\ (~ Bidding(u) => UNCHANGED outside)
      BY <2>5 DEF CallAccepted
    <3>2. Bidding(u) => ~ synced' /\ ~ sync'.clean
      BY <2>5, LandsBlind DEF CallAccepted
    <3>3. Goes(Answered(u), Bidding(u))
      BY <2>4, <3>1, <3>2
    <3> HIDE DEF Goes
    <3> QED BY <2>1, <2>4, <3>3
  <2>6. CASE CallRefused(u)
    <3>1. Proceed(u, Failed(u), FALSE) /\ UNCHANGED outside
      BY <2>6 DEF CallRefused
    <3>2. Goes(Failed(u), FALSE)
      BY <2>1, <3>1
    <3> HIDE DEF Goes
    <3> QED BY <2>1, <3>2
  <2>7. CASE CallLost(u)
    <3>1. Proceed(u, Failed(u), Bidding(u)) /\ (~ Bidding(u) => UNCHANGED outside)
      BY <2>7 DEF CallLost
    <3>2. Bidding(u) => ~ synced' /\ ~ sync'.clean
      BY <2>7, LandsBlind DEF CallLost
    <3>3. Goes(Failed(u), Bidding(u))
      BY <2>1, <3>1, <3>2
    <3> HIDE DEF Goes
    <3> QED BY <2>1, <2>4, <3>3
  <2> HIDE DEF Goes
  <2> QED BY <2>5, <2>6, <2>7
<1>1. PICK label \in Labels, lands \in BOOLEAN :
         /\ Proceed(u, label, lands) /\ label # "call"
         /\ lands => ~ synced' /\ ~ sync'.clean
         /\ ~ lands => UNCHANGED outside
  BY <1>c
<1> HIDE DEF Goes
<1>2. pc'[u] = label /\ \A q \in Users \ {u} : pc'[q] = pc[q]
  BY <1>0, <1>1, TypedParts DEF Proceed
<1>3. \A q \in Users \ {u} : /\ loc'[q].job = loc[q].job /\ loc'[q].old = loc[q].old
                             /\ loc'[q].blind = (loc[q].blind \/ (lands /\ pc[q] = "call"))
  <2> SUFFICES ASSUME NEW q \in Users \ {u}
               PROVE  /\ loc'[q].job = loc[q].job /\ loc'[q].old = loc[q].old
                      /\ loc'[q].blind = (loc[q].blind \/ (lands /\ pc[q] = "call"))
    OBVIOUS
  <2>1. pc'[q] = pc[q] /\ loc'[q] = [loc[q] EXCEPT !.blind = @ \/ (lands /\ pc[q] = "call")]
    BY <1>0, <1>1, <1>2 DEF Proceed
  <2> QED BY <1>0, <2>1, OthersBlinded
<1>4. NoBlindOverwrite'
  <2> SUFFICES ASSUME NEW q \in Users, pc'[q] = "call", loc'[q].job \in {"apply", "rollback"}
               PROVE  wb' = loc'[q].old \/ loc'[q].blind
    BY DEF NoBlindOverwrite
  <2>1. q # u /\ pc[q] = "call" /\ loc[q].job \in {"apply", "rollback"}
    BY <1>1, <1>2, <1>3
  <2>2. wb = loc[q].old \/ loc[q].blind
    BY <2>1 DEF BlindInv, NoBlindOverwrite
  <2>3. loc'[q].old = loc[q].old /\ loc'[q].blind = (loc[q].blind \/ (lands /\ pc[q] = "call"))
    BY <1>3, <2>1
  <2>4. ~ lands => wb' = wb
    BY <1>1 DEF outside
  <2> QED BY <2>1, <2>2, <2>3, <2>4
<1>5. (synced' => obs' = wb') /\ (sync'.clean => sync'.bid = wb')
  BY <1>1 DEF outside, BlindInv
<1> QED BY <1>4, <1>5 DEF BlindInv

LEMMA BlindSync ==
    ASSUME Typed, BlindInv, SyncRead \/ SyncWrite
    PROVE  BlindInv'
<1>1. NoBlindOverwrite'
  BY DEF SyncRead, SyncWrite, BlindInv, NoBlindOverwrite
<1>2. (synced' => obs' = wb') /\ (sync'.clean => sync'.bid = wb')
  BY DEF SyncRead, SyncWrite, BlindInv, NoSync
<1> QED BY <1>1, <1>2 DEF BlindInv

LEMMA BlindEdit ==
    ASSUME Typed, BlindInv, EditInWB
    PROVE  BlindInv'
<1>1. ~ synced' /\ ~ sync'.clean /\ pc' = pc
  BY LandsBlind DEF EditInWB
<1>2. \A q \in Users : pc[q] = "call" => loc'[q].blind
  <2> SUFFICES ASSUME NEW q \in Users, pc[q] = "call" PROVE loc'[q].blind
    OBVIOUS
  <2>1. q \in Procs
    BY DEF Procs
  <2>2. pc'[q] = pc[q] /\ loc'[q] = [loc[q] EXCEPT !.blind = @ \/ (TRUE /\ pc[q] = "call")]
    BY <1>1, <2>1 DEF EditInWB
  <2>3. loc'[q].blind = (loc[q].blind \/ (TRUE /\ pc[q] = "call"))
    BY <2>1, <2>2, OthersBlinded
  <2> QED BY <2>3
<1> QED BY <1>1, <1>2 DEF BlindInv, NoBlindOverwrite

LEMMA BlindStep == ASSUME Typed, BlindInv, [Next]_vars PROVE BlindInv'
<1>1. ASSUME NEW u \in Users, RecordChange(u) \/ RecordFails(u) PROVE BlindInv'
  <2>1. u \in Procs /\ UNCHANGED outside
    BY <1>1 DEF RecordChange, RecordFails, Procs
  <2>2. Return(u) \/ Goto(u, "complete") \/ Goto(u, "mark")
    BY <1>1 DEF RecordChange, RecordFails
  <2> QED BY <2>1, <2>2, BlindReturns, BlindGotos
<1>2. ASSUME NEW g \in Generators, Generate(g) \/ Look(g) \/ Put(g) PROVE BlindInv'
  <2>1. g \in Procs /\ UNCHANGED outside
    BY <1>2 DEF Generate, Look, Put, Procs
  <2>2. \E l, x : Moved(g, l, x) /\ l # "call"
    <3>1. NextStep(g) => \E l, x : Moved(g, l, x) /\ l # "call"
      BY ReturnIsMove DEF NextStep, Moved
    <3>2. Goto(g, "put") => \E l, x : Moved(g, l, x) /\ l # "call"
      BY <2>1, GotoIsMove
    <3> QED BY <1>2, <3>1, <3>2 DEF Generate, Look, Put, Moved
  <2> QED BY <2>1, <2>2, BlindGoes
<1>3. ASSUME NEW r \in 1 .. Len(recs), NEW to \in Statuses, UpdateStatus(r, to) PROVE BlindInv'
  BY <1>3 DEF UpdateStatus, outside, BlindInv, NoBlindOverwrite
<1>4. ASSUME NEW p \in Procs, Crash(p) PROVE BlindInv'
  BY <1>4, BlindReturns DEF Crash
<1>5. CASE UNCHANGED vars
  BY <1>5 DEF vars, BlindInv, NoBlindOverwrite
<1> QED BY <1>1, <1>2, <1>3, <1>4, <1>5, BlindApply, BlindByHand, BlindCall, BlindSync, BlindEdit DEF Next, Call

\* A recommendation or a rollback about to be sent replaces the bid it was
\* made for: the comparison of the baseline with the synced bid rules out
\* everything but a change of WB's bid after that sync.
THEOREM BaselinesAreCompared == Spec => []NoBlindOverwrite
<1>1. Init => BlindInv
  BY DEF Init, BlindInv, NoBlindOverwrite, NoSync, Procs
<1>2. Spec => [](Typed /\ BlindInv)
  BY <1>1, TypedInit, TypedStep, BlindStep, PTL DEF Spec
<1> QED BY <1>2, PTL DEF BlindInv
=============================================================================
