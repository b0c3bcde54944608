-------------------------- MODULE PriceQueueProofs --------------------------
(***************************************************************************)
(* What is proved of PriceQueue, for any number of products, processes,    *)
(* entries, changes, mishaps and syncs, and for any price, discount,       *)
(* economics and strategy parameters.  Four inductive invariants:          *)
(*                                                                         *)
(* IInv.  The types of the rows, the locals and WB's side; the others      *)
(* need them.                                                              *)
(*                                                                         *)
(* FloorInv.  The floor of WB's prices is not inductive by itself: it      *)
(* follows from the floor of every price that is anywhere on its way to    *)
(* WB, in a saved change (as its old price too: rollbacks and reverts go   *)
(* back to it), in an upload, in a list of intents or in a price list that *)
(* was read.  Each is bounded by what some decision about the product has  *)
(* read, and a decision below its own floor is at least a raise.           *)
(*                                                                         *)
(* LockInv.  A task of WB carries a batch when its items are the changes   *)
(* of the batch and nothing was uploaded for their goods since.  An upload *)
(* that is open is carried for a batch in transport as a whole, and a      *)
(* product has at most one change in transport; so a result, whenever it   *)
(* is learned, belongs to the latest write of each of its goods.           *)
(*                                                                         *)
(* EntryInv.  Who still has to save changes for a schedule entry: nobody   *)
(* for a planned one, and for a claimed one only its executor, one change  *)
(* for each product that has none.                                         *)
(***************************************************************************)
EXTENDS PriceQueue, WellFoundedInduction, TLAPS

----------------------------------------------------------------------------
(* What the arithmetic of the repricer guarantees for every price, every   *)
(* discount and every floor.                                               *)

\* Rounding up a quotient never loses anything.
LEMMA CeilCovers ==
    ASSUME NEW a \in Nat, NEW q \in Nat \ {0}
    PROVE  /\ (a + q - 1) \div q \in Nat
           /\ ((a + q - 1) \div q) * q >= a
<1> DEFINE n == (a + q - 1) \div q
           r == (a + q - 1) % q
<1>1. a + q - 1 \in Nat
  OBVIOUS
<1>2. a + q - 1 = q * n + r /\ 0 <= r /\ r < q
  BY <1>1
<1>3. n \in Int
  BY <1>1
<1>4. n >= 0
  BY <1>1
<1>5. q * n = n * q
  BY <1>3
<1> QED
  BY <1>2, <1>3, <1>4, <1>5

\* The kept share of a price, in per cent, is between 5 and 100.
LEMMA DiscountBounds ==
    ASSUME NEW d \in Int
    PROVE  100 - clampDiscount(d) \in 5 .. 100
  BY DEF clampDiscount

LEMMA EffectiveIsPrice ==
    ASSUME NEW b \in Nat, NEW d \in Int
    PROVE  effectiveOf(b, d) \in Nat
<1> DEFINE q == 100 - clampDiscount(d)
<1>1. q \in 5 .. 100
  BY DiscountBounds
<1> HIDE DEF q
<1>2. b * q \in Nat
  BY <1>1
<1>3. (b * q + 50) \div 100 \in Nat
  BY <1>2
<1> QED
  BY <1>3 DEF effectiveOf, RoundPercent, q

\* basePriceForTarget: the base price for a target shows at least the target.
THEOREM BaseReachesTarget ==
    ASSUME NEW t \in Nat, NEW d \in Int
    PROVE  /\ basePriceForTarget(t, d) \in Nat
           /\ effectiveOf(basePriceForTarget(t, d), d) >= t
<1> DEFINE q == 100 - clampDiscount(d)
           b == (t * 100 + q - 1) \div q
<1>1. q \in 5 .. 100
  BY DiscountBounds
<1>2. b \in Nat /\ b * q >= t * 100
  <2> HIDE DEF q
  <2>1. t * 100 \in Nat /\ q \in Nat \ {0}
    BY <1>1
  <2> QED
    BY <2>1, CeilCovers
<1>3. basePriceForTarget(t, d) = b
  BY DEF basePriceForTarget, CeilPercent
<1>4. effectiveOf(b, d) = (b * q + 50) \div 100
  BY DEF effectiveOf, RoundPercent
<1> HIDE DEF q, b
<1>5. b * q \in Int
  BY <1>1, <1>2
<1>6. (b * q + 50) \div 100 >= t
  BY <1>2, <1>5
<1> QED
  BY <1>2, <1>3, <1>4, <1>6

\* quarantineSafeTarget: the step is never a quarantine risk, nor is anything
\* above a step that was cut short, and it is never below the target.
THEOREM StepIsSafe ==
    ASSUME NEW old \in Nat, NEW t \in Nat
    PROVE  /\ quarantineSafeTarget(old, t) \in Nat
           /\ quarantineSafeTarget(old, t) >= t
           /\ ~QuarantineRisk(old, quarantineSafeTarget(old, t))
           /\ quarantineSafeTarget(old, t) # t =>
                 \A new \in Nat : new >= quarantineSafeTarget(old, t) => ~QuarantineRisk(old, new)
<1>1. CASE QuarantineRisk(old, t)
  <2>1. quarantineSafeTarget(old, t) = old \div 3 + 1
    BY <1>1 DEF quarantineSafeTarget
  <2>2. old \div 3 \in Nat /\ 3 * (old \div 3 + 1) > old /\ old \div 3 >= t
    BY <1>1 DEF QuarantineRisk
  <2> QED
    BY <2>1, <2>2 DEF QuarantineRisk
<1>2. CASE ~QuarantineRisk(old, t)
  BY <1>2 DEF quarantineSafeTarget
<1> QED
  BY <1>1, <1>2

\* What the request paths do with a target that passed the floor.
LEMMA StepOfTarget ==
    ASSUME NEW old \in Nat, NEW kept \in Nat, NEW d \in Int,
           NEW b, b = IF quarantineSafeTarget(old, effectiveOf(kept, d)) = effectiveOf(kept, d)
                      THEN kept
                      ELSE basePriceForTarget(quarantineSafeTarget(old, effectiveOf(kept, d)), d)
    PROVE  /\ b \in Nat
           /\ effectiveOf(b, d) \in Nat
           /\ effectiveOf(b, d) >= effectiveOf(kept, d)
           /\ ~QuarantineRisk(old, effectiveOf(b, d))
<1>1. PICK g \in Nat : g = effectiveOf(kept, d)
  BY EffectiveIsPrice
<1>2. PICK s \in Nat : /\ s = quarantineSafeTarget(old, g)
                       /\ s >= g
                       /\ ~QuarantineRisk(old, s)
                       /\ s # g => \A new \in Nat : new >= s => ~QuarantineRisk(old, new)
  BY StepIsSafe
<1>3. CASE s = g
  BY <1>1, <1>2, <1>3
<1>4. CASE s # g
  <2>1. b = basePriceForTarget(s, d)
    BY <1>1, <1>2, <1>4
  <2>2. b \in Nat /\ effectiveOf(b, d) >= s
    BY <2>1, BaseReachesTarget
  <2>3. effectiveOf(b, d) \in Nat
    BY <2>2, EffectiveIsPrice
  <2> QED
    BY <1>1, <1>2, <1>4, <2>2, <2>3
<1> QED
  BY <1>3, <1>4

\* clampToMarginFloor: what it lets through reaches the floor or is a raise.
LEMMA ClampKeepsFloor ==
    ASSUME NEW cur \in Nat, NEW target \in Nat, NEW d \in Int, NEW floor \in Nat,
           NEW c, c = clampToMarginFloor(cur, d, target, d, floor)
    PROVE  /\ c \in Nat
           /\ \/ c = 0
              \/ effectiveOf(c, d) >= floor
              \/ effectiveOf(c, d) > effectiveOf(cur, d)
<1>1. effectiveOf(cur, d) \in Nat /\ effectiveOf(target, d) \in Nat
  BY EffectiveIsPrice
<1>2. CASE effectiveOf(target, d) >= floor
  BY <1>1, <1>2 DEF clampToMarginFloor
<1>3. CASE ~(effectiveOf(target, d) >= floor) /\ effectiveOf(cur, d) >= floor
  <2>1. effectiveOf(target, d) < floor
    BY <1>1, <1>3
  <2>2. c = basePriceForTarget(floor, d)
    BY <1>1, <1>3, <2>1 DEF clampToMarginFloor
  <2> QED
    BY <2>2, BaseReachesTarget
<1>4. CASE ~(effectiveOf(target, d) >= floor) /\ ~(effectiveOf(cur, d) >= floor)
  <2>1. effectiveOf(target, d) < floor /\ effectiveOf(cur, d) < floor
    BY <1>1, <1>4
  <2> QED
    BY <1>1, <1>4, <2>1 DEF clampToMarginFloor
<1> QED
  BY <1>2, <1>3, <1>4

\* Requested (ApplyManualBulk and buildScheduleIntents): whatever the price is
\* that a request is computed from, below the floor or not, what is sent to WB
\* is never a quarantine risk against it, and reaches the floor or raises it.
THEOREM RequestIsSafe ==
    ASSUME NEW cur \in Nat, NEW target \in Nat, NEW d \in Int, NEW floor \in Nat,
           NEW b, b = Requested(cur, d, target, floor), b # 0
    PROVE  /\ b \in Nat
           /\ effectiveOf(b, d) >= floor \/ effectiveOf(b, d) > effectiveOf(cur, d)
           /\ ~QuarantineRisk(effectiveOf(cur, d), effectiveOf(b, d))
<1> DEFINE kept == IF floor = Missing THEN target
                   ELSE clampToMarginFloor(cur, d, target, d, floor)
<1>1. ~(kept <= 0)
  BY DEF Requested
<1>2. PICK old \in Nat : old = effectiveOf(cur, d)
  BY EffectiveIsPrice
<1>3. /\ kept \in Nat /\ effectiveOf(kept, d) \in Nat
      /\ effectiveOf(kept, d) >= floor \/ effectiveOf(kept, d) > old
  <2>1. CASE floor = Missing
    <3>1. effectiveOf(target, d) \in Nat
      BY EffectiveIsPrice
    <3> QED
      BY <2>1, <3>1 DEF Missing
  <2>2. CASE floor # Missing
    <3>1. PICK c : c = clampToMarginFloor(cur, d, target, d, floor)
      OBVIOUS
    <3>2. kept = c
      BY <2>2, <3>1
    <3>3. /\ c \in Nat
          /\ \/ c = 0
             \/ effectiveOf(c, d) >= floor
             \/ effectiveOf(c, d) > effectiveOf(cur, d)
      BY <3>1, ClampKeepsFloor
    <3>4. c # 0
      BY <1>1, <3>2
    <3>5. effectiveOf(c, d) \in Nat
      BY <3>3, EffectiveIsPrice
    <3> HIDE DEF kept
    <3> QED
      BY <1>2, <3>2, <3>3, <3>4, <3>5
  <2> QED
    BY <2>1, <2>2
<1>4. b = IF quarantineSafeTarget(old, effectiveOf(kept, d)) = effectiveOf(kept, d)
          THEN kept
          ELSE basePriceForTarget(quarantineSafeTarget(old, effectiveOf(kept, d)), d)
  BY <1>1, <1>2 DEF Requested
<1> HIDE DEF kept
<1>5. /\ b \in Nat /\ effectiveOf(b, d) \in Nat
      /\ effectiveOf(b, d) >= effectiveOf(kept, d)
      /\ ~QuarantineRisk(old, effectiveOf(b, d))
  BY <1>2, <1>3, <1>4, StepOfTarget
<1> QED
  BY <1>2, <1>3, <1>5

-----------------------------------------------------------------------------
(* The decisions of the strategies.                                        *)

LEMMA PercentIsPrice ==
    ASSUME NEW x \in Nat, NEW p \in Nat
    PROVE  RoundPercent(x, p) \in Nat
<1>1. x * p \in Nat
  OBVIOUS
<1>2. \A n \in Nat : (n + 50) \div 100 \in Nat
  OBVIOUS
<1> QED
  BY <1>1, <1>2 DEF RoundPercent

\* A rise by some per cent is no fall.
LEMMA RiseIsNoFall ==
    ASSUME NEW x \in Nat, NEW s \in Nat
    PROVE  RoundPercent(x, 100 + s) \in Nat /\ RoundPercent(x, 100 + s) >= x
<1>1. x * s \in Nat /\ x * (100 + s) = 100 * x + x * s
  OBVIOUS
<1>2. \A n \in Nat : (100 * x + n + 50) \div 100 \in Nat /\ (100 * x + n + 50) \div 100 >= x
  OBVIOUS
<1> QED
  BY <1>1, <1>2 DEF RoundPercent

\* A target keeps the floor when it is no fall, or ends at the floor or above.
Keeps(t, cur, floor) == t \in Nat /\ (t >= cur \/ t >= floor)

LEMMA CappedMoveKeepsFloor ==
    ASSUME NEW cur \in Nat, NEW t \in Nat, NEW floor \in Nat, NEW step \in 0 .. 100
    PROVE  Keeps(CappedMove(cur, t, floor, step), cur, floor)
<1>1. /\ RoundPercent(cur, 100 + step) \in Nat /\ RoundPercent(cur, 100 + step) >= cur
      /\ RoundPercent(cur, 100 - step) \in Nat
  <2>1. step \in Nat /\ 100 - step \in Nat
    OBVIOUS
  <2> QED
    BY <2>1, RiseIsNoFall, PercentIsPrice
<1>2. CASE t > cur
  BY <1>1, <1>2 DEF CappedMove, AtMost, Keeps
<1>3. CASE t < cur
  BY <1>1, <1>3 DEF CappedMove, AtLeast, Keeps
<1>4. CASE t = cur
  BY <1>4 DEF CappedMove, Keeps
<1> QED
  BY <1>2, <1>3, <1>4

LEMMA DeadBandKeepsFloor ==
    ASSUME NEW cur \in Nat, NEW t \in Nat, NEW floor \in Nat, Keeps(t, cur, floor)
    PROVE  Keeps(DeadBand(cur, t), cur, floor)
  BY DEF DeadBand, Keeps

LEMMA MarginFloorKeeps ==
    ASSUME NEW cur \in Nat, NEW floor \in Nat
    PROVE  Keeps(DecideMarginFloor(cur, floor), cur, floor)
  BY DEF DecideMarginFloor, Keeps

LEMMA FallIsPrice ==
    ASSUME NEW cur \in Nat, NEW step \in 0 .. 100
    PROVE  RoundPercent(cur, 100 - step) \in Nat
<1>1. 100 - step \in Nat
  OBVIOUS
<1> QED
  BY <1>1, PercentIsPrice

LEMMA InventoryDemandKeeps ==
    ASSUME NEW cur \in Nat, NEW floor \in Nat, NEW step \in 0 .. 100, NEW max \in Nat,
           NEW over \in BOOLEAN, NEW low \in BOOLEAN
    PROVE  Keeps(DecideInventoryDemand(cur, floor, step, over, low, max), cur, floor)
<1> DEFINE down == AtLeast(RoundPercent(cur, 100 - step), floor)
           up   == AtMost(RoundPercent(cur, 100 + step), max)
<1>1. down \in Nat /\ down >= floor /\ up \in Nat
  <2>1. step \in Nat
    OBVIOUS
  <2>2. RoundPercent(cur, 100 + step) \in Nat /\ RoundPercent(cur, 100 - step) \in Nat
    BY <2>1, RiseIsNoFall, FallIsPrice
  <2> HIDE DEF down, up
  <2>3. down \in Nat /\ down >= floor
    BY <2>2 DEF down, AtLeast
  <2>4. up \in Nat
    BY <2>2 DEF up, AtMost
  <2> QED
    BY <2>3, <2>4
<1>2. DecideInventoryDemand(cur, floor, step, over, low, max)
        = CASE over /\ down < cur -> down
            [] ~over /\ low /\ max # Missing /\ up > cur -> up
            [] OTHER -> cur
  BY DEF DecideInventoryDemand
<1> HIDE DEF down, up
<1>3. CASE over /\ down < cur
  BY <1>1, <1>2, <1>3 DEF Keeps
<1>4. CASE ~over /\ low /\ max # Missing /\ up > cur
  BY <1>1, <1>2, <1>4 DEF Keeps
<1>5. CASE ~(over /\ down < cur) /\ ~(~over /\ low /\ max # Missing /\ up > cur)
  BY <1>2, <1>5 DEF Keeps
<1> QED
  BY <1>3, <1>4, <1>5

LEMMA AdLinkedKeeps ==
    ASSUME NEW cur \in Nat, NEW floor \in Nat, NEW step \in 0 .. 100, NEW drr \in BOOLEAN
    PROVE  Keeps(DecideAdLinked(cur, floor, step, drr), cur, floor)
<1>1. PICK down \in Nat : down = RoundPercent(cur, 100 - step)
  BY FallIsPrice
<1>2. DecideAdLinked(cur, floor, step, drr) \in {cur, AtLeast(down, floor)}
  BY <1>1 DEF DecideAdLinked
<1> QED
  BY <1>2 DEF AtLeast, Keeps

LEMMA PeakHoursKeeps ==
    ASSUME NEW cur \in Nat, NEW floor \in Nat, NEW step \in 0 .. 100, NEW max \in Nat,
           NEW uplift \in Nat, NEW dead \in 0 .. 100, NEW intensity \in 0 .. 100
    PROVE  Keeps(DecidePeakHours(cur, floor, step, uplift, dead, intensity, max), cur, floor)
<1> DEFINE raw    == (cur * (10000 + uplift * intensity - dead * (100 - intensity)) + 5000) \div 10000
           band   == AtLeast(AtMost(raw, RoundPercent(cur, 100 + uplift)), floor)
           target == IF band > cur THEN AtMost(band, max) ELSE band
<1>1. raw \in Int
  <2>1. uplift * intensity \in Int /\ dead * (100 - intensity) \in Int
    OBVIOUS
  <2>2. 10000 + uplift * intensity - dead * (100 - intensity) \in Int
    BY <2>1
  <2>3. cur * (10000 + uplift * intensity - dead * (100 - intensity)) \in Int
    BY <2>2
  <2> QED
    BY <2>3
<1> HIDE DEF raw
<1>2. band \in Nat
  BY RiseIsNoFall, <1>1 DEF AtLeast, AtMost
<1> HIDE DEF band
<1>3. target \in Nat
  BY <1>2 DEF AtMost
<1>4. \/ DecidePeakHours(cur, floor, step, uplift, dead, intensity, max) = cur
      \/ DecidePeakHours(cur, floor, step, uplift, dead, intensity, max) =
            DeadBand(cur, CappedMove(cur, target, floor, step))
  BY DEF DecidePeakHours, band, raw
<1> HIDE DEF target
<1>5. Keeps(CappedMove(cur, target, floor, step), cur, floor)
  BY <1>3, CappedMoveKeepsFloor
<1>6. Keeps(DeadBand(cur, CappedMove(cur, target, floor, step)), cur, floor)
  BY <1>5, DeadBandKeepsFloor DEF Keeps
<1> QED
  BY <1>4, <1>6 DEF Keeps

LEMMA CompetitorFollowKeeps ==
    ASSUME NEW cur \in Nat, NEW floor \in Nat, NEW step \in 0 .. 100,
           NEW competitor \in Nat, NEW undercut \in 0 .. 100
    PROVE  Keeps(DecideCompetitorFollow(cur, floor, step, competitor, undercut), cur, floor)
<1> DEFINE target == AtLeast(RoundPercent(competitor, 100 - undercut), floor)
<1>1. target \in Nat
  BY FallIsPrice DEF AtLeast
<1>2. \/ DecideCompetitorFollow(cur, floor, step, competitor, undercut) = cur
      \/ DecideCompetitorFollow(cur, floor, step, competitor, undercut) =
            DeadBand(cur, CappedMove(cur, target, floor, step))
  BY DEF DecideCompetitorFollow
<1> HIDE DEF target
<1>3. Keeps(CappedMove(cur, target, floor, step), cur, floor)
  BY <1>1, CappedMoveKeepsFloor
<1>4. Keeps(DeadBand(cur, CappedMove(cur, target, floor, step)), cur, floor)
  BY <1>3, DeadBandKeepsFloor DEF Keeps
<1> QED
  BY <1>2, <1>4 DEF Keeps

\* None of the five decisions lowers a price below the floor it was given, for
\* any price, step, uplift, intensity, competitor and ceiling.
THEOREM DecisionsKeepFloor ==
    ASSUME NEW cur \in Nat, NEW floor \in Nat, NEW step \in 0 .. 100, NEW max \in Nat,
           NEW uplift \in Nat, NEW dead \in 0 .. 100, NEW intensity \in 0 .. 100,
           NEW competitor \in Nat, NEW undercut \in 0 .. 100,
           NEW over \in BOOLEAN, NEW low \in BOOLEAN, NEW drr \in BOOLEAN
    PROVE  /\ Keeps(DecideMarginFloor(cur, floor), cur, floor)
           /\ Keeps(DecideInventoryDemand(cur, floor, step, over, low, max), cur, floor)
           /\ Keeps(DecideAdLinked(cur, floor, step, drr), cur, floor)
           /\ Keeps(DecidePeakHours(cur, floor, step, uplift, dead, intensity, max), cur, floor)
           /\ Keeps(DecideCompetitorFollow(cur, floor, step, competitor, undercut), cur, floor)
  BY MarginFloorKeeps, InventoryDemandKeeps, AdLinkedKeeps, PeakHoursKeeps, CompetitorFollowKeeps

----------------------------------------------------------------------------
(* The queue.                                                              *)

\* Base prices, in rubles.
Prices == Nat

ChangeStatus == InFlight \cup {"applied", "failed", "rolled_back"}
EntryStatus  == Ended \cup {"none", "planned", "executing"}
TaskStatus   == {"none", "uploaded", "applied", "partial", "failed"}

Jobs   == {"none", "manual", "rollback", "cancel", "reprice", "schedule", "poll"}
Labels == {"idle", "enqueue", "cancel", "store", "due", "execute", "through", "drain",
           "upload", "unknown", "link", "poll"}

SafeChange == [prod : Products, old : Prices, new : Prices, entry : Entries \cup {None}, undo : Nat,
               floor : Nat, status : ChangeStatus, batch : Nat, task : Nat]

SafeIntent == [prod : Products, old : Prices, new : Prices, entry : Entries \cup {None}, undo : Nat,
               floor : Nat]

SafeItems == UNION {[S -> Prices] : S \in SUBSET Products}

SafeTask == [items : SafeItems, open : BOOLEAN, bad : SUBSET Products]

Local == [job : Jobs, read : [Products -> Prices] \cup {<<>>}, todo : SUBSET SafeIntent,
          accepted : BOOLEAN, entry : Entries \cup {None}, batch : SUBSET Nat, retry : BOOLEAN,
          task : Nat, polls : SUBSET Nat, deferred : SUBSET Entries]

RowsInv ==
    /\ changes \in Seq(SafeChange) /\ Len(changes) <= MaxChanges
    /\ tasks \in Seq(TaskStatus)
    /\ entries \in [Entries -> [status : EntryStatus, tasks : SUBSET (1 .. Len(tasks))]]

SiteInv ==
    /\ wb \in Seq(SafeTask) /\ Len(wb) = Len(tasks)
    /\ wbPrice \in [Products -> Prices]

StoreInv ==
    /\ synced \in [Products -> [price : Prices, at : Nat]]
    /\ syncs \in 0 .. MaxSyncs

FlagsInv ==
    /\ cooling \in BOOLEAN /\ paused \in BOOLEAN
    /\ mishaps \in 0 .. MaxMishaps

\* The locals of a process at the control state l fit the n changes and k tasks.
Fits(l, me, n, k) ==
    /\ me.batch \subseteq 1 .. n
    /\ me.polls \subseteq 1 .. k
    /\ me.task \in 0 .. k
    /\ l = "link" => me.task # 0
    /\ l = "store" => me.read \in [Products -> Prices]
    /\ l = "execute" => me.entry \in Entries

LocInv ==
    /\ pc \in [Procs -> Labels]
    /\ loc \in [Procs -> Local]
    /\ \A pr \in Procs : Fits(pc[pr], loc[pr], Len(changes), Len(tasks))

IInv == RowsInv /\ SiteInv /\ StoreInv /\ FlagsInv /\ LocInv

-----------------------------------------------------------------------------
(* Sets of numbers, and sequences.                                         *)

LEMMA Least ==
    ASSUME NEW S, S \subseteq Nat, S # {}
    PROVE  \E x \in S : \A y \in S : x <= y
<1> DEFINE R == OpToRel(<, Nat)
<1>1. IsWellFoundedOn(R, Nat)
  BY NatLessThanWellFounded
<1>2. \A x, y \in Nat : y < x => <<y, x>> \in R
  BY DEF OpToRel
<1> HIDE DEF R
<1>3. PICK x \in S : \A y \in S : ~(<<y, x>> \in R)
  BY <1>1, WFMin
<1>4. \A y \in S : ~(y < x)
  BY <1>2, <1>3
<1> QED
  BY <1>3, <1>4

LEMMA MaxIn ==
    ASSUME NEW n \in Nat, NEW S, S \subseteq 0 .. n, S # {}
    PROVE  Max(S) \in S
<1> DEFINE T == {n - x : x \in S}
<1>1. T \subseteq Nat /\ T # {}
  <2>1. \A x \in S : n - x \in Nat
    OBVIOUS
  <2> QED
    BY <2>1
<1>2. PICK m \in T : \A y \in T : m <= y
  BY <1>1, Least
<1>3. PICK x \in S : m = n - x
  BY <1>2
<1>4. \A y \in S : x >= y
  BY <1>2, <1>3
<1> QED
  BY <1>4 DEF Max

LEMMA MinIn ==
    ASSUME NEW S, S \subseteq Nat, S # {}
    PROVE  Min(S) \in S
  BY Least DEF Min

\* A sequence whose elements are replaced one by one is still a sequence.
LEMMA Replaced ==
    ASSUME NEW T, NEW s \in Seq(T), NEW f, f = [i \in DOMAIN s |-> f[i]],
           \A i \in DOMAIN s : f[i] \in T
    PROVE  f \in Seq(T) /\ Len(f) = Len(s)
<1>1. DOMAIN s = 1 .. Len(s) /\ Len(s) \in Nat
  OBVIOUS
<1>2. f \in [1 .. Len(s) -> T]
  BY <1>1
<1> QED
  BY <1>1, <1>2

-----------------------------------------------------------------------------
(* Prices.                                                                 *)

LEMMA FloorIsPrice ==
    ASSUME NEW p \in Products, NEW econ \in Economics[p]
    PROVE  FloorOf(econ) \in Nat /\ resolveFloor(econ, Strategy.min) \in Nat
<1>1. econ.cost \in Nat /\ econ.percent \in Nat /\ Strategy.min \in Nat
  BY PriceAssumption
<1>2. CASE HasMarginFloor(econ)
  <2>1. econ.cost * 100 \in Nat /\ 100 - econ.percent \in Nat \ {0}
    BY <1>1, <1>2 DEF HasMarginFloor
  <2>2. (econ.cost * 100 + (100 - econ.percent) - 1) \div (100 - econ.percent) \in Nat
    BY <2>1, CeilCovers
  <2>3. ComputeMinEffectivePrice(econ) \in Nat
    BY <2>2 DEF ComputeMinEffectivePrice, CeilPercent
  <2> QED
    BY <1>1, <1>2, <2>3 DEF FloorOf, resolveFloor
<1>3. CASE ~HasMarginFloor(econ)
  BY <1>1, <1>3 DEF FloorOf, resolveFloor, Missing
<1> QED
  BY <1>2, <1>3

LEMMA FloorsArePrices ==
    ASSUME NEW floors \in MarginFloors, NEW p \in Products
    PROVE  floors[p] \in Nat
<1>1. floors[p] \in Floors(p) \cup {Missing}
  BY DEF MarginFloors
<1> QED
  BY <1>1, FloorIsPrice DEF Floors, Missing

LEMMA DiscountIsInt == Discount \in Int
  BY PriceAssumption

LEMMA EffectiveOfPrice ==
    ASSUME NEW v \in Nat
    PROVE  Effective(v) \in Nat
  BY EffectiveIsPrice, DiscountIsInt DEF Effective

\* What a request for a product may save: it keeps the floor it was given.
LEMMA RequestKept ==
    ASSUME NEW cur \in Prices, NEW v \in Targets, NEW floor \in Nat,
           NEW b, b = Requested(cur, Discount, v, floor), b # 0
    PROVE  b \in Prices /\ (Effective(b) >= floor \/ Effective(b) > Effective(cur))
<1>1. cur \in Nat /\ v \in Nat
  BY PriceAssumption DEF Prices
<1> QED
  BY <1>1, RequestIsSafe, DiscountIsInt DEF Prices, Effective

LEMMA SavedRows ==
    ASSUME RowsInv
    PROVE  /\ Len(changes) \in Nat /\ Len(tasks) \in Nat
           /\ Ids = 1 .. Len(changes)
           /\ \A i \in Ids : changes[i] \in SafeChange
  BY DEF RowsInv, Ids

LEMMA BaselineKept ==
    ASSUME RowsInv, StoreInv, NEW p \in Products
    PROVE  Baseline(p) \in Prices
<1>1. \A i \in Ids : changes[i].new \in Prices
  BY SavedRows DEF SafeChange
<1>2. synced[p].price \in Prices
  BY DEF StoreInv
<1>3. ASSUME Of(p, Intended) # {} PROVE Max(Of(p, Intended)) \in Ids
  <2>1. Len(changes) \in Nat /\ Of(p, Intended) \subseteq 0 .. Len(changes)
    BY DEF Of, Ids, RowsInv
  <2>2. Max(Of(p, Intended)) \in Of(p, Intended)
    BY <1>3, <2>1, MaxIn
  <2> QED
    BY <2>2 DEF Of
<1> QED
  BY <1>1, <1>2, <1>3 DEF Baseline

LEMMA RequestIntentsKept ==
    ASSUME RowsInv, StoreInv, NEW S \in SUBSET Products, NEW v \in Targets,
           NEW e \in Entries \cup {None}, NEW floors \in MarginFloors
    PROVE  /\ RequestIntents(S, v, e, floors) \subseteq SafeIntent
           /\ \A it \in RequestIntents(S, v, e, floors) : KeepsFloor(it) /\ it.old = Baseline(it.prod)
<1> SUFFICES ASSUME NEW p \in S, NEW b, b = Requested(Baseline(p), Discount, v, floors[p]), b # 0
             PROVE  LET it == Intent(p, Baseline(p), b, e, 0, floors[p])
                    IN  it \in SafeIntent /\ KeepsFloor(it) /\ it.old = Baseline(it.prod)
  BY DEF RequestIntents
<1>1. Baseline(p) \in Prices
  BY BaselineKept
<1>2. floors[p] \in Nat
  BY FloorsArePrices
<1>3. b \in Prices /\ (Effective(b) >= floors[p] \/ Effective(b) > Effective(Baseline(p)))
  BY <1>1, <1>2, RequestKept
<1>4. Intent(p, Baseline(p), b, e, 0, floors[p]) \in SafeIntent
  BY <1>1, <1>2, <1>3 DEF Intent, SafeIntent
<1> QED
  BY <1>3, <1>4 DEF Intent, KeepsFloor

LEMMA DecisionsKept ==
    ASSUME NEW cur \in Nat, NEW econ, NEW floor \in Nat, floor = resolveFloor(econ, Strategy.min),
           NEW t \in Decisions(cur, econ)
    PROVE  Keeps(t, cur, floor)
<1>2. PICK step \in 0 .. 100, max \in Nat, uplift \in Nat, dead \in 0 .. 100,
           intensity \in 0 .. 100, competitor \in Nat, undercut \in 0 .. 100 :
         /\ step = Strategy.step /\ max = Strategy.max /\ uplift = Strategy.uplift
         /\ dead = Strategy.dead /\ intensity = Strategy.intensity
         /\ competitor = Strategy.competitor /\ undercut = Strategy.undercut
  <2>1. /\ Strategy.step \in 0 .. 100 /\ Strategy.max \in Nat /\ Strategy.uplift \in Nat
        /\ Strategy.dead \in 0 .. 100 /\ Strategy.intensity \in 0 .. 100
        /\ Strategy.competitor \in Nat /\ Strategy.undercut \in 0 .. 100
    BY PriceAssumption
  <2> QED
    BY <2>1, Zenon
<1>3. ASSUME NEW over \in BOOLEAN, NEW low \in BOOLEAN
      PROVE  /\ Keeps(DecideMarginFloor(cur, floor), cur, floor)
             /\ Keeps(DecideInventoryDemand(cur, floor, step, over, low, max), cur, floor)
             /\ Keeps(DecideAdLinked(cur, floor, step, TRUE), cur, floor)
             /\ Keeps(DecidePeakHours(cur, floor, step, uplift, dead, intensity, max), cur, floor)
             /\ Keeps(DecideCompetitorFollow(cur, floor, step, competitor, undercut), cur, floor)
  BY MarginFloorKeeps, InventoryDemandKeeps, AdLinkedKeeps, PeakHoursKeeps, CompetitorFollowKeeps
<1> QED
  BY <1>2, <1>3, Zenon DEF Decisions

LEMMA StrategyIntentsKept ==
    ASSUME NEW price \in [Products -> Prices], NEW S \in SUBSET Products,
           NEW econ \in EconomicsRead, NEW blind, NEW todo \in StrategyIntents(price, S, econ, blind)
    PROVE  /\ todo \subseteq SafeIntent
           /\ \A it \in todo : KeepsFloor(it) /\ it.old = price[it.prod]
<1>1. PICK t \in [S -> UNION {Evaluated(p, price[p], econ[p], blind) : p \in S}] :
         /\ \A p \in S : t[p] \in Evaluated(p, price[p], econ[p], blind)
         /\ todo = {Intent(p, price[p], basePriceForTarget(t[p], Discount), None, 0,
                           resolveFloor(econ[p], Strategy.min)) : p \in S}
  BY DEF StrategyIntents
<1>2. ASSUME NEW p \in S, NEW it,
             it = Intent(p, price[p], basePriceForTarget(t[p], Discount), None, 0,
                         resolveFloor(econ[p], Strategy.min))
      PROVE  it \in SafeIntent /\ KeepsFloor(it) /\ it.old = price[it.prod]
  <2>1. price[p] \in Prices /\ Effective(price[p]) \in Nat
    BY EffectiveOfPrice DEF Prices
  <2>2. PICK cur \in Nat : cur = Effective(price[p])
    BY <2>1
  <2>3. econ[p] \in Economics[p]
    BY DEF EconomicsRead
  <2>4. PICK floor \in Nat : floor = resolveFloor(econ[p], Strategy.min)
    BY <2>3, FloorIsPrice
  <2>5. t[p] \in Decisions(cur, econ[p]) /\ t[p] # cur
    BY <1>1, <2>2 DEF Evaluated
  <2>6. t[p] \in Nat /\ (t[p] >= cur \/ t[p] >= floor)
    BY <2>4, <2>5, DecisionsKept DEF Keeps
  <2>7. PICK b : b = basePriceForTarget(t[p], Discount)
    OBVIOUS
  <2>8. b \in Nat /\ Effective(b) >= t[p] /\ Effective(b) \in Nat
    BY <2>6, <2>7, BaseReachesTarget, EffectiveOfPrice, DiscountIsInt DEF Effective
  <2>9. Effective(b) >= floor \/ Effective(b) > cur
    BY <2>5, <2>6, <2>8
  <2>10. it = [prod |-> p, old |-> price[p], new |-> b, entry |-> None, undo |-> 0, floor |-> floor]
    BY <1>2, <2>4, <2>7 DEF Intent
  <2>11. it \in SafeIntent
    BY <2>1, <2>8, <2>10 DEF SafeIntent, Prices
  <2> QED
    BY <2>2, <2>9, <2>10, <2>11 DEF KeepsFloor
<1> QED
  BY <1>1, <1>2

-----------------------------------------------------------------------------
(* Locals.                                                                 *)

LEMMA IdleIsLocal == Idle \in Local
<1> DEFINE Reads == [Products -> Prices] \cup {<<>>}
           Todos == SUBSET SafeIntent
<1>1. <<>> \in Reads /\ {} \in Todos
  OBVIOUS
<1>2. /\ FALSE \in BOOLEAN /\ {} \in SUBSET Nat /\ {} \in SUBSET Entries
      /\ None \in Entries \cup {None}
  OBVIOUS
<1>3. "none" \in Jobs /\ "schedule" \in Jobs
  BY DEF Jobs
<1>4. Local = [job : Jobs, read : Reads, todo : Todos, accepted : BOOLEAN,
               entry : Entries \cup {None}, batch : SUBSET Nat, retry : BOOLEAN,
               task : Nat, polls : SUBSET Nat, deferred : SUBSET Entries]
  BY DEF Local
<1> HIDE DEF Reads, Todos
<1> QED
  BY <1>1, <1>2, <1>3, <1>4, SMT DEF Idle

\* What the actions make of a process's locals.
LEMMA LocalUpdates ==
    ASSUME NEW me \in Local
    PROVE  /\ \A T \in SUBSET SafeIntent : [me EXCEPT !.todo = T] \in Local
           /\ \A T \in SUBSET SafeIntent : [me EXCEPT !.todo = T, !.accepted = TRUE] \in Local
           /\ [me EXCEPT !.accepted = FALSE] \in Local
           /\ \A e \in Entries : [me EXCEPT !.job = "schedule", !.entry = e] \in Local
           /\ [me EXCEPT !.batch = {}, !.task = 0, !.retry = FALSE] \in Local
           /\ \A S \in SUBSET Nat : [me EXCEPT !.batch = S, !.retry = TRUE] \in Local
           /\ \A S \in SUBSET Nat : [me EXCEPT !.batch = S, !.retry = FALSE] \in Local
           /\ \A t \in Nat : [me EXCEPT !.task = t] \in Local
<1> DEFINE Reads == [Products -> Prices] \cup {<<>>}
           Todos == SUBSET SafeIntent
<1>1. Local = [job : Jobs, read : Reads, todo : Todos, accepted : BOOLEAN,
               entry : Entries \cup {None}, batch : SUBSET Nat, retry : BOOLEAN,
               task : Nat, polls : SUBSET Nat, deferred : SUBSET Entries]
  BY DEF Local
<1>0. "schedule" \in Jobs
  BY DEF Jobs
<1> HIDE DEF Reads
<1>2. \A T \in Todos : [me EXCEPT !.todo = T] \in Local
  BY <1>1
<1>3. \A T \in Todos : [me EXCEPT !.todo = T, !.accepted = TRUE] \in Local
  BY <1>1
<1>4. [me EXCEPT !.accepted = FALSE] \in Local
  BY <1>1
<1>5. \A e \in Entries : [me EXCEPT !.job = "schedule", !.entry = e] \in Local
  BY <1>0, <1>1
<1>6. [me EXCEPT !.batch = {}, !.task = 0, !.retry = FALSE] \in Local
  BY <1>1
<1>7. \A S \in SUBSET Nat : [me EXCEPT !.batch = S, !.retry = TRUE] \in Local
  BY <1>1
<1>8. \A S \in SUBSET Nat : [me EXCEPT !.batch = S, !.retry = FALSE] \in Local
  BY <1>1
<1>9. \A t \in Nat : [me EXCEPT !.task = t] \in Local
  BY <1>1
<1> QED
  BY <1>2, <1>3, <1>4, <1>5, <1>6, <1>7, <1>8, <1>9

\* The locals of a request or a job that begins.
LEMMA IdleMoves ==
    ASSUME NEW n \in Nat, NEW k \in Nat
    PROVE  /\ Fits("idle", Idle, n, k)
           /\ \A j \in {"manual", "rollback", "reprice"}, T \in SUBSET SafeIntent :
                 LET me == [Idle EXCEPT !.job = j, !.todo = T]
                 IN  me \in Local /\ Fits("enqueue", me, n, k)
           /\ \A e \in Entries :
                 LET me == [Idle EXCEPT !.job = "cancel", !.entry = e]
                 IN  me \in Local /\ Fits("cancel", me, n, k)
           /\ \A r \in [Products -> Prices] :
                 LET me == [Idle EXCEPT !.job = "reprice", !.read = r]
                 IN  me \in Local /\ Fits("store", me, n, k)
           /\ \A D \in SUBSET Entries :
                 LET me == [Idle EXCEPT !.job = "schedule", !.deferred = D]
                 IN  me \in Local /\ Fits("due", me, n, k)
           /\ \A P \in SUBSET (1 .. k) :
                 LET me == [Idle EXCEPT !.job = "poll", !.polls = P]
                 IN  me \in Local /\ Fits("drain", me, n, k) /\ Fits("poll", me, n, k)
<1> DEFINE Reads == [Products -> Prices] \cup {<<>>}
           Todos == SUBSET SafeIntent
<1>1. Local = [job : Jobs, read : Reads, todo : Todos, accepted : BOOLEAN,
               entry : Entries \cup {None}, batch : SUBSET Nat, retry : BOOLEAN,
               task : Nat, polls : SUBSET Nat, deferred : SUBSET Entries]
  BY DEF Local
<1>2. \A j \in {"manual", "rollback", "reprice", "cancel", "schedule", "poll"} : j \in Jobs
  BY DEF Jobs
<1>3. Idle \in Local /\ Idle.batch = {} /\ Idle.polls = {} /\ Idle.task = 0
  BY IdleIsLocal DEF Idle
<1>4. \A r \in [Products -> Prices] : r \in Reads
  OBVIOUS
<1> HIDE DEF Reads, Todos
<1>5. PICK idle \in Local : idle = Idle /\ idle.batch = {} /\ idle.polls = {} /\ idle.task = 0
  BY <1>3
<1>6. Fits("idle", idle, n, k)
  BY <1>5 DEF Fits
<1>7. ASSUME NEW j \in {"manual", "rollback", "reprice"}, NEW T \in Todos
      PROVE  LET me == [idle EXCEPT !.job = j, !.todo = T]
             IN  me \in Local /\ Fits("enqueue", me, n, k)
  <2>1. PICK me : me = [idle EXCEPT !.job = j, !.todo = T]
    OBVIOUS
  <2>2. me \in Local
    BY <2>1, <1>1, <1>2, <1>5
  <2>3. me.batch = {} /\ me.task = 0 /\ me.polls = {}
    BY <2>1, <1>1, <1>5
  <2>4. Fits("enqueue", me, n, k)
    BY <2>3 DEF Fits
  <2> QED
    BY <2>1, <2>2, <2>4
<1>8. ASSUME NEW e \in Entries
      PROVE  LET me == [idle EXCEPT !.job = "cancel", !.entry = e]
             IN  me \in Local /\ Fits("cancel", me, n, k)
  <2>1. PICK me : me = [idle EXCEPT !.job = "cancel", !.entry = e]
    OBVIOUS
  <2>2. me \in Local
    BY <2>1, <1>1, <1>2, <1>5
  <2>3. me.batch = {} /\ me.task = 0 /\ me.polls = {}
    BY <2>1, <1>1, <1>5
  <2>4. Fits("cancel", me, n, k)
    BY <2>3 DEF Fits
  <2> QED
    BY <2>1, <2>2, <2>4
<1>9. ASSUME NEW r \in [Products -> Prices]
      PROVE  LET me == [idle EXCEPT !.job = "reprice", !.read = r]
             IN  me \in Local /\ Fits("store", me, n, k)
  <2>1. PICK me : me = [idle EXCEPT !.job = "reprice", !.read = r]
    OBVIOUS
  <2>2. me \in Local
    BY <2>1, <1>1, <1>2, <1>5, <1>4
  <2>3. me.batch = {} /\ me.task = 0 /\ me.polls = {} /\ me.read = r
    BY <2>1, <1>1, <1>5
  <2>4. Fits("store", me, n, k)
    BY <2>3 DEF Fits
  <2> QED
    BY <2>1, <2>2, <2>4
<1>10. ASSUME NEW D \in SUBSET Entries
       PROVE  LET me == [idle EXCEPT !.job = "schedule", !.deferred = D]
              IN  me \in Local /\ Fits("due", me, n, k)
  <2>1. PICK me : me = [idle EXCEPT !.job = "schedule", !.deferred = D]
    OBVIOUS
  <2>2. me \in Local
    BY <2>1, <1>1, <1>2, <1>5
  <2>3. me.batch = {} /\ me.task = 0 /\ me.polls = {}
    BY <2>1, <1>1, <1>5
  <2>4. Fits("due", me, n, k)
    BY <2>3 DEF Fits
  <2> QED
    BY <2>1, <2>2, <2>4
<1>11. ASSUME NEW P \in SUBSET (1 .. k)
       PROVE  LET me == [idle EXCEPT !.job = "poll", !.polls = P]
              IN  me \in Local /\ Fits("drain", me, n, k) /\ Fits("poll", me, n, k)
  <2>1. PICK me : me = [idle EXCEPT !.job = "poll", !.polls = P]
    OBVIOUS
  <2>0. P \in SUBSET Nat
    OBVIOUS
  <2>2. me \in Local
    BY <2>0, <2>1, <1>1, <1>2, <1>5
  <2>3. me.batch = {} /\ me.task = 0 /\ me.polls = P
    BY <2>1, <1>1, <1>5
  <2>4. Fits("drain", me, n, k) /\ Fits("poll", me, n, k)
    BY <2>3 DEF Fits
  <2> QED
    BY <2>1, <2>2, <2>4
<1> QED
  BY <1>5, <1>6, <1>7, <1>8, <1>9, <1>10, <1>11 DEF Todos

\* The locals of one that goes on.
LEMMA OngoingMoves ==
    ASSUME NEW n \in Nat, NEW k \in Nat, NEW l \in Labels, NEW me \in Local, Fits(l, me, n, k)
    PROVE  /\ \A T : Fits("enqueue", [me EXCEPT !.todo = T], n, k)
           /\ \A T : Fits("enqueue", [me EXCEPT !.todo = T, !.accepted = TRUE], n, k)
           /\ Fits("drain", [me EXCEPT !.accepted = FALSE], n, k)
           /\ \A e \in Entries : Fits("execute", [me EXCEPT !.job = "schedule", !.entry = e], n, k)
           /\ \A g \in {"drain", "through"} :
                 Fits(g, [me EXCEPT !.batch = {}, !.task = 0, !.retry = FALSE], n, k)
           /\ \A S \in SUBSET (1 .. n) : Fits("upload", [me EXCEPT !.batch = S, !.retry = TRUE], n, k)
           /\ \A S \in SUBSET (1 .. n) : Fits("upload", [me EXCEPT !.batch = S, !.retry = FALSE], n, k)
           /\ \A t \in 1 .. k : Fits("link", [me EXCEPT !.task = t], n, k)
           /\ Fits("unknown", me, n, k)
<1> DEFINE Reads == [Products -> Prices] \cup {<<>>}
           Todos == SUBSET SafeIntent
<1>1. me \in [job : Jobs, read : Reads, todo : Todos, accepted : BOOLEAN,
              entry : Entries \cup {None}, batch : SUBSET Nat, retry : BOOLEAN,
              task : Nat, polls : SUBSET Nat, deferred : SUBSET Entries]
  BY DEF Local
<1> HIDE DEF Reads, Todos
<1>2. me.batch \subseteq 1 .. n /\ me.polls \subseteq 1 .. k /\ me.task \in 0 .. k
  BY DEF Fits
<1>3. \A T : Fits("enqueue", [me EXCEPT !.todo = T], n, k)
  BY <1>1, <1>2 DEF Fits
<1>4. \A T : Fits("enqueue", [me EXCEPT !.todo = T, !.accepted = TRUE], n, k)
  BY <1>1, <1>2 DEF Fits
<1>5. Fits("drain", [me EXCEPT !.accepted = FALSE], n, k)
  BY <1>1, <1>2 DEF Fits
<1>6. \A e \in Entries : Fits("execute", [me EXCEPT !.job = "schedule", !.entry = e], n, k)
  BY <1>1, <1>2 DEF Fits
<1>7. \A g \in {"drain", "through"} :
         Fits(g, [me EXCEPT !.batch = {}, !.task = 0, !.retry = FALSE], n, k)
  BY <1>1, <1>2 DEF Fits
<1>8. \A S \in SUBSET (1 .. n) : /\ Fits("upload", [me EXCEPT !.batch = S, !.retry = TRUE], n, k)
                                 /\ Fits("upload", [me EXCEPT !.batch = S, !.retry = FALSE], n, k)
  BY <1>1, <1>2 DEF Fits
<1>9. \A t \in 1 .. k : Fits("link", [me EXCEPT !.task = t], n, k)
  BY <1>1, <1>2 DEF Fits
<1>10. Fits("unknown", me, n, k)
  BY <1>2 DEF Fits
<1> QED
  BY <1>3, <1>4, <1>5, <1>6, <1>7, <1>8, <1>9, <1>10

\* A process goes on with locals that fit; those of the others still do.
LEMMA GotoKeeps ==
    ASSUME LocInv, Len(changes) \in Nat, Len(tasks) \in Nat,
           NEW pr \in Procs, NEW l \in Labels, NEW new \in Local, Goto(pr, l, new),
           Len(changes)' \in Nat, Len(tasks)' \in Nat,
           Len(changes) <= Len(changes)', Len(tasks) <= Len(tasks)',
           Fits(l, new, Len(changes)', Len(tasks)')
    PROVE  LocInv'
<1>1. pc' \in [Procs -> Labels] /\ loc' \in [Procs -> Local]
  BY DEF LocInv, Goto
<1>2. pc'[pr] = l /\ loc'[pr] = new
  BY DEF LocInv, Goto
<1>3. ASSUME NEW q \in Procs, q # pr
      PROVE  pc'[q] = pc[q] /\ loc'[q] = loc[q]
  BY <1>3 DEF LocInv, Goto
<1>4. ASSUME NEW q \in Procs, q # pr
      PROVE  Fits(pc'[q], loc'[q], Len(changes)', Len(tasks)')
  <2>1. Fits(pc[q], loc[q], Len(changes), Len(tasks))
    BY DEF LocInv
  <2> QED
    BY <1>3, <1>4, <2>1 DEF Fits
<1> QED
  BY <1>1, <1>2, <1>4 DEF LocInv

\* The same, when the others cannot be disturbed.
LEMMA StayKeeps ==
    ASSUME LocInv, UNCHANGED <<pc, loc>>, Len(changes) \in Nat, Len(tasks) \in Nat,
           Len(changes)' \in Nat, Len(tasks)' \in Nat,
           Len(changes) <= Len(changes)', Len(tasks) <= Len(tasks)'
    PROVE  LocInv'
<1>1. ASSUME NEW q \in Procs
      PROVE  Fits(pc'[q], loc'[q], Len(changes)', Len(tasks)')
  <2>1. Fits(pc[q], loc[q], Len(changes), Len(tasks))
    BY DEF LocInv
  <2> QED
    BY <2>1 DEF Fits
<1> QED
  BY <1>1 DEF LocInv

-----------------------------------------------------------------------------
(* What statements make of rows.                                           *)

EntryRows(k) == [Entries -> [status : EntryStatus, tasks : SUBSET (1 .. k)]]

LEMMA RowUpdates ==
    ASSUME NEW c \in SafeChange, NEW st \in ChangeStatus
    PROVE  /\ [c EXCEPT !.status = st] \in SafeChange
           /\ \A b \in Nat : [c EXCEPT !.status = st, !.batch = b] \in SafeChange
           /\ \A t \in Nat : [c EXCEPT !.task = t, !.status = st] \in SafeChange
  BY DEF SafeChange

LEMMA EntryUpdates ==
    ASSUME NEW k \in Nat, NEW es \in EntryRows(k), NEW e \in Entries
    PROVE  /\ \A st \in EntryStatus : [es[e] EXCEPT !.status = st]
                                         \in [status : EntryStatus, tasks : SUBSET (1 .. k)]
           /\ \A t \in 1 .. k : [es[e] EXCEPT !.tasks = es[e].tasks \cup {t}]
                                         \in [status : EntryStatus, tasks : SUBSET (1 .. k)]
  BY DEF EntryRows

LEMMA Statuses ==
    /\ {"pending", "submitting", "submit_unknown", "uploaded", "applied", "failed", "rolled_back"}
         \subseteq ChangeStatus
    /\ {"none", "planned", "executing", "done", "failed", "canceled"} \subseteq EntryStatus
  BY DEF ChangeStatus, InFlight, Transport, EntryStatus, Ended

\* SetStatus keeps the rows.
LEMMA StatusSet ==
    ASSUME RowsInv, NEW S, NEW st \in ChangeStatus, SetStatus(S, st)
    PROVE  changes' \in Seq(SafeChange) /\ Len(changes') = Len(changes)
<1>1. \A i \in DOMAIN changes : changes[i] \in SafeChange
  BY DEF RowsInv
<1>2. PICK f : f = [i \in DOMAIN changes |-> IF i \in S THEN [changes[i] EXCEPT !.status = st]
                                             ELSE changes[i]]
  OBVIOUS
<1>3. \A i \in DOMAIN changes : f[i] \in SafeChange
  BY <1>1, <1>2, RowUpdates
<1>4. f = [i \in DOMAIN changes |-> f[i]]
  BY <1>2
<1>5. f \in Seq(SafeChange) /\ Len(f) = Len(changes)
  BY <1>3, <1>4, Replaced DEF RowsInv
<1>6. changes' = f
  BY <1>2 DEF SetStatus, Ids
<1> QED
  BY <1>5, <1>6

\* EnqueuePriceChange adds one row, whose prices are those of the intent.
LEMMA SavedKept ==
    ASSUME RowsInv, NEW it \in SafeIntent
    PROVE  Saved(it) \in Seq(SafeChange) /\ Len(Saved(it)) = Len(changes) + 1
<1>1. \A i \in DOMAIN changes : changes[i] \in SafeChange
  BY DEF RowsInv
<1>2. PICK f : f = [i \in DOMAIN changes |->
                      IF changes[i].prod = it.prod /\ changes[i].status = "pending"
                      THEN [changes[i] EXCEPT !.status = "failed"] ELSE changes[i]]
  OBVIOUS
<1>3. \A i \in DOMAIN changes : f[i] \in SafeChange
  BY <1>1, <1>2, RowUpdates, Statuses
<1>4. f = [i \in DOMAIN changes |-> f[i]]
  BY <1>2
<1>5. f \in Seq(SafeChange) /\ Len(f) = Len(changes)
  BY <1>3, <1>4, Replaced DEF RowsInv
<1>6. PICK c : c = [prod |-> it.prod, old |-> it.old, new |-> it.new, entry |-> it.entry,
                    undo |-> it.undo, floor |-> it.floor, status |-> "pending", batch |-> 0, task |-> 0]
  OBVIOUS
<1>7. c \in SafeChange
  BY <1>6, Statuses DEF SafeIntent, SafeChange
<1>8. Saved(it) = Append(f, c)
  BY <1>2, <1>6 DEF Saved, Ids
<1> QED
  BY <1>5, <1>7, <1>8

\* The results of a task, from any rows.
LEMMA ResolvedKept ==
    ASSUME NEW cs \in Seq(SafeChange), NEW t
    PROVE  Resolved(cs, t) \in Seq(SafeChange) /\ Len(Resolved(cs, t)) = Len(cs)
<1>1. \A i \in DOMAIN cs : cs[i] \in SafeChange
  OBVIOUS
<1>2. PICK f : f = Resolved(cs, t)
  OBVIOUS
<1>3. f = [i \in DOMAIN cs |-> f[i]]
  BY <1>2 DEF Resolved
<1>4. ASSUME NEW i \in DOMAIN cs
      PROVE  \/ f[i] = cs[i]
             \/ f[i] = [cs[i] EXCEPT !.status = "applied"]
             \/ f[i] = [cs[i] EXCEPT !.status = "failed"]
             \/ f[i] = [cs[i] EXCEPT !.status = "rolled_back"]
  BY <1>2 DEF Resolved
<1>5. ASSUME NEW i \in DOMAIN cs
      PROVE  f[i] \in SafeChange
  <2>1. \A st \in ChangeStatus : [cs[i] EXCEPT !.status = st] \in SafeChange
    BY <1>1, RowUpdates
  <2> QED
    BY <1>1, <1>4, <2>1, Statuses
<1> QED
  BY <1>2, <1>3, <1>5, Replaced

LEMMA AggregateKept ==
    ASSUME NEW k \in Nat, NEW es \in EntryRows(k), NEW cs, NEW ts, NEW S
    PROVE  Aggregate(cs, ts, es, S) \in EntryRows(k)
<1>1. \A e \in Entries : es[e] \in [status : EntryStatus, tasks : SUBSET (1 .. k)]
  BY DEF EntryRows
<1>2. \A e \in Entries : Aggregated(cs, ts, es, e) \in {es[e].status, "failed", "done"}
  BY DEF Aggregated
<1>3. \A e \in Entries : Aggregated(cs, ts, es, e) \in EntryStatus
  BY <1>1, <1>2, Statuses
<1>4. \A e \in Entries : [es[e] EXCEPT !.status = Aggregated(cs, ts, es, e)]
                            \in [status : EntryStatus, tasks : SUBSET (1 .. k)]
  BY <1>3, EntryUpdates
<1> QED
  BY <1>1, <1>4 DEF Aggregate, EntryRows

LEMMA EntriesUpdated ==
    ASSUME RowsInv, NEW S, NEW st \in EntryStatus, UpdateEntries(S, st), UNCHANGED <<changes, tasks>>
    PROVE  RowsInv'
<1>1. Len(tasks) \in Nat /\ entries \in EntryRows(Len(tasks))
  BY DEF RowsInv, EntryRows
<1>2. \A e \in Entries : [entries[e] EXCEPT !.status = st]
                            \in [status : EntryStatus, tasks : SUBSET (1 .. Len(tasks))]
  BY <1>1, EntryUpdates
<1>3. entries' \in EntryRows(Len(tasks))
  BY <1>1, <1>2 DEF UpdateEntries, EntryRows
<1> QED
  BY <1>3 DEF RowsInv, EntryRows

-----------------------------------------------------------------------------
(* The invariant, step by step.                                            *)

LEMMA InitHolds == Init => IInv
<1> SUFFICES ASSUME Init PROVE IInv
  OBVIOUS
<1>1. StartPrice \in Prices
  BY PriceAssumption DEF Prices
<1>2. RowsInv
  <2>1. changes = <<>> /\ tasks = <<>> /\ 0 <= MaxChanges
    BY BoundsAssumption DEF Init
  <2>2. entries \in [Entries -> [status : EntryStatus, tasks : SUBSET (1 .. Len(tasks))]]
    BY Statuses DEF Init
  <2> QED
    BY <2>1, <2>2 DEF RowsInv
<1>3. SiteInv
  BY <1>1 DEF Init, SiteInv
<1>4. StoreInv
  BY <1>1, BoundsAssumption DEF Init, StoreInv
<1>5. FlagsInv
  <2>1. cooling \in BOOLEAN /\ paused \in BOOLEAN
    BY Zenon DEF Init
  <2>2. mishaps \in 0 .. MaxMishaps
    BY BoundsAssumption DEF Init
  <2> QED
    BY <2>1, <2>2 DEF FlagsInv
<1>6. LocInv
  <2>1. Fits("idle", Idle, 0, 0) /\ Idle \in Local
    BY IdleMoves, IdleIsLocal
  <2>2. Len(changes) = 0 /\ Len(tasks) = 0 /\ "idle" \in Labels
    BY DEF Init, Labels
  <2> QED
    BY <2>1, <2>2 DEF Init, LocInv
<1> QED
  BY <1>2, <1>3, <1>4, <1>5, <1>6 DEF IInv

\* A step that leaves WB and the price list alone, and counts its mishaps.
LEMMA RestKept ==
    ASSUME IInv, UNCHANGED <<site, store>>, Len(tasks') = Len(tasks),
           cooling' \in BOOLEAN, paused' \in BOOLEAN, Mishap \/ UNCHANGED mishaps
    PROVE  SiteInv' /\ StoreInv' /\ FlagsInv'
<1>1. SiteInv'
  BY DEF IInv, SiteInv, site
<1>2. StoreInv'
  BY DEF IInv, StoreInv, store
<1>3. mishaps' \in 0 .. MaxMishaps
  BY BoundsAssumption DEF IInv, FlagsInv, Mishap
<1> QED
  BY <1>1, <1>2, <1>3 DEF FlagsInv

LEMMA FlagsAreBoolean ==
    ASSUME IInv, UNCHANGED flags
    PROVE  cooling' \in BOOLEAN /\ paused' \in BOOLEAN
  BY DEF IInv, FlagsInv, flags

LEMMA RowsStay ==
    ASSUME IInv, UNCHANGED rows
    PROVE  RowsInv' /\ Len(changes') = Len(changes) /\ Len(tasks') = Len(tasks)
  BY DEF IInv, RowsInv, rows

LEMMA Lengths ==
    ASSUME IInv
    PROVE  Len(changes) \in Nat /\ Len(tasks) \in Nat /\ Ids = 1 .. Len(changes)
           /\ DOMAIN tasks = 1 .. Len(tasks)
  BY DEF IInv, RowsInv, Ids

LEMMA LocalsFit ==
    ASSUME IInv, NEW pr \in Procs
    PROVE  pc[pr] \in Labels /\ loc[pr] \in Local
           /\ Fits(pc[pr], loc[pr], Len(changes), Len(tasks))
  BY DEF IInv, LocInv

\* A step of one process; the rows may have grown.
LEMMA MoveKept ==
    ASSUME IInv, RowsInv', NEW pr \in Procs, NEW l \in Labels, NEW new \in Local, Goto(pr, l, new),
           Len(changes) <= Len(changes'), Len(tasks) <= Len(tasks'),
           Fits(l, new, Len(changes'), Len(tasks'))
    PROVE  LocInv'
<1>1. Len(changes') \in Nat /\ Len(tasks') \in Nat
  BY DEF RowsInv
<1> QED
  BY <1>1, Lengths, GotoKeeps DEF IInv

LEMMA ReturnKept ==
    ASSUME IInv, RowsInv', NEW pr \in Procs, Return(pr),
           Len(changes) <= Len(changes'), Len(tasks) <= Len(tasks')
    PROVE  LocInv'
<1>1. Len(changes') \in Nat /\ Len(tasks') \in Nat /\ "idle" \in Labels
  BY DEF RowsInv, Labels
<1>2. Fits("idle", Idle, Len(changes'), Len(tasks'))
  BY <1>1, IdleMoves
<1> QED
  BY <1>1, <1>2, IdleIsLocal, MoveKept DEF Return

LEMMA DrainEndKept ==
    ASSUME IInv, RowsInv', NEW pr \in Procs, DrainEnd(pr),
           Len(changes) = Len(changes'), Len(tasks) = Len(tasks')
    PROVE  LocInv'
<1>1. Len(changes') \in Nat /\ Len(tasks') \in Nat /\ "through" \in Labels
  BY DEF RowsInv, Labels
<1>2. CASE loc[pr].job = "schedule"
  <2>1. PICK new : new = [loc[pr] EXCEPT !.batch = {}, !.task = 0, !.retry = FALSE]
    OBVIOUS
  <2>2. new \in Local
    BY <2>1, LocalsFit, LocalUpdates
  <2>3. Fits("through", new, Len(changes'), Len(tasks'))
    BY <2>1, <1>1, LocalsFit, OngoingMoves
  <2>4. Goto(pr, "through", new)
    BY <1>2, <2>1 DEF DrainEnd
  <2> QED
    BY <1>1, <2>2, <2>3, <2>4, MoveKept
<1>3. CASE loc[pr].job # "schedule"
  <2>1. Return(pr)
    BY <1>3 DEF DrainEnd
  <2> QED
    BY <1>1, <2>1, ReturnKept
<1> QED
  BY <1>2, <1>3

LEMMA NextEntryKept ==
    ASSUME IInv, RowsInv', NEW D \in SUBSET Entries, NextEntry(D),
           Len(changes) = Len(changes'), Len(tasks) = Len(tasks')
    PROVE  LocInv'
<1>1. /\ Len(changes') \in Nat /\ Len(tasks') \in Nat /\ "due" \in Labels
      /\ Worker \in Procs
  BY DEF RowsInv, Labels, Procs
<1>2. loc[Worker].deferred \cup D \in SUBSET Entries
  BY <1>1, LocalsFit DEF Local
<1>3. PICK E \in SUBSET Entries : E = loc[Worker].deferred \cup D
  BY <1>2
<1>4. PICK new : new = [Idle EXCEPT !.job = "schedule", !.deferred = E]
  OBVIOUS
<1>5. new \in Local /\ Fits("due", new, Len(changes'), Len(tasks'))
  BY <1>1, <1>4, IdleMoves
<1>6. Goto(Worker, "due", new)
  BY <1>3, <1>4 DEF NextEntry
<1> QED
  BY <1>1, <1>5, <1>6, MoveKept

-----------------------------------------------------------------------------
(* Requests and jobs that begin.                                           *)

\* They save nothing yet, but a statement of theirs may have failed.
LEMMA UnseenIsMishap ==
    ASSUME NEW blind, Unseen(blind)
    PROVE  Mishap \/ UNCHANGED mishaps
  BY DEF Unseen

LEMMA BeginKept ==
    ASSUME IInv, UNCHANGED <<rows, site, store, flags>>, Mishap \/ UNCHANGED mishaps, NEW pr \in Procs,
           NEW l \in Labels, NEW new \in Local, Goto(pr, l, new),
           Fits(l, new, Len(changes), Len(tasks))
    PROVE  IInv'
<1>1. RowsInv' /\ Len(changes') = Len(changes) /\ Len(tasks') = Len(tasks)
  BY RowsStay
<1>2. SiteInv' /\ StoreInv' /\ FlagsInv'
  BY <1>1, RestKept, FlagsAreBoolean
<1>3. LocInv'
  BY <1>1, Lengths, MoveKept
<1> QED
  BY <1>1, <1>2, <1>3 DEF IInv

LEMMA BulkKept ==
    ASSUME IInv, NEW a \in Apis, Bulk(a)
    PROVE  IInv'
<1>1. PICK S \in SUBSET Products, v \in Targets, floors \in MarginFloors :
         /\ Unseen(~AllRead(floors))
         /\ Goto(a, "enqueue", [Idle EXCEPT !.job = "manual", !.todo = RequestIntents(S, v, None, floors)])
  BY DEF Bulk
<1>2. Mishap \/ UNCHANGED mishaps
  BY <1>1, UnseenIsMishap
<1>3. PICK T \in SUBSET SafeIntent : T = RequestIntents(S, v, None, floors)
  BY RequestIntentsKept DEF IInv
<1>4. PICK new : new = [Idle EXCEPT !.job = "manual", !.todo = T]
  OBVIOUS
<1>5. new \in Local /\ Fits("enqueue", new, Len(changes), Len(tasks)) /\ "enqueue" \in Labels
  BY <1>4, Lengths, IdleMoves DEF Labels
<1>6. a \in Procs /\ Goto(a, "enqueue", new) /\ UNCHANGED <<rows, site, store, flags>>
  BY <1>1, <1>3, <1>4 DEF Bulk, Procs
<1> QED
  BY <1>2, <1>5, <1>6, BeginKept

\* What a rollback saves.
Undoing(i) == Intent(changes[i].prod, changes[i].new, changes[i].old, None, i, Missing)

LEMMA RollbackKept ==
    ASSUME IInv, NEW a \in Apis, Rollback(a)
    PROVE  IInv'
<1>1. PICK i \in Ids, blind \in BOOLEAN :
         /\ Unseen(blind)
         /\ Goto(a, "enqueue", [Idle EXCEPT !.job = "rollback", !.todo = {Undoing(i)}])
  BY DEF Rollback, Undoing
<1>2. changes[i] \in SafeChange /\ i \in Nat
  BY Lengths, SavedRows DEF IInv
<1>3. Undoing(i) \in SafeIntent
  BY <1>2 DEF SafeChange, SafeIntent, Intent, Undoing, Missing
<1>4. PICK T \in SUBSET SafeIntent : T = {Undoing(i)}
  BY <1>3
<1>5. PICK new : new = [Idle EXCEPT !.job = "rollback", !.todo = T]
  OBVIOUS
<1>6. new \in Local /\ Fits("enqueue", new, Len(changes), Len(tasks)) /\ "enqueue" \in Labels
  BY <1>5, Lengths, IdleMoves DEF Labels
<1>7. a \in Procs /\ Goto(a, "enqueue", new) /\ UNCHANGED <<rows, site, store, flags>>
  BY <1>1, <1>4, <1>5 DEF Rollback, Procs
<1>8. Mishap \/ UNCHANGED mishaps
  BY <1>1, UnseenIsMishap
<1> QED
  BY <1>6, <1>7, <1>8, BeginKept

LEMMA CancelReadKept ==
    ASSUME IInv, NEW a \in Apis, NEW e \in Entries, CancelRead(a, e)
    PROVE  IInv'
<1>1. PICK new : new = [Idle EXCEPT !.job = "cancel", !.entry = e]
  OBVIOUS
<1>2. new \in Local /\ Fits("cancel", new, Len(changes), Len(tasks)) /\ "cancel" \in Labels
  BY <1>1, Lengths, IdleMoves DEF Labels
<1>3. a \in Procs /\ Goto(a, "cancel", new) /\ UNCHANGED <<rows, site, store, flags, mishaps>>
  BY <1>1 DEF CancelRead, Procs
<1> QED
  BY <1>2, <1>3, BeginKept

LEMMA SyncReadKept ==
    ASSUME IInv, SyncRead
    PROVE  IInv'
<1>1. PICK r \in [Products -> Prices] : r = wbPrice
  BY DEF IInv, SiteInv
<1>2. PICK new : new = [Idle EXCEPT !.job = "reprice", !.read = r]
  OBVIOUS
<1>3. new \in Local /\ Fits("store", new, Len(changes), Len(tasks)) /\ "store" \in Labels
  BY <1>2, Lengths, IdleMoves DEF Labels
<1>4. Worker \in Procs /\ Goto(Worker, "store", new) /\ UNCHANGED <<rows, site, synced, flags, mishaps>>
  BY <1>1, <1>2 DEF SyncRead, Procs
<1>5. RowsInv' /\ Len(changes') = Len(changes) /\ Len(tasks') = Len(tasks)
  BY <1>4, RowsStay
<1>6. SiteInv'
  BY <1>4, <1>5 DEF IInv, SiteInv, site
<1>7. StoreInv'
  BY <1>4, BoundsAssumption DEF IInv, StoreInv, SyncRead
<1>8. FlagsInv'
  BY <1>4 DEF IInv, FlagsInv, flags
<1>9. LocInv'
  BY <1>3, <1>4, <1>5, Lengths, MoveKept
<1> QED
  BY <1>5, <1>6, <1>7, <1>8, <1>9 DEF IInv

\* The strategies start from the prices that were read.
LEMMA SyncStoreKept ==
    ASSUME IInv, SyncStore
    PROVE  IInv'
<1>1. Worker \in Procs /\ pc[Worker] = "store" /\ UNCHANGED <<rows, site, syncs, flags>>
  BY DEF SyncStore, Procs
<1>2. PICK read \in [Products -> Prices] : read = loc[Worker].read
  BY <1>1, LocalsFit DEF Fits
<1>3. RowsInv' /\ Len(changes') = Len(changes) /\ Len(tasks') = Len(tasks)
  BY <1>1, RowsStay
<1>4. StoreInv'
  <2>1. ASSUME NEW p \in Products
        PROVE  Max({0} \cup {i \in Ids : changes[i].prod = p}) \in Nat
    <3>1. PICK S : S = {0} \cup {i \in Ids : changes[i].prod = p}
      OBVIOUS
    <3>2. S \subseteq 0 .. Len(changes) /\ S # {} /\ Len(changes) \in Nat
      BY <3>1, Lengths
    <3>3. Max(S) \in S
      BY <3>2, MaxIn
    <3> QED
      BY <3>1, <3>2, <3>3
  <2>2. synced' = [p \in Products |-> [price |-> read[p],
                                       at |-> Max({0} \cup {i \in Ids : changes[i].prod = p})]]
    BY <1>2 DEF SyncStore
  <2>3. synced' \in [Products -> [price : Prices, at : Nat]]
    BY <2>1, <2>2
  <2> QED
    BY <1>1, <2>3 DEF IInv, StoreInv
<1>5. SiteInv'
  BY <1>1, <1>3 DEF IInv, SiteInv, site
<1>6. FlagsInv'
  <2>1. Mishap \/ UNCHANGED mishaps
    BY UnseenIsMishap DEF SyncStore
  <2>2. mishaps' \in 0 .. MaxMishaps
    BY <2>1, BoundsAssumption DEF IInv, FlagsInv, Mishap
  <2> QED
    BY <1>1, <2>2 DEF IInv, FlagsInv, flags
<1>7. LocInv'
  <2>1. CASE Return(Worker)
    BY <1>1, <1>3, <2>1, Lengths, ReturnKept
  <2>2. ASSUME NEW S \in SUBSET Products, NEW econ \in EconomicsRead, NEW blind \in BOOLEAN,
               NEW todo \in StrategyIntents(read, S, econ, blind),
               Goto(Worker, "enqueue", [Idle EXCEPT !.job = "reprice", !.todo = todo])
        PROVE  LocInv'
    <3>3. PICK T \in SUBSET SafeIntent : T = todo
      BY StrategyIntentsKept
    <3>4. PICK new : new = [Idle EXCEPT !.job = "reprice", !.todo = T]
      OBVIOUS
    <3>5. new \in Local /\ Fits("enqueue", new, Len(changes), Len(tasks)) /\ "enqueue" \in Labels
      BY <3>4, Lengths, IdleMoves DEF Labels
    <3>6. Goto(Worker, "enqueue", new)
      BY <2>2, <3>3, <3>4
    <3> QED
      BY <1>1, <1>3, <3>5, <3>6, Lengths, MoveKept
  <2>3. \/ Return(Worker)
        \/ \E S \in SUBSET Products, econ \in EconomicsRead, blind \in BOOLEAN :
              \E todo \in StrategyIntents(read, S, econ, blind) :
                 Goto(Worker, "enqueue", [Idle EXCEPT !.job = "reprice", !.todo = todo])
    BY <1>2 DEF SyncStore
  <2> QED
    BY <2>1, <2>2, <2>3
<1> QED
  BY <1>3, <1>4, <1>5, <1>6, <1>7 DEF IInv

-----------------------------------------------------------------------------
(* Schedule entries.                                                       *)

\* A step on entries, which may move one process, keeps the rest.
LEMMA EntryStep ==
    ASSUME IInv, RowsInv', LocInv', UNCHANGED <<changes, tasks, site, store, flags>>,
           Mishap \/ UNCHANGED mishaps
    PROVE  IInv'
<1>1. SiteInv' /\ StoreInv' /\ FlagsInv'
  BY RestKept, FlagsAreBoolean
<1> QED
  BY <1>1 DEF IInv

LEMMA AggregatedRows ==
    ASSUME IInv, NEW S, entries' = Aggregate(changes, tasks, entries, S), UNCHANGED <<changes, tasks>>
    PROVE  RowsInv'
<1>1. entries \in EntryRows(Len(tasks)) /\ Len(tasks) \in Nat
  BY DEF IInv, RowsInv, EntryRows
<1>2. entries' \in EntryRows(Len(tasks))
  BY <1>1, AggregateKept
<1> QED
  BY <1>2 DEF IInv, RowsInv, EntryRows

LEMMA CreateScheduleKept ==
    ASSUME IInv, NEW e \in Entries, CreateSchedule(e)
    PROVE  IInv'
<1>1. UNCHANGED <<changes, tasks, site, store, flags, pc, loc, mishaps>>
  BY DEF CreateSchedule
<1>2. entries \in EntryRows(Len(tasks)) /\ Len(tasks) \in Nat
  BY DEF IInv, RowsInv, EntryRows
<1>3. \A x \in Entries : [entries[x] EXCEPT !.status = "planned"]
                            \in [status : EntryStatus, tasks : SUBSET (1 .. Len(tasks))]
  BY <1>2, EntryUpdates, Statuses
<1>4. entries' \in EntryRows(Len(tasks))
  <2>1. entries' = [x \in Entries |-> IF x \in {e} \cup {r \in Entries : RevertOf[r] = e}
                                      THEN [entries[x] EXCEPT !.status = "planned"] ELSE entries[x]]
    BY DEF CreateSchedule
  <2> QED
    BY <1>2, <1>3, <2>1 DEF EntryRows
<1>5. RowsInv'
  BY <1>1, <1>4 DEF IInv, RowsInv, EntryRows
<1>6. LocInv'
  BY <1>1, Lengths, StayKeeps DEF IInv
<1> QED
  BY <1>1, <1>5, <1>6, EntryStep

LEMMA CancelWriteKept ==
    ASSUME IInv, NEW a \in Apis, CancelWrite(a)
    PROVE  IInv'
<1>1. /\ a \in Procs /\ UpdateEntries({loc[a].entry}, "canceled") /\ Return(a)
      /\ UNCHANGED <<changes, tasks, site, store, flags, mishaps>>
  BY DEF CancelWrite, Procs
<1>2. RowsInv'
  BY <1>1, Statuses, EntriesUpdated DEF IInv
<1>3. LocInv'
  BY <1>1, <1>2, Lengths, ReturnKept
<1> QED
  BY <1>1, <1>2, <1>3, EntryStep

LEMMA ClaimDueKept ==
    ASSUME IInv, NEW e \in Entries, ClaimDue(e)
    PROVE  IInv'
<1>1. /\ Worker \in Procs /\ "execute" \in Labels
      /\ entries' = [entries EXCEPT ![e].status = "executing"]
      /\ UNCHANGED <<changes, tasks, site, store, flags, mishaps>>
  BY DEF ClaimDue, Procs, Labels
<1>2. entries \in EntryRows(Len(tasks)) /\ Len(tasks) \in Nat
  BY DEF IInv, RowsInv, EntryRows
<1>3. entries' \in EntryRows(Len(tasks))
  <2>1. [entries[e] EXCEPT !.status = "executing"]
           \in [status : EntryStatus, tasks : SUBSET (1 .. Len(tasks))]
    BY <1>2, EntryUpdates, Statuses
  <2> QED
    BY <1>1, <1>2, <2>1 DEF EntryRows
<1>4. RowsInv'
  BY <1>1, <1>3 DEF IInv, RowsInv, EntryRows
<1>5. PICK new : new = [loc[Worker] EXCEPT !.job = "schedule", !.entry = e]
  OBVIOUS
<1>6. new \in Local /\ Fits("execute", new, Len(changes), Len(tasks)) /\ Goto(Worker, "execute", new)
  BY <1>1, <1>5, Lengths, LocalsFit, LocalUpdates, OngoingMoves DEF ClaimDue
<1>7. LocInv'
  BY <1>1, <1>4, <1>6, Lengths, MoveKept
<1> QED
  BY <1>1, <1>4, <1>7, EntryStep

LEMMA ScheduleEndKept ==
    ASSUME IInv, ScheduleEnd
    PROVE  IInv'
<1>1. /\ Worker \in Procs /\ UpdateEntries(loc[Worker].deferred, "planned") /\ Return(Worker)
      /\ UNCHANGED <<changes, tasks, site, store, flags, mishaps>>
  BY DEF ScheduleEnd, Procs
<1>2. RowsInv'
  BY <1>1, Statuses, EntriesUpdated DEF IInv
<1>3. LocInv'
  BY <1>1, <1>2, Lengths, ReturnKept
<1> QED
  BY <1>1, <1>2, <1>3, EntryStep

LEMMA FailEntryKept ==
    ASSUME IInv, NEW e, FailEntry(e), UNCHANGED <<changes, tasks>>
    PROVE  RowsInv' /\ LocInv'
<1>1. UpdateEntries({e}, "failed") /\ NextEntry({})
  BY DEF FailEntry
<1>2. RowsInv'
  BY <1>1, Statuses, EntriesUpdated DEF IInv
<1>3. LocInv'
  BY <1>1, <1>2, NextEntryKept
<1> QED
  BY <1>2, <1>3

LEMMA SaveEntryKept ==
    ASSUME IInv, NEW e, NEW T \in SUBSET SafeIntent, SaveEntry(e, T), UNCHANGED <<changes, tasks>>
    PROVE  RowsInv' /\ LocInv'
<1>1. CASE T = {}
  BY <1>1, FailEntryKept DEF SaveEntry
<1>2. CASE T # {}
  <2>1. PICK new : new = [loc[Worker] EXCEPT !.todo = T]
    OBVIOUS
  <2>2. Goto(Worker, "enqueue", new) /\ UNCHANGED rows /\ Worker \in Procs /\ "enqueue" \in Labels
    BY <1>2, <2>1 DEF SaveEntry, rows, Procs, Labels
  <2>3. RowsInv' /\ Len(changes') = Len(changes) /\ Len(tasks') = Len(tasks)
    BY <2>2, RowsStay
  <2>4. new \in Local
    BY <2>1, <2>2, LocalsFit, LocalUpdates
  <2>5. Fits("enqueue", new, Len(changes), Len(tasks))
    BY <2>1, <2>2, Lengths, LocalsFit, OngoingMoves
  <2> QED
    BY <2>2, <2>3, <2>4, <2>5, Lengths, MoveKept
<1> QED
  BY <1>1, <1>2

LEMMA RevertIntentsKept ==
    ASSUME IInv, NEW e \in Entries, NEW floors \in MarginFloors
    PROVE  RevertIntents(e, floors) \in SUBSET SafeIntent
<1> SUFFICES ASSUME NEW i \in Ids
             PROVE  Intent(changes[i].prod, changes[i].new, changes[i].old, e, 0, floors[changes[i].prod])
                       \in SafeIntent
  BY DEF RevertIntents
<1>1. changes[i] \in SafeChange
  BY SavedRows DEF IInv
<1>2. floors[changes[i].prod] \in Nat
  BY <1>1, FloorsArePrices DEF SafeChange
<1> QED
  BY <1>1, <1>2 DEF SafeChange, SafeIntent, Intent

\* What executeScheduleEntry may do.
ExecuteCase(e) ==
    \/ NextEntry({e}) /\ UNCHANGED <<entries, mishaps>>
    \/ FailEntry(e) /\ UNCHANGED mishaps
    \/ \E floors \in MarginFloors :
          /\ Mishap \/ UNCHANGED mishaps
          /\ \/ /\ RevertOf[e] = None
                /\ \E S \in SUBSET Products, v \in Targets : SaveEntry(e, RequestIntents(S, v, e, floors))
             \/ /\ RevertOf[e] # None /\ CanRevert(RevertOf[e], floors)
                /\ SaveEntry(e, RevertIntents(e, floors))
             \/ SaveEntry(e, {})

LEMMA ExecuteCases ==
    ASSUME NEW e, e = loc[Worker].entry, Execute
    PROVE  ExecuteCase(e)
<1>1. ASSUME NEW floors \in MarginFloors, NEW b, Unseen(b), ExecuteEntry(e, floors)
      PROVE  ExecuteCase(e)
  <2>1. Mishap \/ UNCHANGED mishaps
    BY <1>1, UnseenIsMishap
  <2>2. CASE RevertOf[e] = None
    <3>1. \E S \in SUBSET Products, v \in Targets : SaveEntry(e, RequestIntents(S, v, e, floors))
      BY <1>1, <2>2 DEF ExecuteEntry
    <3> QED
      BY <2>1, <2>2, <3>1 DEF ExecuteCase
  <2>3. CASE RevertOf[e] # None
    <3>1. SaveEntry(e, IF CanRevert(RevertOf[e], floors) THEN RevertIntents(e, floors) ELSE {})
      BY <1>1, <2>3 DEF ExecuteEntry
    <3> QED
      BY <2>1, <2>3, <3>1 DEF ExecuteCase
  <2> QED
    BY <2>2, <2>3
<1>2. \/ NextEntry({e}) /\ UNCHANGED <<entries, mishaps>>
      \/ FailEntry(e) /\ UNCHANGED mishaps
      \/ \E floors \in MarginFloors : Unseen(paused \/ ~AllRead(floors)) /\ ExecuteEntry(e, floors)
  BY DEF Execute
<1>3. CASE \E floors \in MarginFloors : Unseen(paused \/ ~AllRead(floors)) /\ ExecuteEntry(e, floors)
  <2>1. PICK floors \in MarginFloors : Unseen(paused \/ ~AllRead(floors)) /\ ExecuteEntry(e, floors)
    BY <1>3
  <2> QED
    BY <1>1, <2>1
<1> QED
  BY <1>2, <1>3 DEF ExecuteCase

\* A revert goes back to old prices, and a primary entry starts from the prices
\* as requests see them.
LEMMA ExecuteKept ==
    ASSUME IInv, Execute
    PROVE  IInv'
<1>1. /\ pc[Worker] = "execute" /\ Worker \in Procs
      /\ UNCHANGED <<changes, tasks, site, store, flags>>
  BY DEF Execute, Procs
<1>2. PICK e \in Entries : e = loc[Worker].entry
  BY <1>1, LocalsFit DEF Fits
<1>3. ExecuteCase(e)
  BY <1>2, ExecuteCases
<1>4. CASE NextEntry({e}) /\ UNCHANGED <<entries, mishaps>>
  <2>1. RowsInv'
    BY <1>1, <1>4, RowsStay DEF rows
  <2>2. LocInv'
    BY <1>1, <1>4, <2>1, NextEntryKept
  <2> QED
    BY <1>1, <1>4, <2>1, <2>2, EntryStep
<1>5. CASE FailEntry(e) /\ UNCHANGED mishaps
  BY <1>1, <1>5, FailEntryKept, EntryStep
<1>6. ASSUME NEW T \in SUBSET SafeIntent, SaveEntry(e, T), Mishap \/ UNCHANGED mishaps
      PROVE  IInv'
  BY <1>1, <1>6, SaveEntryKept, EntryStep
<1>7. ASSUME NEW floors \in MarginFloors, NEW S \in SUBSET Products, NEW v \in Targets,
             SaveEntry(e, RequestIntents(S, v, e, floors)), Mishap \/ UNCHANGED mishaps
      PROVE  IInv'
  <2>1. PICK T \in SUBSET SafeIntent : T = RequestIntents(S, v, e, floors)
    BY RequestIntentsKept DEF IInv
  <2> QED
    BY <1>6, <1>7, <2>1
<1>8. ASSUME NEW floors \in MarginFloors, SaveEntry(e, RevertIntents(e, floors)),
             Mishap \/ UNCHANGED mishaps
      PROVE  IInv'
  BY <1>6, <1>8, RevertIntentsKept
<1>9. {} \in SUBSET SafeIntent
  OBVIOUS
<1> QED
  BY <1>3, <1>4, <1>5, <1>6, <1>7, <1>8, <1>9 DEF ExecuteCase

LEMMA EntryEndKept ==
    ASSUME IInv, EntryEnd
    PROVE  IInv'
<1>1. /\ entries' = Aggregate(changes, tasks, entries, Entries) /\ NextEntry({})
      /\ UNCHANGED <<changes, tasks, site, store, flags, mishaps>>
  BY DEF EntryEnd
<1>2. RowsInv'
  BY <1>1, AggregatedRows
<1>3. LocInv'
  BY <1>1, <1>2, NextEntryKept
<1> QED
  BY <1>1, <1>2, <1>3, EntryStep

-----------------------------------------------------------------------------
(* enqueueAndApplyIntents.                                                 *)

\* A step of the rows and one process: WB and the price list stay.
LEMMA RowStep ==
    ASSUME IInv, RowsInv', LocInv', UNCHANGED <<site, store, flags>>, Len(tasks') = Len(tasks),
           Mishap \/ UNCHANGED mishaps
    PROVE  IInv'
<1>1. SiteInv' /\ StoreInv' /\ FlagsInv'
  BY RestKept, FlagsAreBoolean
<1> QED
  BY <1>1 DEF IInv

LEMMA EnqueueKept ==
    ASSUME IInv, NEW pr \in Procs, Enqueue(pr)
    PROVE  IInv'
<1>1. UNCHANGED <<entries, tasks, site, store, flags>> /\ "enqueue" \in Labels
  BY DEF Enqueue, Labels
<1>2. PICK it \in loc[pr].todo :
         \/ /\ Goto(pr, "enqueue", [loc[pr] EXCEPT !.todo = loc[pr].todo \ {it}])
            /\ UNCHANGED changes /\ (Mishap \/ UNCHANGED mishaps)
         \/ /\ Len(changes) < MaxChanges
            /\ changes' = Saved(it)
            /\ Goto(pr, "enqueue", [loc[pr] EXCEPT !.todo = loc[pr].todo \ {it}, !.accepted = TRUE])
            /\ UNCHANGED mishaps
  BY DEF Enqueue
<1>3. loc[pr] \in Local /\ Fits(pc[pr], loc[pr], Len(changes), Len(tasks)) /\ pc[pr] \in Labels
  BY LocalsFit
<1>4. loc[pr].todo \in SUBSET SafeIntent
  BY <1>3 DEF Local
<1>5. it \in SafeIntent
  BY <1>4
<1>6. PICK T \in SUBSET SafeIntent : T = loc[pr].todo \ {it}
  BY <1>4
<1>7. CASE /\ Goto(pr, "enqueue", [loc[pr] EXCEPT !.todo = loc[pr].todo \ {it}])
           /\ UNCHANGED changes /\ (Mishap \/ UNCHANGED mishaps)
  <2>1. RowsInv' /\ Len(changes') = Len(changes) /\ Len(tasks') = Len(tasks)
    BY <1>1, <1>7, RowsStay DEF rows
  <2>2. PICK new : new = [loc[pr] EXCEPT !.todo = T]
    OBVIOUS
  <2>3. new \in Local /\ Fits("enqueue", new, Len(changes), Len(tasks)) /\ Goto(pr, "enqueue", new)
    BY <1>3, <1>6, <1>7, <2>2, Lengths, LocalUpdates, OngoingMoves
  <2>4. LocInv'
    BY <1>1, <2>1, <2>3, Lengths, MoveKept
  <2> QED
    BY <1>1, <1>7, <2>1, <2>4, RowStep
<1>8. CASE /\ Len(changes) < MaxChanges
           /\ changes' = Saved(it)
           /\ Goto(pr, "enqueue", [loc[pr] EXCEPT !.todo = loc[pr].todo \ {it}, !.accepted = TRUE])
           /\ UNCHANGED mishaps
  <2>1. changes' \in Seq(SafeChange) /\ Len(changes') = Len(changes) + 1
    BY <1>5, <1>8, SavedKept DEF IInv
  <2>2. Len(changes) \in Nat /\ Len(changes') <= MaxChanges /\ Len(tasks) \in Nat
    BY <1>8, <2>1, Lengths, BoundsAssumption
  <2>3. RowsInv'
    BY <1>1, <2>1, <2>2 DEF IInv, RowsInv
  <2>4. PICK new : new = [loc[pr] EXCEPT !.todo = T, !.accepted = TRUE]
    OBVIOUS
  <2>5. new \in Local /\ Fits("enqueue", new, Len(changes), Len(tasks)) /\ Goto(pr, "enqueue", new)
    BY <1>3, <1>6, <1>8, <2>4, Lengths, LocalUpdates, OngoingMoves
  <2>6. Fits("enqueue", new, Len(changes'), Len(tasks'))
    BY <1>1, <2>1, <2>2, <2>5 DEF Fits
  <2>7. LocInv'
    BY <1>1, <2>1, <2>2, <2>3, <2>5, <2>6, MoveKept
  <2> QED
    BY <1>1, <1>8, <2>3, <2>7, RowStep
<1> QED
  BY <1>2, <1>7, <1>8

LEMMA EnqueueEndKept ==
    ASSUME IInv, NEW pr \in Procs, EnqueueEnd(pr)
    PROVE  IInv'
<1>1. UNCHANGED <<changes, tasks, site, store, flags, mishaps>> /\ "drain" \in Labels
  BY DEF EnqueueEnd, Labels
<1>2. \/ /\ entries' = Aggregate(changes, tasks, entries, Entries)
         /\ Goto(pr, "drain", [loc[pr] EXCEPT !.accepted = FALSE])
      \/ FailEntry(loc[pr].entry)
      \/ Return(pr) /\ UNCHANGED entries
  BY DEF EnqueueEnd
<1>3. CASE /\ entries' = Aggregate(changes, tasks, entries, Entries)
           /\ Goto(pr, "drain", [loc[pr] EXCEPT !.accepted = FALSE])
  <2>1. RowsInv'
    BY <1>1, <1>3, AggregatedRows
  <2>2. PICK new : new = [loc[pr] EXCEPT !.accepted = FALSE]
    OBVIOUS
  <2>3. new \in Local /\ Fits("drain", new, Len(changes), Len(tasks)) /\ Goto(pr, "drain", new)
    BY <1>3, <2>2, Lengths, LocalsFit, LocalUpdates, OngoingMoves
  <2>4. LocInv'
    BY <1>1, <2>1, <2>3, Lengths, MoveKept
  <2> QED
    BY <1>1, <2>1, <2>4, EntryStep
<1>4. CASE FailEntry(loc[pr].entry)
  BY <1>1, <1>4, FailEntryKept, EntryStep
<1>5. CASE Return(pr) /\ UNCHANGED entries
  <2>1. RowsInv'
    BY <1>1, <1>5, RowsStay DEF rows
  <2>2. LocInv'
    BY <1>1, <1>5, <2>1, Lengths, ReturnKept
  <2> QED
    BY <1>1, <2>1, <2>2, EntryStep
<1> QED
  BY <1>2, <1>3, <1>4, <1>5

-----------------------------------------------------------------------------
(* drainPendingPriceChanges and the upload.                                *)

\* The statuses of some changes are set and nothing else is stored.
LEMMA SetStatusRows ==
    ASSUME IInv, NEW S, NEW st \in ChangeStatus, SetStatus(S, st), UNCHANGED <<entries, tasks>>
    PROVE  RowsInv' /\ Len(changes') = Len(changes) /\ Len(tasks') = Len(tasks)
<1>1. changes' \in Seq(SafeChange) /\ Len(changes') = Len(changes)
  BY StatusSet DEF IInv
<1> QED
  BY <1>1 DEF IInv, RowsInv

LEMMA UploadNext ==
    ASSUME IInv, RowsInv', Len(changes') = Len(changes), Len(tasks') = Len(tasks), NEW pr \in Procs,
           NEW S \in SUBSET Ids, NEW retry \in BOOLEAN,
           Goto(pr, "upload", [loc[pr] EXCEPT !.batch = S, !.retry = retry])
    PROVE  LocInv'
<1>1. S \in SUBSET (1 .. Len(changes)) /\ S \in SUBSET Nat /\ "upload" \in Labels
  BY Lengths DEF Labels
<1>2. PICK new : new = [loc[pr] EXCEPT !.batch = S, !.retry = retry]
  OBVIOUS
<1>3. new \in Local /\ Fits("upload", new, Len(changes), Len(tasks))
  <2>1. CASE retry = TRUE
    BY <1>1, <1>2, <2>1, Lengths, LocalsFit, LocalUpdates, OngoingMoves
  <2>2. CASE retry = FALSE
    BY <1>1, <1>2, <2>2, Lengths, LocalsFit, LocalUpdates, OngoingMoves
  <2> QED
    BY <2>1, <2>2
<1> QED
  BY <1>1, <1>2, <1>3, Lengths, MoveKept

LEMMA ClaimUnknownKept ==
    ASSUME IInv, NEW pr \in Procs, ClaimUnknown(pr)
    PROVE  IInv'
<1>1. PICK b \in {changes[i].batch : i \in Unknown} :
         LET S == {i \in Unknown : changes[i].batch = b}
         IN  /\ SetStatus(S, "submitting")
             /\ Goto(pr, "upload", [loc[pr] EXCEPT !.batch = S, !.retry = TRUE])
  BY DEF ClaimUnknown
<1>2. PICK S \in SUBSET Ids : S = {i \in Unknown : changes[i].batch = b}
  BY DEF Unknown
<1>3. SetStatus(S, "submitting") /\ Goto(pr, "upload", [loc[pr] EXCEPT !.batch = S, !.retry = TRUE])
  BY <1>1, <1>2
<1>4. UNCHANGED <<entries, tasks, site, store, flags, mishaps>>
  BY DEF ClaimUnknown
<1>5. RowsInv' /\ Len(changes') = Len(changes) /\ Len(tasks') = Len(tasks)
  BY <1>3, <1>4, Statuses, SetStatusRows
<1>6. LocInv'
  BY <1>3, <1>5, UploadNext
<1> QED
  BY <1>4, <1>5, <1>6, RowStep

LEMMA ClaimPendingKept ==
    ASSUME IInv, NEW pr \in Procs, ClaimPending(pr)
    PROVE  IInv'
<1>1. PICK S \in SUBSET Ids : S = Claimable
  BY DEF Claimable
<1>2. S # {} /\ Goto(pr, "upload", [loc[pr] EXCEPT !.batch = S, !.retry = FALSE])
  BY <1>1 DEF ClaimPending
<1>3. UNCHANGED <<entries, tasks, site, store, flags, mishaps>>
  BY DEF ClaimPending
<1>4. PICK b \in Nat : b = Min(S)
  <2>1. S \subseteq Nat
    BY Lengths
  <2>2. Min(S) \in S
    BY <1>2, <2>1, MinIn
  <2> QED
    BY <2>1, <2>2
<1>5. changes' = [i \in DOMAIN changes |->
                    IF i \in S THEN [changes[i] EXCEPT !.status = "submitting", !.batch = b]
                    ELSE changes[i]]
  BY <1>1, <1>4 DEF ClaimPending, Ids
<1>6. changes' \in Seq(SafeChange) /\ Len(changes') = Len(changes)
  <2>1. \A i \in DOMAIN changes : changes[i] \in SafeChange
    BY DEF IInv, RowsInv
  <2>2. PICK f : f = changes'
    OBVIOUS
  <2>3. f = [i \in DOMAIN changes |-> f[i]]
    BY <1>5, <2>2
  <2>4. \A i \in DOMAIN changes : f[i] \in SafeChange
    BY <1>5, <2>1, <2>2, RowUpdates, Statuses
  <2>5. changes \in Seq(SafeChange)
    BY DEF IInv, RowsInv
  <2>6. f \in Seq(SafeChange) /\ Len(f) = Len(changes)
    BY <2>3, <2>4, <2>5, Replaced
  <2> QED
    BY <2>2, <2>6
<1>7. RowsInv' /\ Len(tasks') = Len(tasks)
  BY <1>3, <1>6 DEF IInv, RowsInv
<1>8. LocInv'
  BY <1>2, <1>6, <1>7, UploadNext
<1> QED
  BY <1>3, <1>7, <1>8, RowStep

\* A drain that ends after at most a change of statuses.
LEMMA DrainStep ==
    ASSUME IInv, NEW pr \in Procs, DrainEnd(pr), UNCHANGED <<site, store, paused>>,
           RowsInv', Len(changes') = Len(changes), Len(tasks') = Len(tasks),
           cooling' \in BOOLEAN, Mishap \/ UNCHANGED mishaps
    PROVE  IInv'
<1>1. LocInv'
  BY DrainEndKept
<1>2. paused' \in BOOLEAN
  BY DEF IInv, FlagsInv
<1>3. SiteInv' /\ StoreInv' /\ FlagsInv'
  BY <1>2, RestKept
<1> QED
  BY <1>1, <1>3 DEF IInv

LEMMA ClaimNothingKept ==
    ASSUME IInv, NEW pr \in Procs, ClaimNothing(pr)
    PROVE  IInv'
<1>1. DrainEnd(pr) /\ UNCHANGED <<rows, site, store, flags, mishaps>>
  BY DEF ClaimNothing
<1>2. RowsInv' /\ Len(changes') = Len(changes) /\ Len(tasks') = Len(tasks)
  BY <1>1, RowsStay
<1> QED
  BY <1>1, <1>2, FlagsAreBoolean, DrainStep DEF flags

LEMMA UploadRefusedKept ==
    ASSUME IInv, NEW pr \in Procs, UploadRefused(pr)
    PROVE  IInv'
<1>1. /\ SetStatus(Submitting(pr), "failed") /\ DrainEnd(pr)
      /\ UNCHANGED <<entries, tasks, site, store, flags, mishaps>>
  BY DEF UploadRefused
<1>2. RowsInv' /\ Len(changes') = Len(changes) /\ Len(tasks') = Len(tasks)
  BY <1>1, Statuses, SetStatusRows
<1> QED
  BY <1>1, <1>2, FlagsAreBoolean, DrainStep DEF flags

LEMMA MarkUnknownKept ==
    ASSUME IInv, NEW pr \in Procs, MarkUnknown(pr)
    PROVE  IInv'
<1>1. /\ SetStatus(Submitting(pr), "submit_unknown") /\ DrainEnd(pr)
      /\ UNCHANGED <<entries, tasks, site, store, paused, mishaps>>
  BY DEF MarkUnknown
<1>2. RowsInv' /\ Len(changes') = Len(changes) /\ Len(tasks') = Len(tasks)
  BY <1>1, Statuses, SetStatusRows
<1>3. cooling' \in BOOLEAN
  BY DEF MarkUnknown, IInv, FlagsInv
<1> QED
  BY <1>1, <1>2, <1>3, DrainStep

LEMMA MarkFailsKept ==
    ASSUME IInv, NEW pr \in Procs, MarkFails(pr)
    PROVE  IInv'
<1>1. Mishap /\ DrainEnd(pr) /\ UNCHANGED <<rows, site, store, flags>>
  BY DEF MarkFails
<1>2. RowsInv' /\ Len(changes') = Len(changes) /\ Len(tasks') = Len(tasks)
  BY <1>1, RowsStay
<1> QED
  BY <1>1, <1>2, FlagsAreBoolean, DrainStep DEF flags

\* Every price of a payload is the new price of a saved change.
LEMMA PayloadKept ==
    ASSUME IInv, NEW S \in SUBSET Ids
    PROVE  Payload(S) \in SafeItems
<1>1. \A i \in S : changes[i] \in SafeChange
  BY SavedRows DEF IInv
<1>2. PICK P \in SUBSET Products : P = {changes[i].prod : i \in S}
  BY <1>1 DEF SafeChange
<1>3. ASSUME NEW p \in P
      PROVE  changes[CHOOSE i \in S : changes[i].prod = p].new \in Prices
  <2>1. \E i \in S : changes[i].prod = p
    BY <1>2
  <2>2. (CHOOSE i \in S : changes[i].prod = p) \in S
    BY <2>1
  <2> QED
    BY <1>1, <2>2 DEF SafeChange
<1>4. Payload(S) = [p \in P |-> changes[CHOOSE i \in S : changes[i].prod = p].new]
  BY <1>2 DEF Payload
<1>5. Payload(S) \in [P -> Prices]
  BY <1>3, <1>4
<1> QED
  BY <1>5 DEF SafeItems

\* A task that WB accepts gets no row yet.
LEMMA AcceptedKept ==
    ASSUME IInv, NEW S \in SUBSET Ids, WBAccepts(S), UNCHANGED <<changes, entries, wbPrice>>
    PROVE  /\ RowsInv' /\ SiteInv'
           /\ Len(tasks') = Len(tasks) + 1 /\ Len(changes') = Len(changes)
<1>1. PICK items \in SafeItems : items = Payload(S)
  BY PayloadKept
<1>2. [items |-> items, open |-> TRUE, bad |-> {}] \in SafeTask
  <2>1. TRUE \in BOOLEAN /\ {} \in SUBSET Products
    OBVIOUS
  <2> HIDE DEF SafeItems
  <2> QED
    BY <2>1, SMT DEF SafeTask
<1>3. wb' \in Seq(SafeTask) /\ Len(wb') = Len(wb) + 1
  BY <1>1, <1>2 DEF WBAccepts, IInv, SiteInv
<1>4. tasks' \in Seq(TaskStatus) /\ Len(tasks') = Len(tasks) + 1
  BY DEF WBAccepts, IInv, RowsInv, TaskStatus
<1>5. entries' \in [Entries -> [status : EntryStatus, tasks : SUBSET (1 .. Len(tasks'))]]
  <2>1. SUBSET (1 .. Len(tasks)) \subseteq SUBSET (1 .. Len(tasks'))
    BY <1>4, Lengths
  <2> QED
    BY <2>1 DEF IInv, RowsInv
<1> QED
  BY <1>3, <1>4, <1>5 DEF IInv, RowsInv, SiteInv

LEMMA UploadKept ==
    ASSUME IInv, NEW pr \in Procs, Upload(pr)
    PROVE  IInv'
<1>1. /\ UNCHANGED <<changes, entries, wbPrice, store, flags>>
      /\ "link" \in Labels /\ "unknown" \in Labels
  BY DEF Upload, Labels
<1>2. PICK me \in Local : me = loc[pr] /\ Fits(pc[pr], me, Len(changes), Len(tasks)) /\ pc[pr] \in Labels
  BY LocalsFit
<1>3. PICK S \in SUBSET Ids : S = me.batch
  BY <1>2, Lengths DEF Fits
<1>4. \/ /\ WBAccepts(S) /\ UNCHANGED mishaps
         /\ Goto(pr, "link", [me EXCEPT !.task = Len(wb) + 1])
      \/ /\ \E t \in SameTasks(S) : Goto(pr, "link", [me EXCEPT !.task = t])
         /\ UNCHANGED <<wb, tasks, mishaps>>
      \/ /\ WBAccepts(S) \/ UNCHANGED <<wb, tasks>>
         /\ Mishap
         /\ Goto(pr, "unknown", me)
  BY <1>2, <1>3 DEF Upload
<1>5. /\ StoreInv' /\ Len(changes) \in Nat /\ Len(tasks) \in Nat
      /\ Len(wb) = Len(tasks) /\ DOMAIN wb = 1 .. Len(tasks)
  BY <1>1, Lengths DEF IInv, StoreInv, SiteInv, store
<1>6. FlagsInv'
  <2>1. mishaps' \in 0 .. MaxMishaps
    BY <1>4, BoundsAssumption DEF IInv, FlagsInv, Mishap
  <2> QED
    BY <1>1, <2>1 DEF IInv, FlagsInv, flags
<1>7. /\ RowsInv' /\ SiteInv' /\ Len(changes') = Len(changes)
      /\ Len(tasks') \in {Len(tasks), Len(tasks) + 1}
      /\ WBAccepts(S) => Len(tasks') = Len(tasks) + 1
      /\ ~WBAccepts(S) => Len(tasks') = Len(tasks)
  <2>1. CASE WBAccepts(S)
    BY <1>1, <2>1, AcceptedKept
  <2>2. CASE ~WBAccepts(S)
    <3>1. UNCHANGED <<wb, tasks>>
      BY <1>4, <2>2
    <3> QED
      BY <1>1, <2>2, <3>1 DEF IInv, RowsInv, SiteInv
  <2> QED
    BY <2>1, <2>2
<1>8. Fits(pc[pr], me, Len(changes'), Len(tasks'))
  BY <1>2, <1>5, <1>7 DEF Fits
<1>9. LocInv'
  <2>0. Len(changes') \in Nat /\ Len(tasks') \in Nat /\ Len(tasks) <= Len(tasks')
    BY <1>5, <1>7
  <2>1. ASSUME NEW t \in 1 .. Len(tasks'), Goto(pr, "link", [me EXCEPT !.task = t])
        PROVE  LocInv'
    <3>1. PICK new : new = [me EXCEPT !.task = t]
      OBVIOUS
    <3>2. t \in Nat
      BY <2>0
    <3>3. new \in Local
      BY <3>1, <3>2, LocalUpdates
    <3>4. Fits("link", new, Len(changes'), Len(tasks'))
      BY <1>2, <1>8, <2>0, <3>1, OngoingMoves
    <3> QED
      BY <1>1, <1>5, <1>7, <2>0, <2>1, <3>1, <3>3, <3>4, MoveKept
  <2>2. CASE Goto(pr, "unknown", me)
    <3>1. Fits("unknown", me, Len(changes'), Len(tasks'))
      BY <1>2, <1>8, <2>0, OngoingMoves
    <3> QED
      BY <1>1, <1>5, <1>7, <2>0, <2>2, <3>1, MoveKept
  <2>3. CASE WBAccepts(S) /\ Goto(pr, "link", [me EXCEPT !.task = Len(wb) + 1])
    <3>1. Len(tasks') = Len(tasks) + 1
      BY <1>7, <2>3
    <3>2. Len(wb) + 1 \in 1 .. Len(tasks')
      BY <1>5, <3>1
    <3> QED
      BY <2>1, <2>3, <3>2
  <2>4. CASE \E t \in SameTasks(S) : Goto(pr, "link", [me EXCEPT !.task = t])
    <3>1. PICK t \in SameTasks(S) : Goto(pr, "link", [me EXCEPT !.task = t])
      BY <2>4
    <3>2. t \in 1 .. Len(tasks')
      BY <1>5, <1>7 DEF SameTasks
    <3> QED
      BY <2>1, <3>1, <3>2
  <2> QED
    BY <1>4, <2>2, <2>3, <2>4
<1> QED
  BY <1>5, <1>6, <1>7, <1>9 DEF IInv

-----------------------------------------------------------------------------
(* The results of WB.                                                      *)

LEMMA LinkKept ==
    ASSUME IInv, NEW pr \in Procs, Link(pr)
    PROVE  IInv'
<1>1. pc[pr] = "link" /\ UNCHANGED <<site, store, flags, mishaps>> /\ "drain" \in Labels
  BY DEF Link, Labels
<1>2. PICK t \in 1 .. Len(tasks) : t = loc[pr].task
  BY <1>1, Lengths, LocalsFit DEF Fits
<1>3. PICK st \in TaskStatus : st = IF tasks[t] = "none" THEN "uploaded" ELSE tasks[t]
  BY DEF IInv, RowsInv, TaskStatus
<1>4. PICK ts : ts = [tasks EXCEPT ![t] = st]
  OBVIOUS
<1>5. ts \in Seq(TaskStatus) /\ Len(ts) = Len(tasks)
  BY <1>4 DEF IInv, RowsInv
<1>6. PICK ls \in ChangeStatus : ls = LinkedStatus(st)
  BY Statuses DEF LinkedStatus
<1>7. PICK cs : cs = [i \in DOMAIN changes |->
                        IF i \in Submitting(pr) THEN [changes[i] EXCEPT !.task = t, !.status = ls]
                        ELSE changes[i]]
  OBVIOUS
<1>8. cs \in Seq(SafeChange) /\ Len(cs) = Len(changes)
  <2>1. \A i \in DOMAIN changes : changes[i] \in SafeChange
    BY DEF IInv, RowsInv
  <2>2. t \in Nat
    BY Lengths
  <2>3. \A i \in DOMAIN changes : cs[i] \in SafeChange
    BY <1>7, <2>1, <2>2, RowUpdates
  <2>4. cs = [i \in DOMAIN changes |-> cs[i]]
    BY <1>7
  <2>5. changes \in Seq(SafeChange)
    BY DEF IInv, RowsInv
  <2> QED
    BY <2>3, <2>4, <2>5, Replaced
<1>9. PICK es : es = [e \in Entries |->
                        IF entries[e].status = "executing" /\ \E i \in Submitting(pr) : changes[i].entry = e
                        THEN [entries[e] EXCEPT !.tasks = entries[e].tasks \cup {t}]
                        ELSE entries[e]]
  OBVIOUS
<1>10. es \in EntryRows(Len(tasks)) /\ Len(tasks) \in Nat
  <2>1. entries \in EntryRows(Len(tasks)) /\ Len(tasks) \in Nat
    BY DEF IInv, RowsInv, EntryRows
  <2>2. \A e \in Entries : [entries[e] EXCEPT !.tasks = entries[e].tasks \cup {t}]
                              \in [status : EntryStatus, tasks : SUBSET (1 .. Len(tasks))]
    BY <2>1, EntryUpdates
  <2> QED
    BY <1>9, <2>1, <2>2 DEF EntryRows
<1>11. /\ tasks' = ts
       /\ changes' = IF st = "partial" THEN Resolved(cs, t) ELSE cs
       /\ entries' = Aggregate(changes', ts, es, OfTask(es, t))
       /\ IF st \in {"failed", "partial"} THEN DrainEnd(pr)
          ELSE Goto(pr, "drain", [loc[pr] EXCEPT !.batch = {}, !.task = 0, !.retry = FALSE])
  BY <1>2, <1>3, <1>4, <1>6, <1>7, <1>9 DEF Link, Ids
<1>12. changes' \in Seq(SafeChange) /\ Len(changes') = Len(changes)
  BY <1>8, <1>11, ResolvedKept
<1>13. entries' \in EntryRows(Len(tasks))
  BY <1>10, <1>11, AggregateKept
<1>14. RowsInv' /\ Len(tasks') = Len(tasks)
  BY <1>5, <1>11, <1>12, <1>13 DEF IInv, RowsInv, EntryRows
<1>15. LocInv'
  <2>1. CASE DrainEnd(pr)
    BY <1>12, <1>14, <2>1, DrainEndKept
  <2>2. CASE Goto(pr, "drain", [loc[pr] EXCEPT !.batch = {}, !.task = 0, !.retry = FALSE])
    <3>1. PICK new : new = [loc[pr] EXCEPT !.batch = {}, !.task = 0, !.retry = FALSE]
      OBVIOUS
    <3>2. new \in Local
      BY <3>1, LocalsFit, LocalUpdates
    <3>3. Fits("drain", new, Len(changes'), Len(tasks'))
      BY <1>12, <1>14, <3>1, Lengths, LocalsFit, OngoingMoves
    <3> QED
      BY <1>1, <1>12, <1>14, <2>2, <3>1, <3>2, <3>3, Lengths, MoveKept
  <2> QED
    BY <1>11, <2>1, <2>2
<1> QED
  BY <1>1, <1>14, <1>15, RowStep

\* WB sets the prices of a task.
LEMMA WBProcessKept ==
    ASSUME IInv, NEW t \in DOMAIN wb, WBProcess(t)
    PROVE  IInv'
<1>1. UNCHANGED <<rows, store, flags, pc, loc, mishaps>>
  BY DEF WBProcess
<1>2. wb[t] \in SafeTask
  BY DEF IInv, SiteInv
<1>3. PICK items \in SafeItems : items = wb[t].items
  <2> HIDE DEF SafeItems
  <2> QED
    BY <1>2 DEF SafeTask
<1>4. PICK P \in SUBSET Products : items \in [P -> Prices]
  BY DEF SafeItems
<1>5. PICK bad \in SUBSET P :
         /\ wb' = [wb EXCEPT ![t].open = FALSE, ![t].bad = bad]
         /\ wbPrice' = [p \in Products |-> IF p \in P \ bad THEN items[p] ELSE wbPrice[p]]
  <2>1. PICK bad \in SUBSET DOMAIN wb[t].items :
           /\ wb' = [wb EXCEPT ![t].open = FALSE, ![t].bad = bad]
           /\ wbPrice' = [p \in Products |-> IF p \in DOMAIN wb[t].items \ bad
                                             THEN wb[t].items[p] ELSE wbPrice[p]]
    BY DEF WBProcess
  <2>2. DOMAIN wb[t].items = P
    BY <1>3, <1>4
  <2> QED
    BY <1>3, <2>1, <2>2
<1>6. wbPrice' \in [Products -> Prices]
  BY <1>4, <1>5 DEF IInv, SiteInv
<1>7. wb' \in Seq(SafeTask) /\ Len(wb') = Len(wb)
  <2>1. PICK new : new = [wb[t] EXCEPT !.open = FALSE, !.bad = bad]
    OBVIOUS
  <2>2. new \in SafeTask
    <3>1. new.items = items /\ new.open = FALSE /\ new.bad = bad
          /\ DOMAIN new = {"items", "open", "bad"} /\ new = [x \in DOMAIN new |-> new[x]]
      BY <1>2, <1>3, <2>1 DEF SafeTask
    <3>2. new = [items |-> items, open |-> FALSE, bad |-> bad]
      BY <3>1
    <3>3. FALSE \in BOOLEAN /\ bad \in SUBSET Products
      OBVIOUS
    <3> HIDE DEF SafeItems
    <3> QED
      BY <3>2, <3>3, SMT DEF SafeTask
  <2>3. wb' = [wb EXCEPT ![t] = new]
    BY <1>5, <2>1
  <2> QED
    BY <2>2, <2>3 DEF IInv, SiteInv
<1>8. RowsInv' /\ Len(changes') = Len(changes) /\ Len(tasks') = Len(tasks)
  BY <1>1, RowsStay
<1>9. SiteInv'
  BY <1>6, <1>7, <1>8 DEF IInv, SiteInv
<1>10. StoreInv' /\ FlagsInv'
  BY <1>1 DEF IInv, StoreInv, FlagsInv, store, flags
<1>11. LocInv'
  BY <1>1, <1>8, Lengths, StayKeeps DEF IInv
<1> QED
  BY <1>8, <1>9, <1>10, <1>11 DEF IInv

LEMMA PollingKept ==
    ASSUME IInv, RowsInv', Len(changes') = Len(changes), Len(tasks') = Len(tasks),
           NEW P \in SUBSET (1 .. Len(tasks)), Polling(P)
    PROVE  LocInv'
<1>1. Worker \in Procs /\ {"drain", "poll"} \subseteq Labels
  BY DEF Procs, Labels
<1>2. PICK new : new = [Idle EXCEPT !.job = "poll", !.polls = P]
  OBVIOUS
<1>3. /\ new \in Local /\ Fits("drain", new, Len(changes), Len(tasks))
      /\ Fits("poll", new, Len(changes), Len(tasks))
  BY <1>2, Lengths, IdleMoves
<1>4. PICK l \in {"drain", "poll"} : Goto(Worker, l, new)
  BY <1>2 DEF Polling
<1>5. Fits(l, new, Len(changes'), Len(tasks'))
  BY <1>3
<1> QED
  BY <1>1, <1>3, <1>4, <1>5, Lengths, MoveKept

LEMMA PollStartKept ==
    ASSUME IInv, PollStart
    PROVE  IInv'
<1>1. SetStatus(Orphans, "submit_unknown") /\ UNCHANGED <<tasks, site, store, flags, mishaps>>
  BY DEF PollStart
<1>2. changes' \in Seq(SafeChange) /\ Len(changes') = Len(changes)
  BY <1>1, Statuses, StatusSet DEF IInv
<1>3. PICK es : es = [e \in Entries |-> IF e \in Replanned
                                        THEN [entries[e] EXCEPT !.status = "planned"]
                                        ELSE entries[e]]
  OBVIOUS
<1>4. es \in EntryRows(Len(tasks)) /\ Len(tasks) \in Nat
  <2>1. entries \in EntryRows(Len(tasks)) /\ Len(tasks) \in Nat
    BY DEF IInv, RowsInv, EntryRows
  <2>2. \A e \in Entries : [entries[e] EXCEPT !.status = "planned"]
                              \in [status : EntryStatus, tasks : SUBSET (1 .. Len(tasks))]
    BY <2>1, EntryUpdates, Statuses
  <2> QED
    BY <1>3, <2>1, <2>2 DEF EntryRows
<1>5. entries' = Aggregate(changes', tasks, es, Entries)
  BY <1>3 DEF PollStart
<1>6. entries' \in EntryRows(Len(tasks))
  BY <1>4, <1>5, AggregateKept
<1>7. RowsInv' /\ Len(tasks') = Len(tasks)
  BY <1>1, <1>2, <1>6 DEF IInv, RowsInv, EntryRows
<1>8. PICK P \in SUBSET (1 .. Len(tasks)) : Polling(P)
  BY Lengths DEF PollStart
<1>9. LocInv'
  BY <1>2, <1>7, <1>8, PollingKept
<1> QED
  BY <1>1, <1>7, <1>9, RowStep

LEMMA PollKept ==
    ASSUME IInv, NEW t \in DOMAIN tasks, Poll(t)
    PROVE  IInv'
<1>1. UNCHANGED <<site, store, flags>> /\ Worker \in Procs
  BY DEF Poll, Procs
<1>2. PICK P \in SUBSET (1 .. Len(tasks)) : Polling(P)
  <2>1. loc[Worker].polls \subseteq 1 .. Len(tasks)
    BY <1>1, LocalsFit DEF Fits
  <2> QED
    BY <2>1 DEF Poll
<1>3. CASE /\ changes' = Resolved(changes, t)
           /\ tasks' = [tasks EXCEPT ![t] = TaskResult(t)]
           /\ entries' = Aggregate(changes', tasks', entries, OfTask(entries, t))
           /\ UNCHANGED mishaps
  <2>1. changes' \in Seq(SafeChange) /\ Len(changes') = Len(changes)
    BY <1>3, ResolvedKept DEF IInv, RowsInv
  <2>2. TaskResult(t) \in TaskStatus
    BY DEF TaskResult, TaskStatus
  <2>3. tasks' \in Seq(TaskStatus) /\ Len(tasks') = Len(tasks)
    BY <1>3, <2>2 DEF IInv, RowsInv
  <2>4. entries \in EntryRows(Len(tasks)) /\ Len(tasks) \in Nat
    BY DEF IInv, RowsInv, EntryRows
  <2>5. entries' \in EntryRows(Len(tasks))
    BY <1>3, <2>4, AggregateKept
  <2>6. RowsInv'
    BY <2>1, <2>3, <2>5 DEF IInv, RowsInv, EntryRows
  <2>7. LocInv'
    BY <1>2, <2>1, <2>3, <2>6, PollingKept
  <2> QED
    BY <1>1, <1>3, <2>3, <2>6, <2>7, RowStep
<1>4. CASE (Mishap \/ UNCHANGED mishaps) /\ UNCHANGED <<changes, tasks, entries>>
  <2>1. RowsInv' /\ Len(changes') = Len(changes) /\ Len(tasks') = Len(tasks)
    BY <1>4, RowsStay DEF rows
  <2>2. LocInv'
    BY <1>2, <2>1, PollingKept
  <2> QED
    BY <1>1, <1>4, <2>1, <2>2, RowStep
<1> QED
  BY <1>3, <1>4 DEF Poll

LEMMA CrashKept ==
    ASSUME IInv, NEW pr \in Procs, Crash(pr)
    PROVE  IInv'
<1>1. Mishap /\ Return(pr) /\ UNCHANGED <<rows, site, store, flags>>
  BY DEF Crash
<1>2. RowsInv' /\ Len(changes') = Len(changes) /\ Len(tasks') = Len(tasks)
  BY <1>1, RowsStay
<1>3. LocInv'
  BY <1>1, <1>2, Lengths, ReturnKept
<1> QED
  BY <1>1, <1>2, <1>3, RowStep

\* Cooldowns and freezes.
LEMMA SwitchKept ==
    ASSUME IInv, CooldownEnds \/ Freeze \/ Unfreeze
    PROVE  IInv'
<1>1. UNCHANGED <<rows, site, store, pc, loc>> /\ (Mishap \/ UNCHANGED mishaps)
  BY DEF CooldownEnds, Freeze, Unfreeze
<1>2. cooling' \in BOOLEAN /\ paused' \in BOOLEAN
  BY Zenon DEF CooldownEnds, Freeze, Unfreeze, IInv, FlagsInv
<1>3. RowsInv' /\ Len(changes') = Len(changes) /\ Len(tasks') = Len(tasks)
  BY <1>1, RowsStay
<1>4. SiteInv' /\ StoreInv' /\ FlagsInv'
  BY <1>1, <1>2, <1>3, RestKept
<1>5. LocInv'
  BY <1>1, <1>3, Lengths, StayKeeps DEF IInv
<1> QED
  BY <1>3, <1>4, <1>5 DEF IInv

LEMMA StutterKept ==
    ASSUME IInv, UNCHANGED vars
    PROVE  IInv'
<1>1. UNCHANGED <<rows, site, store, flags, pc, loc, mishaps>>
  BY DEF vars, rows, site, store, flags
<1>2. RowsInv' /\ Len(changes') = Len(changes) /\ Len(tasks') = Len(tasks)
  BY <1>1, RowsStay
<1>3. LocInv'
  BY <1>1, <1>2, Lengths, StayKeeps DEF IInv
<1> QED
  BY <1>1, <1>2, <1>3, RowStep

LEMMA ApplyKept ==
    ASSUME IInv, NEW pr \in Procs, Apply(pr)
    PROVE  IInv'
  BY EnqueueKept, EnqueueEndKept, ClaimUnknownKept, ClaimPendingKept, ClaimNothingKept, UploadKept,
     UploadRefusedKept, MarkUnknownKept, MarkFailsKept, LinkKept DEF Apply

LEMMA NextKept == IInv /\ [Next]_vars => IInv'
<1> SUFFICES ASSUME IInv, [Next]_vars PROVE IInv'
  OBVIOUS
<1>1. Worker \in Procs /\ \A a \in Apis : a \in Procs
  BY DEF Procs
<1>2. ASSUME NEW a \in Apis, Bulk(a) \/ Rollback(a) \/ ApiStep(a)
      PROVE  IInv'
  BY <1>1, <1>2, BulkKept, RollbackKept, CancelWriteKept, ApplyKept DEF ApiStep
<1>3. ASSUME NEW e \in Entries, CreateSchedule(e) \/ ClaimDue(e)
      PROVE  IInv'
  BY <1>3, CreateScheduleKept, ClaimDueKept
<1>4. CASE WorkerStep
  BY <1>1, <1>4, SyncStoreKept, ExecuteKept, EntryEndKept, ScheduleEndKept, PollKept, ApplyKept
     DEF WorkerStep
<1>5. CASE UNCHANGED vars
  BY <1>5, StutterKept
<1> QED
  BY <1>2, <1>3, <1>4, <1>5, CancelReadKept, SyncReadKept, PollStartKept, WBProcessKept, CrashKept,
     SwitchKept DEF Next

-----------------------------------------------------------------------------
(* The locks.                                                              *)

Won(p) == Of(p, {"applied", "rolled_back"})

\* WB shows the price of the latest change of p that was applied.
Quiet(p) ==
    \A i \in Won(p) : (\A j \in Won(p) : j <= i) => wbPrice[p] = changes[i].new

\* Task t carries the changes of batch b, and nothing was uploaded for their
\* goods since.
Carries(t, b) ==
    /\ \A p \in DOMAIN wb[t].items : \E i \in Ids : changes[i].batch = b /\ changes[i].prod = p
    /\ \A i \in Ids : changes[i].batch = b =>
          /\ changes[i].prod \in DOMAIN wb[t].items
          /\ wb[t].items[changes[i].prod] = changes[i].new
          /\ \A u \in DOMAIN wb : u > t => changes[i].prod \notin DOMAIN wb[u].items

\* A pending change is the latest of its product.
PendingLatest(i) == changes[i].status = "pending" =>
    /\ changes[i].batch = 0
    /\ \A j \in Ids : changes[j].prod = changes[i].prod => j <= i

\* A batch is named after one of its changes.
BatchNamed(i) == changes[i].batch # 0 =>
    changes[i].batch \in Ids /\ changes[changes[i].batch].batch = changes[i].batch

\* A batch is in transport as a whole.
BatchTogether(i) == changes[i].status \in Transport =>
    /\ changes[i].batch # 0
    /\ \A j \in Ids : changes[j].batch = changes[i].batch =>
          changes[j].status = changes[i].status /\ changes[j].task = changes[i].task

\* A product has at most one change in transport, and later ones wait.
OneInTransport(i) == changes[i].status \in Transport =>
    \A j \in Ids : j # i /\ changes[j].prod = changes[i].prod =>
        /\ changes[j].status \notin Transport
        /\ j > i => changes[j].status \in {"pending", "failed"}

UploadedCarried(i) == changes[i].status = "uploaded" =>
    /\ changes[i].task \in DOMAIN wb
    /\ Carries(changes[i].task, changes[i].batch)
    /\ tasks[changes[i].task] = "uploaded"

UndoneApplied(i) == changes[i].undo # 0 =>
    changes[i].undo \in Ids /\ changes[changes[i].undo].status \in {"applied", "rolled_back"}

NotLinked(i) == changes[i].status \in {"pending", "submitting", "submit_unknown"} => changes[i].task = 0

ChangeOk(i) ==
    /\ PendingLatest(i) /\ BatchNamed(i) /\ BatchTogether(i) /\ OneInTransport(i)
    /\ UploadedCarried(i) /\ UndoneApplied(i) /\ NotLinked(i)

ChangeInv == \A i \in Ids : ChangeOk(i)

\* No write of p can still happen, and the last one is the last applied change.
Untouched(p) == Quiet(p) /\ \A t \in DOMAIN wb : wb[t].open = TRUE => p \notin DOMAIN wb[t].items

Busy == {"upload", "unknown", "link"}

\* What a process that submits a batch relies on.
Holds(pr) ==
    /\ pc[pr] \in Busy <=> loc[pr].batch # {}
    /\ \A i \in loc[pr].batch :
          /\ changes[i].status = "submitting"
          /\ \A j \in Ids : changes[j].batch = changes[i].batch <=> j \in loc[pr].batch
          /\ pc[pr] = "link" => Carries(loc[pr].task, changes[i].batch)
          /\ pc[pr] = "upload" /\ loc[pr].retry = FALSE => Untouched(changes[i].prod)

HoldInv ==
    /\ \A pr \in Procs : Holds(pr)
    /\ \A pr, q \in Procs : pr # q => loc[q].batch \cap loc[pr].batch = {}

TodoInv ==
    \A pr \in Procs :
        /\ \A it \in loc[pr].todo :
              it.undo # 0 => it.undo \in Ids /\ changes[it.undo].status \in {"applied", "rolled_back"}
        /\ \A t \in loc[pr].polls : tasks[t] # "none"

Closed == {"applied", "partial", "failed"}

ResultTold(t) ==
    /\ tasks[t] \in Closed => wb[t].open = FALSE
    /\ tasks[t] = "applied" => wb[t].bad = {}
    /\ tasks[t] = "failed" => wb[t].bad = DOMAIN wb[t].items

Locked(t) == wb[t].open = TRUE =>
    \E i \in Ids : changes[i].status \in Transport /\ Carries(t, changes[i].batch)

Shown(t) == wb[t].open = FALSE =>
    \A p \in DOMAIN wb[t].items \ wb[t].bad :
        (\A u \in DOMAIN wb : u > t => p \notin DOMAIN wb[u].items) => wbPrice[p] = wb[t].items[p]

Linked(t) == tasks[t] # "none" => \E k \in Ids : changes[k].task = t

TaskOk(t) == ResultTold(t) /\ Locked(t) /\ Shown(t) /\ Linked(t)

TaskInv == \A t \in DOMAIN wb : TaskOk(t)

\* WB has applied change i, and polling has still to find out.
Winning(i) ==
    \E t \in DOMAIN wb : /\ wb[t].open = FALSE
                         /\ Carries(t, changes[i].batch)
                         /\ changes[i].prod \notin wb[t].bad

PriceInv == \A p \in Products : Quiet(p) \/ \E i \in Of(p, Transport) : Winning(i)

LockInv == ChangeInv /\ HoldInv /\ TodoInv /\ TaskInv /\ PriceInv

-----------------------------------------------------------------------------
(* Lemmas.                                                                 *)

\* Saved changes keep their product, prices, entry and undo.
Fixed ==
    /\ Ids \subseteq Ids'
    /\ \A i \in Ids : /\ changes'[i].prod = changes[i].prod
                      /\ changes'[i].new = changes[i].new
                      /\ changes'[i].entry = changes[i].entry
                      /\ changes'[i].undo = changes[i].undo

LEMMA CarriesStays ==
    ASSUME NEW b, NEW t \in DOMAIN wb, Fixed,
           \A i \in Ids' : changes'[i].batch = b <=> (i \in Ids /\ changes[i].batch = b),
           DOMAIN wb \subseteq DOMAIN wb',
           \A u \in DOMAIN wb : wb'[u].items = wb[u].items,
           \A u \in DOMAIN wb' : \A i \in Ids :
              u \notin DOMAIN wb /\ changes[i].batch = b => changes[i].prod \notin DOMAIN wb'[u].items
    PROVE  Carries(t, b)' <=> Carries(t, b)
<1>1. ASSUME Carries(t, b)
      PROVE  Carries(t, b)'
  BY <1>1 DEF Carries, Fixed
<1>2. ASSUME Carries(t, b)'
      PROVE  Carries(t, b)
  BY <1>2 DEF Carries, Fixed
<1> QED
  BY <1>1, <1>2

\* Only one task carries a batch.
LEMMA OneCarrier ==
    ASSUME IInv, NEW t \in DOMAIN wb, NEW u \in DOMAIN wb, NEW i \in Ids,
           Carries(t, changes[i].batch), Carries(u, changes[i].batch)
    PROVE  t = u
<1>1. DOMAIN wb \subseteq Nat
  BY DEF IInv, SiteInv
<1>2. ~(t < u) /\ ~(u < t)
  BY <1>1 DEF Carries
<1> QED
  BY <1>1, <1>2

\* A carrier is the last task of every product of the batch.
LEMMA CarrierIsLast ==
    ASSUME NEW t \in DOMAIN wb, NEW b, Carries(t, b), NEW p \in DOMAIN wb[t].items
    PROVE  /\ \A u \in DOMAIN wb : u > t => p \notin DOMAIN wb[u].items
           /\ \E i \in Ids : changes[i].batch = b /\ changes[i].prod = p /\ wb[t].items[p] = changes[i].new
  BY DEF Carries

-----------------------------------------------------------------------------
(* A statement that takes the changes S, whole batches in transport, to    *)
(* other statuses.                                                         *)

Last == {"applied", "rolled_back"}

Moved(S) ==
    /\ Ids' = Ids /\ Fixed
    /\ UNCHANGED <<wb, wbPrice>>
    /\ S \subseteq Ids
    /\ \A i \in Ids : changes'[i].batch = changes[i].batch
    /\ \A i \in Ids \ S :
          /\ changes'[i].task = changes[i].task
          /\ \/ changes'[i].status = changes[i].status
             \/ changes[i].status \in Last /\ changes'[i].status = "rolled_back"
    /\ \A i \in S :
          /\ changes[i].status \in Transport
          /\ changes'[i].status \in Transport \cup {"applied", "failed"}
          /\ \A j \in Ids : changes[j].batch = changes[i].batch =>
                /\ j \in S /\ changes'[j].task = changes'[i].task
                /\ changes'[i].status \in Transport => changes'[j].status = changes'[i].status
          /\ changes'[i].status \in {"submitting", "submit_unknown"} => changes'[i].task = 0
          /\ changes'[i].status = "uploaded" =>
                changes'[i].task \in DOMAIN wb /\ Carries(changes'[i].task, changes[i].batch)
          /\ changes[i].status = "uploaded" => changes'[i].task = changes[i].task
          /\ changes'[i].status \in {"applied", "failed"} =>
                \A t \in DOMAIN wb : Carries(t, changes[i].batch) => wb[t].open = FALSE
          /\ changes'[i].status = "applied" => wbPrice[changes[i].prod] = changes[i].new
          /\ changes'[i].status = "failed" => Quiet(changes[i].prod)
    /\ \A i \in Ids : changes'[i].status = "uploaded" => tasks'[changes'[i].task] = "uploaded"
    /\ \A t \in DOMAIN wb :
          \/ tasks'[t] = tasks[t]
          \/ tasks'[t] = "uploaded" /\ \E k \in Ids : changes'[k].task = t
          \/ tasks'[t] \in Closed /\ tasks[t] # "none" /\ ResultTold(t)'

LEMMA MovedCarries ==
    ASSUME NEW S, Moved(S), NEW b, NEW t \in DOMAIN wb
    PROVE  Carries(t, b)' <=> Carries(t, b)
<1>1. /\ Fixed
      /\ \A i \in Ids' : changes'[i].batch = b <=> (i \in Ids /\ changes[i].batch = b)
      /\ wb' = wb
  BY DEF Moved
<1> QED
  BY <1>1, CarriesStays

LEMMA MovedChanges ==
    ASSUME IInv, ChangeInv, NEW S, Moved(S)
    PROVE  ChangeInv'
<1>1. ASSUME NEW i \in Ids
      PROVE  ChangeOk(i)'
  <2>0. ChangeOk(i)
    BY DEF ChangeInv
  <2>1. Ids' = Ids /\ changes'[i].batch = changes[i].batch
    BY DEF Moved
  <2>2. PendingLatest(i)'
    <3>1. changes'[i].status = "pending" => changes[i].status = "pending"
      BY DEF Moved, Transport
    <3>2. \A j \in Ids : changes'[j].prod = changes[j].prod
      BY DEF Moved, Fixed
    <3> QED
      BY <2>0, <2>1, <3>1, <3>2 DEF ChangeOk, PendingLatest
  <2>3. BatchNamed(i)'
    BY <2>0, <2>1 DEF ChangeOk, BatchNamed, Moved
  <2>4. changes'[i].status \in Transport => changes[i].status \in Transport
    BY DEF Moved, Transport, Last
  <2>5. BatchTogether(i)'
    <3> SUFFICES ASSUME changes'[i].status \in Transport
                 PROVE  /\ changes'[i].batch # 0
                        /\ \A j \in Ids : changes'[j].batch = changes'[i].batch =>
                              changes'[j].status = changes'[i].status /\ changes'[j].task = changes'[i].task
      BY <2>1 DEF BatchTogether
    <3>1. changes[i].batch # 0
          /\ \A j \in Ids : changes[j].batch = changes[i].batch =>
                changes[j].status = changes[i].status /\ changes[j].task = changes[i].task
      BY <2>0, <2>4 DEF ChangeOk, BatchTogether
    <3>2. ASSUME NEW j \in Ids, changes[j].batch = changes[i].batch
          PROVE  changes'[j].status = changes'[i].status /\ changes'[j].task = changes'[i].task
      <4>1. CASE i \in S
        BY <3>2, <4>1 DEF Moved
      <4>2. CASE i \notin S
        <5>1. j \notin S
          BY <3>2, <4>2 DEF Moved
        <5>2. changes[i].status \notin Last /\ changes[j].status \notin Last
          BY <2>4, <3>1, <3>2 DEF Transport, Last
        <5> QED
          BY <3>1, <3>2, <4>2, <5>1, <5>2 DEF Moved
      <4> QED
        BY <4>1, <4>2
    <3> QED
      BY <2>1, <3>1, <3>2 DEF Moved
  <2>6. OneInTransport(i)'
    <3> SUFFICES ASSUME changes'[i].status \in Transport, NEW j \in Ids, j # i,
                        changes'[j].prod = changes'[i].prod
                 PROVE  /\ changes'[j].status \notin Transport
                        /\ j > i => changes'[j].status \in {"pending", "failed"}
      BY <2>1 DEF OneInTransport
    <3>1. changes[j].prod = changes[i].prod
      BY DEF Moved, Fixed
    <3>2. changes[j].status \notin Transport /\ (j > i => changes[j].status \in {"pending", "failed"})
      BY <2>0, <2>4, <3>1 DEF ChangeOk, OneInTransport
    <3>3. j \notin S
      BY <3>2 DEF Moved
    <3> QED
      BY <3>2, <3>3 DEF Moved, Transport, Last
  <2>7. UploadedCarried(i)'
    <3> SUFFICES ASSUME changes'[i].status = "uploaded"
                 PROVE  /\ changes'[i].task \in DOMAIN wb'
                        /\ Carries(changes[i].task, changes[i].batch)'
                        /\ tasks'[changes'[i].task] = "uploaded"
      BY DEF UploadedCarried
    <3>1. PICK t \in DOMAIN wb : t = changes'[i].task /\ Carries(t, changes[i].batch)
      <4>1. CASE i \in S
        BY <4>1 DEF Moved
      <4>2. CASE i \notin S
        <5>1. changes[i].status = "uploaded" /\ changes'[i].task = changes[i].task
          BY <4>2 DEF Moved
        <5> QED
          BY <2>0, <5>1 DEF ChangeOk, UploadedCarried
      <4> QED
        BY <4>1, <4>2
    <3>2. PICK b : b = changes[i].batch
      OBVIOUS
    <3>3. Carries(t, b)'
      BY <3>1, <3>2, MovedCarries
    <3>4. changes'[i].task = t /\ changes'[i].batch = b /\ wb' = wb
      BY <2>1, <3>1, <3>2 DEF Moved
    <3>5. Carries(changes[i].task, changes[i].batch)'
      BY <3>3, <3>4 DEF Carries
    <3> QED
      BY <3>1, <3>4, <3>5 DEF Moved
  <2>8. UndoneApplied(i)'
    <3> SUFFICES ASSUME changes'[i].undo # 0
                 PROVE  /\ changes'[i].undo \in Ids
                        /\ changes'[changes'[i].undo].status \in {"applied", "rolled_back"}
      BY <2>1 DEF UndoneApplied
    <3>1. PICK u \in Ids : u = changes[i].undo /\ changes'[i].undo = u /\ changes[u].status \in Last
      BY <2>0 DEF ChangeOk, UndoneApplied, Moved, Fixed, Last
    <3>2. u \notin S
      BY <3>1 DEF Moved, Transport, Last
    <3> QED
      BY <3>1, <3>2 DEF Moved, Last
  <2>9. NotLinked(i)'
    <3>1. CASE i \in S
      BY <3>1 DEF NotLinked, Moved, Transport
    <3>2. CASE i \notin S
      BY <2>0, <3>2 DEF ChangeOk, NotLinked, Moved
    <3> QED
      BY <3>1, <3>2
  <2> QED
    BY <2>2, <2>3, <2>5, <2>6, <2>7, <2>8, <2>9 DEF ChangeOk
<1> QED
  BY <1>1 DEF ChangeInv, Moved

LEMMA MovedTasks ==
    ASSUME IInv, ChangeInv, TaskInv, NEW S, Moved(S)
    PROVE  TaskInv'
<1>0. wb' = wb /\ wbPrice' = wbPrice /\ Ids' = Ids
  BY DEF Moved
<1>1. ASSUME NEW t \in DOMAIN wb
      PROVE  TaskOk(t)'
  <2>0. TaskOk(t)
    BY DEF TaskInv
  <2>1. ResultTold(t)'
    BY <1>0, <2>0 DEF TaskOk, ResultTold, Moved, Closed
  <2>2. Locked(t)'
    <3> SUFFICES ASSUME wb[t].open = TRUE
                 PROVE  \E i \in Ids : changes'[i].status \in Transport /\ Carries(t, changes[i].batch)'
      BY <1>0 DEF Locked
    <3>1. PICK i \in Ids : changes[i].status \in Transport /\ Carries(t, changes[i].batch)
      BY <2>0 DEF TaskOk, Locked
    <3>2. changes'[i].status \in Transport
      <4>1. CASE i \in S
        BY <3>1, <4>1 DEF Moved
      <4>2. CASE i \notin S
        BY <3>1, <4>2 DEF Moved, Transport, Last
      <4> QED
        BY <4>1, <4>2
    <3>3. PICK b : b = changes[i].batch
      OBVIOUS
    <3>4. Carries(t, b)'
      BY <3>1, <3>3, MovedCarries
    <3>5. changes'[i].batch = b
      BY <3>3 DEF Moved
    <3>6. Carries(t, changes[i].batch)'
      BY <3>4, <3>5 DEF Carries
    <3> QED
      BY <3>2, <3>6
  <2>3. Shown(t)'
    BY <1>0, <2>0 DEF TaskOk, Shown
  <2>4. Linked(t)'
    <3> SUFFICES ASSUME tasks'[t] # "none"
                 PROVE  \E k \in Ids : changes'[k].task = t
      BY <1>0 DEF Linked
    <3>1. CASE tasks[t] # "none"
      <4>1. PICK k \in Ids : changes[k].task = t
        BY <2>0, <3>1 DEF TaskOk, Linked
      <4>2. CASE changes'[k].task = t
        BY <4>2
      <4>3. CASE changes'[k].task # t
        <5>1. k \in S /\ changes[k].status # "uploaded" /\ changes[k].status \in Transport
          BY <4>1, <4>3 DEF Moved
        <5>2. changes[k].task = 0
          BY <5>1 DEF ChangeInv, ChangeOk, NotLinked, Transport
        <5>3. t # 0
          BY DEF IInv, SiteInv
        <5> QED
          BY <4>1, <5>2, <5>3
      <4> QED
        BY <4>2, <4>3
    <3>2. CASE tasks[t] = "none"
      BY <3>2 DEF Moved
    <3> QED
      BY <3>1, <3>2
  <2> QED
    BY <2>1, <2>2, <2>3, <2>4 DEF TaskOk
<1> QED
  BY <1>0, <1>1 DEF TaskInv

LEMMA MovedPrices ==
    ASSUME IInv, ChangeInv, PriceInv, NEW S, Moved(S)
    PROVE  PriceInv'
<1>0. wb' = wb /\ wbPrice' = wbPrice /\ Ids' = Ids
  BY DEF Moved
<1>1. ASSUME NEW p \in Products
      PROVE  Quiet(p)' \/ \E i \in Of(p, Transport)' : Winning(i)'
  <2>1. \A i \in Ids : changes'[i].prod = changes[i].prod /\ changes'[i].new = changes[i].new
    BY DEF Moved, Fixed
  <2>2. CASE \E i \in S : changes[i].prod = p /\ changes'[i].status = "applied"
    <3>1. PICK i \in S : changes[i].prod = p /\ changes'[i].status = "applied"
      BY <2>2
    <3>2. i \in Ids /\ changes[i].status \in Transport /\ wbPrice[p] = changes[i].new
      BY <3>1 DEF Moved
    <3>3. ASSUME NEW j \in Ids, j # i, changes[j].prod = p, changes'[j].status \in Last
          PROVE  ~(j > i)
      <4>1. changes[j].status \notin Transport /\ (j > i => changes[j].status \in {"pending", "failed"})
        BY <3>1, <3>2, <3>3 DEF ChangeInv, ChangeOk, OneInTransport
      <4>2. j \notin S
        BY <4>1 DEF Moved
      <4> QED
        BY <3>3, <4>1, <4>2 DEF Moved, Last
    <3>4. Ids \subseteq Nat
      BY Lengths
    <3>5. i \in Won(p)'
      BY <1>0, <2>1, <3>1, <3>2 DEF Won, Of
    <3>6. ASSUME NEW k \in Won(p)', \A j \in Won(p)' : j <= k
          PROVE  wbPrice'[p] = changes'[k].new
      <4>1. k \in Ids /\ changes[k].prod = p /\ changes'[k].status \in Last
        BY <1>0, <2>1 DEF Won, Of, Last
      <4>2. k >= i
        BY <3>4, <3>5, <3>6, <3>2, <4>1
      <4>3. k = i
        BY <3>2, <3>3, <3>4, <4>1, <4>2
      <4> QED
        BY <1>0, <2>1, <3>2, <4>3
    <3> QED
      BY <3>6 DEF Quiet
  <2>3. CASE ~\E i \in S : changes[i].prod = p /\ changes'[i].status = "applied"
    <3>1. Won(p)' = Won(p)
      <4>1. ASSUME NEW i \in Ids, changes[i].prod = p
            PROVE  changes'[i].status \in Last <=> changes[i].status \in Last
        <5>1. CASE i \in S
          BY <2>3, <4>1, <5>1 DEF Moved, Last, Transport
        <5>2. CASE i \notin S
          BY <5>2 DEF Moved, Last
        <5> QED
          BY <5>1, <5>2
      <4> QED
        BY <1>0, <2>1, <4>1 DEF Won, Of, Last
    <3>2. Quiet(p) => Quiet(p)'
      <4>1. \A i \in Won(p) : i \in Ids
        BY DEF Won, Of
      <4> QED
        BY <1>0, <2>1, <3>1, <4>1 DEF Quiet
    <3>3. CASE Quiet(p)
      BY <3>2, <3>3
    <3>4. CASE ~Quiet(p)
      <4>1. PICK i \in Of(p, Transport) : Winning(i)
        BY <3>4 DEF PriceInv
      <4>2. i \in Ids /\ changes[i].prod = p /\ changes[i].status \in Transport
        BY <4>1 DEF Of
      <4>3. changes'[i].status \in Transport
        <5>1. CASE i \in S
          BY <2>3, <3>4, <4>2, <5>1 DEF Moved
        <5>2. CASE i \notin S
          BY <4>2, <5>2 DEF Moved, Last, Transport
        <5> QED
          BY <5>1, <5>2
      <4>4. i \in Of(p, Transport)'
        BY <1>0, <2>1, <4>2, <4>3 DEF Of
      <4>5. PICK t \in DOMAIN wb : /\ wb[t].open = FALSE /\ changes[i].prod \notin wb[t].bad
                                   /\ Carries(t, changes[i].batch)
        BY <4>1 DEF Winning
      <4>6. PICK b : b = changes[i].batch
        OBVIOUS
      <4>7. Carries(t, b)' /\ changes'[i].batch = b
        BY <4>2, <4>5, <4>6, MovedCarries DEF Moved
      <4>8. Carries(t, changes[i].batch)'
        BY <4>7 DEF Carries
      <4>9. Winning(i)'
        BY <1>0, <2>1, <4>2, <4>5, <4>8 DEF Winning
      <4> QED
        BY <4>4, <4>9
    <3> QED
      BY <3>3, <3>4
  <2> QED
    BY <2>2, <2>3
<1> QED
  BY <1>1 DEF PriceInv

-----------------------------------------------------------------------------
(* The processes.                                                          *)

\* One process moves, the others stay as they are.
Turn(pr) == \A q \in Procs \ {pr} : pc'[q] = pc[q] /\ loc'[q] = loc[q]

LEMMA GotoTurn ==
    ASSUME IInv, NEW pr \in Procs, NEW l, NEW new, Goto(pr, l, new)
    PROVE  pc'[pr] = l /\ loc'[pr] = new /\ Turn(pr)
  BY DEF IInv, LocInv, Goto, Turn

LEMMA DrainEndTurn ==
    ASSUME IInv, NEW pr \in Procs, DrainEnd(pr)
    PROVE  /\ pc'[pr] \in {"through", "idle"} /\ Turn(pr)
           /\ loc'[pr].batch = {} /\ loc'[pr].todo \subseteq loc[pr].todo
           /\ loc'[pr].polls \subseteq loc[pr].polls
<1>1. loc[pr] \in Local
  BY LocalsFit
<1>2. CASE loc[pr].job = "schedule"
  <2>1. Goto(pr, "through", [loc[pr] EXCEPT !.batch = {}, !.task = 0, !.retry = FALSE])
    BY <1>2 DEF DrainEnd
  <2>2. /\ pc'[pr] = "through" /\ Turn(pr)
        /\ loc'[pr] = [loc[pr] EXCEPT !.batch = {}, !.task = 0, !.retry = FALSE]
    BY <2>1, GotoTurn
  <2>3. loc'[pr].batch = {} /\ loc'[pr].todo = loc[pr].todo /\ loc'[pr].polls = loc[pr].polls
    BY <1>1, <2>2 DEF Local
  <2> QED
    BY <2>2, <2>3
<1>3. CASE loc[pr].job # "schedule"
  <2>1. Goto(pr, "idle", Idle)
    BY <1>3 DEF DrainEnd, Return
  <2>2. pc'[pr] = "idle" /\ Turn(pr) /\ loc'[pr] = Idle
    BY <2>1, GotoTurn
  <2> QED
    BY <2>2 DEF Idle
<1> QED
  BY <1>2, <1>3

LEMMA EmptyHolds ==
    ASSUME NEW pr \in Procs, pc'[pr] \notin Busy, loc'[pr].batch = {}
    PROVE  Holds(pr)'
  BY DEF Holds

\* Applied changes stay applied, or are rolled back.
LastStays == Ids \subseteq Ids' /\ \A i \in Ids : changes[i].status \in Last => changes'[i].status \in Last

LEMMA TodoShrinks ==
    ASSUME IInv, TodoInv, LastStays,
           \A t \in DOMAIN wb : tasks[t] # "none" => tasks'[t] # "none",
           \A pr \in Procs : /\ loc'[pr].todo \subseteq loc[pr].todo
                             /\ \A t \in loc'[pr].polls : t \in loc[pr].polls \/ tasks'[t] # "none"
    PROVE  TodoInv'
<1>1. \A pr \in Procs : loc[pr].polls \subseteq DOMAIN wb
  BY Lengths, LocalsFit DEF Fits, IInv, SiteInv
<1>2. ASSUME NEW pr \in Procs
      PROVE  \A t \in loc'[pr].polls : tasks'[t] # "none"
  BY <1>1 DEF TodoInv
<1> QED
  BY <1>2 DEF TodoInv, LastStays, Last

LEMMA MovedUntouched ==
    ASSUME IInv, ChangeInv, NEW S, Moved(S), NEW i \in Ids, i \notin S, changes[i].status \in Transport,
           Untouched(changes[i].prod)
    PROVE  Untouched(changes[i].prod)'
<1>0. wb' = wb /\ wbPrice' = wbPrice /\ Ids' = Ids
  BY DEF Moved
<1>1. \A j \in Ids : changes'[j].prod = changes[j].prod /\ changes'[j].new = changes[j].new
  BY DEF Moved, Fixed
<1>2. PICK p : p = changes[i].prod
  OBVIOUS
<1>3. \A j \in Ids : changes[j].prod = p => (changes'[j].status \in Last <=> changes[j].status \in Last)
  <2> SUFFICES ASSUME NEW j \in Ids, changes[j].prod = p
               PROVE  changes'[j].status \in Last <=> changes[j].status \in Last
    OBVIOUS
  <2>1. j # i => changes[j].status \notin Transport
    BY <1>2 DEF ChangeInv, ChangeOk, OneInTransport
  <2>2. j \notin S
    BY <2>1 DEF Moved
  <2> QED
    BY <2>2 DEF Moved, Last
<1>4. Won(p)' = Won(p)
  BY <1>0, <1>1, <1>3 DEF Won, Of, Last
<1>5. \A j \in Won(p) : j \in Ids
  BY DEF Won, Of
<1>6. Untouched(p)'
  BY <1>0, <1>1, <1>2, <1>4, <1>5 DEF Untouched, Quiet
<1>7. changes'[i].prod = p
  BY <1>1, <1>2
<1> QED
  BY <1>6, <1>7 DEF Untouched, Quiet, Won, Of

LEMMA MovedHolds ==
    ASSUME IInv, ChangeInv, NEW S, Moved(S), NEW q \in Procs, Holds(q),
           pc'[q] = pc[q], loc'[q] = loc[q], loc[q].batch \cap S = {}
    PROVE  Holds(q)'
<1>0. wb' = wb /\ Ids' = Ids
  BY DEF Moved
<1>1. loc[q].batch \subseteq Ids /\ loc[q].task \in Nat
  BY Lengths, LocalsFit DEF Fits
<1>2. ASSUME NEW i \in loc[q].batch
      PROVE  /\ changes'[i].status = "submitting"
             /\ \A j \in Ids : changes'[j].batch = changes'[i].batch <=> j \in loc[q].batch
             /\ pc[q] = "link" => Carries(loc[q].task, changes[i].batch)'
             /\ pc[q] = "upload" /\ loc[q].retry = FALSE => Untouched(changes[i].prod)'
  <2>1. i \in Ids /\ i \notin S
    BY <1>1
  <2>2. /\ changes[i].status = "submitting"
        /\ \A j \in Ids : changes[j].batch = changes[i].batch <=> j \in loc[q].batch
        /\ pc[q] = "link" => Carries(loc[q].task, changes[i].batch)
        /\ pc[q] = "upload" /\ loc[q].retry = FALSE => Untouched(changes[i].prod)
    BY DEF Holds
  <2>3. changes'[i].status = "submitting"
    BY <2>1, <2>2 DEF Moved, Last
  <2>4. \A j \in Ids : changes'[j].batch = changes[j].batch
    BY DEF Moved
  <2>5. ASSUME pc[q] = "link" PROVE Carries(loc[q].task, changes[i].batch)'
    <3>1. loc[q].task \in DOMAIN wb
      BY <2>5, LocalsFit, Lengths DEF Fits, IInv, SiteInv
    <3>2. PICK t \in DOMAIN wb : t = loc[q].task
      BY <3>1
    <3>5. PICK b : b = changes[i].batch
      OBVIOUS
    <3>3. Carries(t, b)'
      BY <2>2, <2>5, <3>2, <3>5, MovedCarries
    <3>4. loc'[q].task = t /\ changes'[i].batch = b
      BY <2>1, <2>4, <3>2, <3>5
    <3> QED
      BY <3>3, <3>4 DEF Carries
  <2>6. ASSUME pc[q] = "upload" /\ loc[q].retry = FALSE PROVE Untouched(changes[i].prod)'
    BY <2>1, <2>2, <2>6, MovedUntouched DEF Transport
  <2> QED
    BY <2>1, <2>2, <2>3, <2>4, <2>5, <2>6
<1>3. pc[q] \in Busy <=> loc[q].batch # {}
  BY DEF Holds
<1> QED
  BY <1>0, <1>2, <1>3 DEF Holds

\* The statement of one process.
LEMMA MovedLocks ==
    ASSUME IInv, LockInv, NEW S, Moved(S), NEW pr \in Procs, Turn(pr), Holds(pr)',
           \A q \in Procs \ {pr} : loc[q].batch \cap S = {},
           loc'[pr].batch \subseteq loc[pr].batch \cup S,
           loc'[pr].todo \subseteq loc[pr].todo,
           \A t \in loc'[pr].polls : t \in loc[pr].polls \/ tasks'[t] # "none"
    PROVE  LockInv'
<1>1. ChangeInv' /\ TaskInv' /\ PriceInv'
  BY MovedChanges, MovedTasks, MovedPrices DEF LockInv
<1>2. \A q \in Procs : Holds(q)'
  <2>1. ASSUME NEW q \in Procs \ {pr}
        PROVE  Holds(q)'
    BY MovedHolds DEF LockInv, HoldInv, Turn
  <2> QED
    BY <2>1
<1>3. ASSUME NEW q \in Procs, NEW r \in Procs, q # r
      PROVE  loc'[r].batch \cap loc'[q].batch = {}
  <2>1. loc[r].batch \cap loc[q].batch = {}
    BY <1>3 DEF LockInv, HoldInv
  <2> QED
    BY <1>3, <2>1 DEF Turn
<1>4. TodoInv'
  <2>1. LastStays
    <3>1. ASSUME NEW i \in Ids, changes[i].status \in Last
          PROVE  changes'[i].status \in Last
      <4>1. i \notin S
        BY <3>1 DEF Moved, Last, Transport
      <4> QED
        BY <3>1, <4>1 DEF Moved, Last
    <3> QED
      BY <3>1 DEF LastStays, Moved
  <2>2. \A q \in Procs : /\ loc'[q].todo \subseteq loc[q].todo
                         /\ \A t \in loc'[q].polls : t \in loc[q].polls \/ tasks'[t] # "none"
    BY DEF Turn
  <2>3. \A t \in DOMAIN wb : tasks[t] # "none" => tasks'[t] # "none"
    BY DEF Moved, Closed
  <2> QED
    BY <2>1, <2>2, <2>3, TodoShrinks DEF LockInv
<1> QED
  BY <1>1, <1>2, <1>3, <1>4 DEF LockInv, HoldInv

-----------------------------------------------------------------------------
(* Statements that set a status.                                           *)

LEMMA SetStatusMoved ==
    ASSUME IInv, LockInv, NEW S \in SUBSET Ids, NEW st \in {"submitting", "submit_unknown", "failed"},
           SetStatus(S, st), UNCHANGED <<tasks, wb, wbPrice>>,
           \A i \in S : /\ changes[i].status \in {"submitting", "submit_unknown"}
                        /\ \A j \in Ids : changes[j].batch = changes[i].batch => j \in S
                        /\ st = "failed" => Untouched(changes[i].prod)
    PROVE  Moved(S)
<1>1. \A i \in Ids : changes[i] \in SafeChange
  BY SavedRows DEF IInv, Ids
<1>2. \A i \in Ids : changes'[i] = IF i \in S THEN [changes[i] EXCEPT !.status = st] ELSE changes[i]
  BY DEF SetStatus
<1>3. Ids' = Ids
  BY DEF SetStatus, Ids
<1>4. ASSUME NEW i \in Ids
      PROVE  /\ changes'[i].prod = changes[i].prod
             /\ changes'[i].new = changes[i].new
             /\ changes'[i].entry = changes[i].entry
             /\ changes'[i].undo = changes[i].undo
             /\ changes'[i].batch = changes[i].batch
             /\ changes'[i].task = changes[i].task
             /\ i \in S => changes'[i].status = st
             /\ i \notin S => changes'[i].status = changes[i].status
  <2>1. CASE i \in S
    <3>1. changes'[i] = [changes[i] EXCEPT !.status = st] /\ changes[i] \in SafeChange
      BY <1>1, <1>2, <2>1
    <3> QED
      BY <2>1, <3>1 DEF SafeChange
  <2>2. CASE i \notin S
    BY <1>2, <2>2
  <2> QED
    BY <2>1, <2>2
<1>5. Fixed
  BY <1>3, <1>4 DEF Fixed
<1>6. ASSUME NEW i \in S
      PROVE  /\ changes[i].status \in Transport
             /\ changes'[i].status \in Transport \cup {"applied", "failed"}
             /\ \A j \in Ids : changes[j].batch = changes[i].batch =>
                   /\ j \in S /\ changes'[j].task = changes'[i].task
                   /\ changes'[i].status \in Transport => changes'[j].status = changes'[i].status
             /\ changes'[i].status \in {"submitting", "submit_unknown"} => changes'[i].task = 0
             /\ changes'[i].status # "uploaded" /\ changes'[i].status # "applied"
             /\ changes[i].status # "uploaded"
  <2>1. i \in Ids /\ changes[i].status \in {"submitting", "submit_unknown"} /\ changes'[i].status = st
    BY <1>4
  <2>2. \A j \in Ids : changes[j].batch = changes[i].batch => changes[j].task = changes[i].task
    BY <2>1 DEF LockInv, ChangeInv, ChangeOk, BatchTogether, Transport
  <2>3. changes[i].task = 0
    BY <2>1 DEF LockInv, ChangeInv, ChangeOk, NotLinked
  <2> QED
    BY <1>4, <2>1, <2>2, <2>3 DEF Transport
<1>7. ASSUME NEW i \in S, st = "failed"
      PROVE  /\ Quiet(changes[i].prod)
             /\ \A t \in DOMAIN wb : Carries(t, changes[i].batch) => wb[t].open = FALSE
  <2>1. Untouched(changes[i].prod)
    BY <1>7
  <2>2. ASSUME NEW t \in DOMAIN wb, Carries(t, changes[i].batch)
        PROVE  wb[t].open = FALSE
    <3>1. changes[i].prod \in DOMAIN wb[t].items
      BY <2>2 DEF Carries
    <3>2. wb[t].open # TRUE
      BY <2>1, <3>1 DEF Untouched
    <3>3. wb[t] \in SafeTask
      BY DEF IInv, SiteInv
    <3>4. wb[t].open \in BOOLEAN
      BY <3>3 DEF SafeTask
    <3> QED
      BY <3>2, <3>4
  <2> QED
    BY <2>1, <2>2 DEF Untouched
<1>8. \A i \in Ids : changes'[i].status = "uploaded" => tasks'[changes'[i].task] = "uploaded"
  <2> SUFFICES ASSUME NEW i \in Ids, changes'[i].status = "uploaded"
               PROVE  tasks'[changes'[i].task] = "uploaded"
    OBVIOUS
  <2>1. changes[i].status = "uploaded" /\ changes'[i].task = changes[i].task
    BY <1>4
  <2> QED
    BY <2>1 DEF LockInv, ChangeInv, ChangeOk, UploadedCarried
<1>9. \A i \in S : changes'[i].status = "failed" => st = "failed"
  BY <1>4
<1> QED
  BY <1>3, <1>4, <1>5, <1>6, <1>7, <1>8, <1>9 DEF Moved

LEMMA ClaimUnknownLocks ==
    ASSUME IInv, LockInv, NEW pr \in Procs, ClaimUnknown(pr)
    PROVE  LockInv'
<1>1. PICK b \in {changes[i].batch : i \in Unknown} :
         LET S == {i \in Unknown : changes[i].batch = b}
         IN  /\ SetStatus(S, "submitting")
             /\ Goto(pr, "upload", [loc[pr] EXCEPT !.batch = S, !.retry = TRUE])
  BY DEF ClaimUnknown
<1>2. PICK S \in SUBSET Ids : S = {i \in Unknown : changes[i].batch = b}
  BY DEF Unknown
<1>3. SetStatus(S, "submitting") /\ Goto(pr, "upload", [loc[pr] EXCEPT !.batch = S, !.retry = TRUE])
  BY <1>1, <1>2
<1>4. UNCHANGED <<tasks, wb, wbPrice>>
  BY DEF ClaimUnknown, site
<1>5. PICK k \in Unknown : changes[k].batch = b
  BY <1>1
<1>6. k \in Ids /\ changes[k].status = "submit_unknown"
  BY DEF Unknown
<1>7. \A j \in Ids : changes[j].batch = b => changes[j].status = "submit_unknown"
  BY <1>5, <1>6 DEF LockInv, ChangeInv, ChangeOk, BatchTogether, Transport
<1>8. \A j \in Ids : changes[j].batch = b <=> j \in S
  BY <1>2, <1>7 DEF Unknown
<1>9. \A i \in S : changes[i].status = "submit_unknown" /\ changes[i].batch = b
  BY <1>2 DEF Unknown
<1>10. Moved(S)
  BY <1>3, <1>4, <1>8, <1>9, SetStatusMoved
<1>11. loc[pr] \in Local
  BY LocalsFit
<1>12. /\ pc'[pr] = "upload" /\ Turn(pr)
       /\ loc'[pr] = [loc[pr] EXCEPT !.batch = S, !.retry = TRUE]
  BY <1>3, GotoTurn
<1>13. /\ loc'[pr].batch = S /\ loc'[pr].retry = TRUE /\ loc'[pr].todo = loc[pr].todo
       /\ loc'[pr].polls = loc[pr].polls
  BY <1>11, <1>12 DEF Local
<1>14. \A i \in Ids : changes'[i].batch = changes[i].batch /\ (i \in S => changes'[i].status = "submitting")
  <2>1. \A i \in Ids : changes[i] \in SafeChange
    BY SavedRows DEF IInv, Ids
  <2> QED
    BY <1>3, <2>1 DEF SetStatus, SafeChange
<1>15. k \in S
  BY <1>5, <1>6, <1>8
<1>16. Ids' = Ids
  BY <1>10 DEF Moved
<1>17. Holds(pr)'
  BY <1>8, <1>12, <1>13, <1>14, <1>15, <1>16 DEF Holds, Busy
<1>18. \A q \in Procs : loc[q].batch \cap S = {}
  BY <1>9 DEF LockInv, HoldInv, Holds
<1> QED
  BY <1>10, <1>12, <1>13, <1>17, <1>18, MovedLocks

\* A process that holds a batch, which ends with a status, and the drain with it.
LEMMA SubmittingIsBatch ==
    ASSUME LockInv, IInv, NEW pr \in Procs
    PROVE  /\ Submitting(pr) = loc[pr].batch /\ loc[pr].batch \in SUBSET Ids
           /\ \A q \in Procs \ {pr} : loc[q].batch \cap loc[pr].batch = {}
           /\ \A i \in loc[pr].batch :
                 /\ changes[i].status = "submitting"
                 /\ \A j \in Ids : changes[j].batch = changes[i].batch => j \in loc[pr].batch
<1>1. loc[pr].batch \subseteq Ids
  BY Lengths, LocalsFit DEF Fits
<1>2. Holds(pr)
  BY DEF LockInv, HoldInv
<1> QED
  BY <1>1, <1>2 DEF LockInv, HoldInv, Holds, Submitting

LEMMA EndedLocks ==
    ASSUME IInv, LockInv, NEW pr \in Procs, NEW st \in {"submit_unknown", "failed"},
           SetStatus(Submitting(pr), st), DrainEnd(pr), UNCHANGED <<tasks, wb, wbPrice>>,
           st = "failed" => \A i \in loc[pr].batch : Untouched(changes[i].prod)
    PROVE  LockInv'
<1>1. PICK S \in SUBSET Ids : S = loc[pr].batch
  BY SubmittingIsBatch
<1>2. Moved(S)
  BY <1>1, SubmittingIsBatch, SetStatusMoved
<1>3. /\ Turn(pr) /\ Holds(pr)' /\ loc'[pr].batch = {} /\ loc'[pr].todo \subseteq loc[pr].todo
      /\ loc'[pr].polls \subseteq loc[pr].polls
  BY DrainEndTurn, EmptyHolds DEF Busy
<1> QED
  BY <1>1, <1>2, <1>3, SubmittingIsBatch, MovedLocks

LEMMA MarkUnknownLocks ==
    ASSUME IInv, LockInv, NEW pr \in Procs, MarkUnknown(pr)
    PROVE  LockInv'
  BY EndedLocks DEF MarkUnknown, site

\* A first attempt that is refused leaves nothing behind at WB.
LEMMA UploadRefusedLocks ==
    ASSUME IInv, LockInv, RejectRetries = FALSE, NEW pr \in Procs, UploadRefused(pr)
    PROVE  LockInv'
<1>1. loc[pr].retry \in BOOLEAN
  BY LocalsFit DEF Local
<1>2. pc[pr] = "upload" /\ loc[pr].retry = FALSE
  BY <1>1 DEF UploadRefused
<1>3. \A i \in loc[pr].batch : Untouched(changes[i].prod)
  BY <1>2 DEF LockInv, HoldInv, Holds
<1> QED
  BY <1>3, EndedLocks DEF UploadRefused, site

-----------------------------------------------------------------------------
(* The results of a task.                                                  *)

MineOf(cs, t) == {i \in DOMAIN cs : cs[i].task = t /\ cs[i].status = "uploaded"}

LEMMA ResolvedRow ==
    ASSUME NEW cs \in Seq(SafeChange), NEW t, NEW i \in DOMAIN cs
    PROVE  /\ Resolved(cs, t)[i].prod = cs[i].prod
           /\ Resolved(cs, t)[i].new = cs[i].new
           /\ Resolved(cs, t)[i].entry = cs[i].entry
           /\ Resolved(cs, t)[i].undo = cs[i].undo
           /\ Resolved(cs, t)[i].batch = cs[i].batch
           /\ Resolved(cs, t)[i].task = cs[i].task
           /\ i \in MineOf(cs, t) => Resolved(cs, t)[i].status =
                                       IF cs[i].prod \in wb[t].bad THEN "failed" ELSE "applied"
           /\ i \notin MineOf(cs, t) =>
                 \/ Resolved(cs, t)[i].status = cs[i].status
                 \/ /\ Resolved(cs, t)[i].status = "rolled_back"
                    /\ \E j \in MineOf(cs, t) : cs[j].undo = i
<1>1. PICK mine : mine = MineOf(cs, t)
  OBVIOUS
<1>2. PICK good : good = {k \in mine : cs[k].prod \notin wb[t].bad}
  OBVIOUS
<1>3. Resolved(cs, t)[i] =
        CASE i \in good -> [cs[i] EXCEPT !.status = "applied"]
          [] i \in mine \ good -> [cs[i] EXCEPT !.status = "failed"]
          [] i \notin mine /\ (\E j \in good : cs[j].undo = i) -> [cs[i] EXCEPT !.status = "rolled_back"]
          [] OTHER -> cs[i]
  BY <1>1, <1>2 DEF Resolved, MineOf
<1>4. cs[i] \in SafeChange
  OBVIOUS
<1>5. ASSUME NEW st
      PROVE  /\ [cs[i] EXCEPT !.status = st].prod = cs[i].prod
             /\ [cs[i] EXCEPT !.status = st].new = cs[i].new
             /\ [cs[i] EXCEPT !.status = st].entry = cs[i].entry
             /\ [cs[i] EXCEPT !.status = st].undo = cs[i].undo
             /\ [cs[i] EXCEPT !.status = st].batch = cs[i].batch
             /\ [cs[i] EXCEPT !.status = st].task = cs[i].task
             /\ [cs[i] EXCEPT !.status = st].status = st
  BY <1>4 DEF SafeChange
<1>6. CASE i \in good
  BY <1>1, <1>2, <1>3, <1>5, <1>6
<1>7. CASE i \in mine \ good
  BY <1>1, <1>2, <1>3, <1>5, <1>7
<1>8. CASE i \notin mine /\ (\E j \in good : cs[j].undo = i)
  <2>1. i \notin good
    BY <1>2, <1>8
  <2>2. Resolved(cs, t)[i] = [cs[i] EXCEPT !.status = "rolled_back"]
    BY <1>3, <1>8, <2>1
  <2> QED
    BY <1>1, <1>2, <1>5, <1>8, <2>2
<1>9. CASE i \notin mine /\ ~(\E j \in good : cs[j].undo = i)
  <2>1. i \notin good
    BY <1>2, <1>9
  <2>2. Resolved(cs, t)[i] = cs[i]
    BY <1>3, <1>9, <2>1
  <2> QED
    BY <1>1, <1>9, <2>2
<1> QED
  BY <1>6, <1>7, <1>8, <1>9

\* What a task that carries a change means for its product.
LEMMA CarriedResult ==
    ASSUME IInv, LockInv, NEW i \in Ids, changes[i].status \in Transport,
           NEW t \in DOMAIN wb, Carries(t, changes[i].batch), wb[t].open = FALSE
    PROVE  /\ \A u \in DOMAIN wb : Carries(u, changes[i].batch) => wb[u].open = FALSE
           /\ changes[i].prod \in DOMAIN wb[t].items
           /\ changes[i].prod \notin wb[t].bad => wbPrice[changes[i].prod] = changes[i].new
           /\ changes[i].prod \in wb[t].bad => Quiet(changes[i].prod)
<1>1. \A u \in DOMAIN wb : Carries(u, changes[i].batch) => u = t
  BY OneCarrier
<1>2. /\ changes[i].prod \in DOMAIN wb[t].items
      /\ wb[t].items[changes[i].prod] = changes[i].new
      /\ \A u \in DOMAIN wb : u > t => changes[i].prod \notin DOMAIN wb[u].items
  BY DEF Carries
<1>3. ASSUME changes[i].prod \notin wb[t].bad
      PROVE  wbPrice[changes[i].prod] = changes[i].new
  <2>1. Shown(t)
    BY DEF LockInv, TaskInv, TaskOk
  <2> QED
    BY <1>2, <1>3, <2>1 DEF Shown
<1>4. ASSUME changes[i].prod \in wb[t].bad
      PROVE  Quiet(changes[i].prod)
  <2>0. changes[i].prod \in Products
    BY SavedRows DEF IInv, Ids, SafeChange
  <2>1. PICK p \in Products : p = changes[i].prod
    BY <2>0
  <2> SUFFICES ASSUME ~Quiet(p) PROVE FALSE
    BY <2>1
  <2>2. PICK k \in Of(p, Transport) : Winning(k)
    BY DEF LockInv, PriceInv
  <2>3. k \in Ids /\ changes[k].prod = p /\ changes[k].status \in Transport
    BY <2>2 DEF Of
  <2>4. k = i
    BY <2>1, <2>3 DEF LockInv, ChangeInv, ChangeOk, OneInTransport
  <2> QED
    BY <1>1, <1>4, <2>2, <2>4 DEF Winning
<1> QED
  BY <1>1, <1>2, <1>3, <1>4

LEMMA PollMoved ==
    ASSUME IInv, LockInv, NEW t \in DOMAIN wb, wb[t].open = FALSE, tasks[t] # "none",
           changes' = Resolved(changes, t), tasks' = [tasks EXCEPT ![t] = TaskResult(t)],
           UNCHANGED <<wb, wbPrice>>
    PROVE  Moved(MineOf(changes, t))
<1> DEFINE S == MineOf(changes, t)
<1>1. changes \in Seq(SafeChange) /\ DOMAIN changes = Ids /\ DOMAIN tasks = DOMAIN wb
  BY DEF IInv, RowsInv, SiteInv, Ids
<1>2. Ids' = Ids
  BY <1>1 DEF Resolved, Ids
<1>3. \A i \in S : i \in Ids /\ changes[i].task = t /\ changes[i].status = "uploaded"
  BY DEF MineOf, Ids
<1>4. \A i \in Ids : i \notin S => ~(changes[i].task = t /\ changes[i].status = "uploaded")
  BY DEF MineOf, Ids
<1>5. ASSUME NEW i \in Ids
      PROVE  /\ changes'[i].prod = changes[i].prod
             /\ changes'[i].new = changes[i].new
             /\ changes'[i].entry = changes[i].entry
             /\ changes'[i].undo = changes[i].undo
             /\ changes'[i].batch = changes[i].batch
             /\ changes'[i].task = changes[i].task
             /\ i \in S => changes'[i].status = IF changes[i].prod \in wb[t].bad THEN "failed" ELSE "applied"
             /\ i \notin S => \/ changes'[i].status = changes[i].status
                              \/ /\ changes'[i].status = "rolled_back"
                                 /\ \E j \in S : changes[j].undo = i
  BY <1>1, ResolvedRow
<1> HIDE DEF S
<1>6. Fixed
  BY <1>2, <1>5 DEF Fixed
<1>7. ASSUME NEW i \in Ids \ S
      PROVE  \/ changes'[i].status = changes[i].status
             \/ changes[i].status \in Last /\ changes'[i].status = "rolled_back"
  <2>1. ASSUME NEW j \in S, changes[j].undo = i
        PROVE  changes[i].status \in Last
    <3>1. UndoneApplied(j)
      BY <1>3 DEF LockInv, ChangeInv, ChangeOk
    <3>2. i # 0
      BY Lengths
    <3> QED
      BY <2>1, <3>1, <3>2 DEF UndoneApplied, Last
  <2> QED
    BY <1>5, <2>1
<1>8. ASSUME NEW i \in S
      PROVE  /\ changes[i].status \in Transport
             /\ changes'[i].status \in {"applied", "failed"}
             /\ \A j \in Ids : changes[j].batch = changes[i].batch =>
                   j \in S /\ changes'[j].task = changes'[i].task
             /\ changes'[i].task = changes[i].task
             /\ \A u \in DOMAIN wb : Carries(u, changes[i].batch) => wb[u].open = FALSE
             /\ changes'[i].status = "applied" => wbPrice[changes[i].prod] = changes[i].new
             /\ changes'[i].status = "failed" => Quiet(changes[i].prod)
  <2>1. i \in Ids /\ changes[i].task = t /\ changes[i].status = "uploaded" /\ changes[i].status \in Transport
    BY <1>3 DEF Transport
  <2>2. Carries(t, changes[i].batch)
    BY <2>1 DEF LockInv, ChangeInv, ChangeOk, UploadedCarried
  <2>3. \A j \in Ids : changes[j].batch = changes[i].batch =>
            changes[j].status = "uploaded" /\ changes[j].task = t
    BY <2>1 DEF LockInv, ChangeInv, ChangeOk, BatchTogether
  <2>4. \A j \in Ids : changes[j].batch = changes[i].batch => j \in S /\ changes'[j].task = t
    BY <1>4, <1>5, <2>3
  <2>5. changes'[i].status = IF changes[i].prod \in wb[t].bad THEN "failed" ELSE "applied"
    BY <1>5, <2>1
  <2> QED
    BY <1>5, <2>1, <2>2, <2>4, <2>5, CarriedResult
<1>9. ASSUME NEW i \in Ids, changes'[i].status = "uploaded"
      PROVE  tasks'[changes'[i].task] = "uploaded"
  <2>1. i \notin S
    BY <1>5, <1>9
  <2>2. changes[i].status = "uploaded" /\ changes[i].task # t /\ changes'[i].task = changes[i].task
    BY <1>4, <1>5, <1>9, <2>1
  <2>3. tasks[changes[i].task] = "uploaded" /\ changes[i].task \in DOMAIN tasks
    BY <1>1, <2>2 DEF LockInv, ChangeInv, ChangeOk, UploadedCarried
  <2> QED
    BY <2>2, <2>3
<1>10. ASSUME NEW u \in DOMAIN wb
       PROVE  \/ tasks'[u] = tasks[u]
              \/ tasks'[u] \in Closed /\ tasks[u] # "none" /\ ResultTold(u)'
  <2>1. CASE u # t
    BY <2>1
  <2>2. CASE u = t
    <3>1. tasks'[t] = TaskResult(t)
      BY <1>1
    <3>2. TaskResult(t) \in Closed
      BY DEF TaskResult, Closed
    <3>3. ResultTold(t)'
      BY <3>1 DEF TaskResult, ResultTold
    <3> QED
      BY <2>2, <3>1, <3>2, <3>3
  <2> QED
    BY <2>1, <2>2
<1>11. S \subseteq Ids
  BY <1>3
<1>12. \A i \in S : changes'[i].status \notin Transport /\ changes'[i].status # "uploaded"
  BY <1>8 DEF Transport
<1>13. Moved(S)
  BY <1>2, <1>5, <1>6, <1>7, <1>8, <1>9, <1>10, <1>11, <1>12 DEF Moved, Transport
<1> QED
  BY <1>13 DEF S

\* The poller's list.
LEMMA PollingTurn ==
    ASSUME IInv, NEW T, Polling(T)
    PROVE  /\ pc'[Worker] \in {"drain", "poll"} /\ Turn(Worker)
           /\ loc'[Worker].batch = {} /\ loc'[Worker].todo = {} /\ loc'[Worker].polls = T
           /\ loc'[Worker].deferred = {}
<1>1. Worker \in Procs
  BY DEF Procs
<1>2. PICK l : l = (IF T = {} THEN "drain" ELSE "poll")
  OBVIOUS
<1>3. Goto(Worker, l, [Idle EXCEPT !.job = "poll", !.polls = T])
  BY <1>2 DEF Polling
<1>4. pc'[Worker] = l /\ Turn(Worker) /\ loc'[Worker] = [Idle EXCEPT !.job = "poll", !.polls = T]
  BY <1>1, <1>3, GotoTurn
<1>5. [Idle EXCEPT !.job = "poll", !.polls = T].batch = {}
      /\ [Idle EXCEPT !.job = "poll", !.polls = T].todo = {}
      /\ [Idle EXCEPT !.job = "poll", !.polls = T].polls = T
      /\ [Idle EXCEPT !.job = "poll", !.polls = T].deferred = {}
  BY DEF Idle
<1> QED
  BY <1>2, <1>4, <1>5

\* Nothing happens to the changes.
LEMMA NoneMoved ==
    ASSUME IInv, LockInv, UNCHANGED <<changes, tasks, wb, wbPrice>>
    PROVE  Moved({})
<1>1. Ids' = Ids
  BY DEF Ids
<1>2. \A i \in Ids : changes[i].status = "uploaded" => tasks[changes[i].task] = "uploaded"
  BY DEF LockInv, ChangeInv, ChangeOk, UploadedCarried
<1> QED
  BY <1>1, <1>2 DEF Moved, Fixed

LEMMA PollLocks ==
    ASSUME IInv, LockInv, NEW t \in DOMAIN tasks, Poll(t)
    PROVE  LockInv'
<1>1. Worker \in Procs /\ DOMAIN wb = DOMAIN tasks
  BY DEF Procs, IInv, RowsInv, SiteInv
<1>2. t \in loc[Worker].polls /\ Polling(loc[Worker].polls \ {t}) /\ UNCHANGED <<wb, wbPrice>>
  BY DEF Poll, site
<1>3. /\ Turn(Worker) /\ Holds(Worker)' /\ loc'[Worker].batch = {} /\ loc'[Worker].todo = {}
      /\ loc'[Worker].polls \subseteq loc[Worker].polls
  BY <1>1, <1>2, PollingTurn, EmptyHolds DEF Busy
<1>4. tasks[t] # "none"
  BY <1>1, <1>2 DEF LockInv, TodoInv
<1>5. CASE /\ ~wb[t].open
           /\ changes' = Resolved(changes, t)
           /\ tasks' = [tasks EXCEPT ![t] = TaskResult(t)]
  <2>1. wb[t].open = FALSE
    <3>1. wb[t] \in SafeTask
      BY <1>1 DEF IInv, SiteInv
    <3> QED
      BY <1>5, <3>1 DEF SafeTask
  <2>2. Moved(MineOf(changes, t))
    BY <1>1, <1>2, <1>4, <1>5, <2>1, PollMoved
  <2>3. ASSUME NEW q \in Procs
        PROVE  loc[q].batch \cap MineOf(changes, t) = {}
    BY SubmittingIsBatch DEF MineOf
  <2> QED
    BY <1>1, <1>3, <2>2, <2>3, MovedLocks
<1>6. CASE UNCHANGED <<changes, tasks, entries>>
  <2>1. Moved({})
    BY <1>2, <1>6, NoneMoved
  <2> QED
    BY <1>1, <1>3, <2>1, MovedLocks
<1> QED
  BY <1>5, <1>6 DEF Poll

LEMMA PollStartLocks ==
    ASSUME IInv, LockInv, PollStart
    PROVE  LockInv'
<1>1. /\ SetStatus(Orphans, "submit_unknown") /\ UNCHANGED <<tasks, wb, wbPrice>>
      /\ Worker \in Procs
  BY DEF PollStart, site, Procs
<1>2. ASSUME NEW i \in Orphans
      PROVE  /\ i \in Ids /\ changes[i].status = "submitting"
             /\ \A pr \in Procs : i \notin loc[pr].batch
             /\ \A j \in Ids : changes[j].batch = changes[i].batch => j \in Orphans
  <2>1. i \in Ids /\ changes[i].status = "submitting" /\ \A pr \in Procs : i \notin loc[pr].batch
    BY DEF Orphans
  <2>2. ASSUME NEW j \in Ids, changes[j].batch = changes[i].batch
        PROVE  j \in Orphans
    <3>1. changes[j].status = "submitting"
      BY <2>1, <2>2 DEF LockInv, ChangeInv, ChangeOk, BatchTogether, Transport
    <3>2. \A pr \in Procs : j \notin loc[pr].batch
      BY <2>1, <2>2, SubmittingIsBatch
    <3> QED
      BY <3>1, <3>2 DEF Orphans
  <2> QED
    BY <2>1, <2>2
<1>3. PICK S \in SUBSET Ids : S = Orphans
  BY <1>2
<1>4. Moved(S)
  BY <1>1, <1>2, <1>3, SetStatusMoved
<1>5. PICK T : T = {t \in DOMAIN tasks : tasks[t] = "uploaded"}
  OBVIOUS
<1>6. Polling(T)
  BY <1>5 DEF PollStart
<1>7. /\ Turn(Worker) /\ Holds(Worker)' /\ loc'[Worker].batch = {} /\ loc'[Worker].todo = {}
      /\ loc'[Worker].polls = T
  BY <1>1, <1>6, PollingTurn, EmptyHolds DEF Busy
<1>8. \A q \in Procs : loc[q].batch \cap S = {}
  BY <1>2, <1>3
<1>9. \A t \in T : tasks'[t] # "none"
  BY <1>1, <1>5
<1> QED
  BY <1>1, <1>4, <1>7, <1>8, <1>9, MovedLocks

-----------------------------------------------------------------------------
(* Link.                                                                   *)

\* The rows after Link: those of the batch are linked to t, and get its result
\* if WB has told one.
LinkedRow(i, S, t, st) ==
    /\ i \in S => /\ changes'[i].task = t
                  /\ st = "uploaded" => changes'[i].status = "uploaded"
                  /\ st = "applied" => changes'[i].status = "applied"
                  /\ st = "failed" => changes'[i].status = "failed"
                  /\ st = "partial" => changes'[i].status = IF changes[i].prod \in wb[t].bad
                                                            THEN "failed" ELSE "applied"
    /\ i \notin S => /\ changes'[i].task = changes[i].task
                     /\ \/ changes'[i].status = changes[i].status
                        \/ /\ changes'[i].status = "rolled_back" /\ st = "partial"
                           /\ \E j \in S : changes[j].undo = i

LinkStep(S, t, st) ==
    /\ st = (IF tasks[t] = "none" THEN "uploaded" ELSE tasks[t])
    /\ tasks' = [tasks EXCEPT ![t] = st]
    /\ Ids' = Ids /\ Fixed
    /\ \A i \in Ids : changes'[i].batch = changes[i].batch /\ LinkedRow(i, S, t, st)

LEMMA LinkRows ==
    ASSUME IInv, LockInv, NEW pr \in Procs, Link(pr),
           NEW S \in SUBSET Ids, S = loc[pr].batch, NEW t \in DOMAIN wb, t = loc[pr].task
    PROVE  \E st \in {"uploaded", "applied", "partial", "failed"} : LinkStep(S, t, st)
<1>1. PICK st : st = IF tasks[t] = "none" THEN "uploaded" ELSE tasks[t]
  OBVIOUS
<1>2. st \in {"uploaded", "applied", "partial", "failed"} /\ DOMAIN tasks = DOMAIN wb
  BY <1>1 DEF IInv, RowsInv, SiteInv, TaskStatus
<1>3. PICK ls \in {"uploaded", "applied", "failed"} :
         /\ ls = LinkedStatus(st)
         /\ st \in {"uploaded", "partial"} => ls = "uploaded"
         /\ st \in {"applied", "failed"} => ls = st
  BY <1>2 DEF LinkedStatus
<1>4. PICK cs : cs = [i \in Ids |-> IF i \in S THEN [changes[i] EXCEPT !.task = t, !.status = ls]
                                    ELSE changes[i]]
  OBVIOUS
<1>5. Submitting(pr) = S
  BY SubmittingIsBatch
<1>6. /\ tasks' = [tasks EXCEPT ![t] = st]
      /\ changes' = IF st = "partial" THEN Resolved(cs, t) ELSE cs
  BY <1>1, <1>3, <1>4, <1>5 DEF Link
<1>7. \A i \in Ids : changes[i] \in SafeChange
  BY SavedRows DEF IInv, Ids
<1>8. t \in Nat
  BY DEF IInv, SiteInv
<1>9. ASSUME NEW i \in Ids
      PROVE  /\ cs[i].prod = changes[i].prod
             /\ cs[i].new = changes[i].new
             /\ cs[i].entry = changes[i].entry
             /\ cs[i].undo = changes[i].undo
             /\ cs[i].batch = changes[i].batch
             /\ i \in S => cs[i].task = t /\ cs[i].status = ls
             /\ i \notin S => cs[i].task = changes[i].task /\ cs[i].status = changes[i].status
             /\ cs[i] \in SafeChange
  <2>1. CASE i \in S
    <3>1. cs[i] = [changes[i] EXCEPT !.task = t, !.status = ls] /\ changes[i] \in SafeChange
      BY <1>4, <1>7, <2>1
    <3>2. ls \in ChangeStatus
      BY Statuses
    <3>3. \A u \in Nat : [changes[i] EXCEPT !.task = u, !.status = ls] \in SafeChange
      BY <3>1, <3>2, RowUpdates
    <3>4. cs[i] \in SafeChange
      BY <1>8, <3>1, <3>3
    <3> QED
      BY <2>1, <3>1, <3>4 DEF SafeChange
  <2>2. CASE i \notin S
    BY <1>4, <1>7, <2>2
  <2> QED
    BY <2>1, <2>2
<1>10. DOMAIN cs = Ids
  BY <1>4
<1>11. cs \in Seq(SafeChange)
  <2>1. changes \in Seq(SafeChange) /\ DOMAIN changes = Ids
    BY DEF IInv, RowsInv, Ids
  <2>2. cs = [i \in DOMAIN changes |-> cs[i]]
    BY <1>4, <2>1
  <2> QED
    BY <1>9, <2>1, <2>2, Replaced
<1>12. CASE st # "partial"
  <2>1. changes' = cs
    BY <1>6, <1>12
  <2>2. Ids' = Ids
    BY <1>10, <2>1 DEF Ids
  <2>3. Fixed
    BY <1>9, <2>1, <2>2 DEF Fixed
  <2>4. \A i \in Ids : changes'[i].batch = changes[i].batch /\ LinkedRow(i, S, t, st)
    BY <1>2, <1>3, <1>9, <1>12, <2>1 DEF LinkedRow
  <2> QED
    BY <1>1, <1>2, <1>6, <2>2, <2>3, <2>4 DEF LinkStep
<1>13. CASE st = "partial"
  <2>1. changes' = Resolved(cs, t)
    BY <1>6, <1>13
  <2>2. Ids' = Ids
    BY <1>10, <2>1 DEF Ids, Resolved
  <2>3. MineOf(cs, t) = S
    <3>1. \A i \in S : i \in MineOf(cs, t)
      BY <1>3, <1>9, <1>10, <1>13 DEF MineOf
    <3>2. ASSUME NEW i \in MineOf(cs, t), i \notin S
          PROVE  FALSE
      <4>1. i \in Ids /\ changes[i].status = "uploaded" /\ changes[i].task = t
        BY <1>9, <1>10, <3>2 DEF MineOf
      <4>2. tasks[t] = "uploaded"
        BY <4>1 DEF LockInv, ChangeInv, ChangeOk, UploadedCarried
      <4> QED
        BY <1>1, <1>13, <4>2
    <3> QED
      BY <3>1, <3>2
  <2>4. \A i \in Ids : LET r == Resolved(cs, t)[i] IN
           /\ r.prod = cs[i].prod
           /\ r.new = cs[i].new
           /\ r.entry = cs[i].entry
           /\ r.undo = cs[i].undo
           /\ r.batch = cs[i].batch
           /\ r.task = cs[i].task
           /\ i \in S => r.status = IF cs[i].prod \in wb[t].bad THEN "failed" ELSE "applied"
           /\ i \notin S => \/ r.status = cs[i].status
                            \/ r.status = "rolled_back" /\ \E j \in S : cs[j].undo = i
    BY <1>10, <1>11, <2>3, ResolvedRow
  <2>5. Fixed
    BY <1>9, <2>1, <2>2, <2>4 DEF Fixed
  <2>6. ASSUME NEW i \in Ids
        PROVE  changes'[i].batch = changes[i].batch /\ LinkedRow(i, S, t, st)
    <3>1. CASE i \in S
      BY <1>9, <1>13, <2>1, <2>4, <3>1 DEF LinkedRow
    <3>2. CASE i \notin S
      BY <1>9, <1>13, <2>1, <2>4, <3>2 DEF LinkedRow
    <3> QED
      BY <3>1, <3>2
  <2> QED
    BY <1>1, <1>2, <1>6, <2>2, <2>5, <2>6 DEF LinkStep
<1> QED
  BY <1>12, <1>13

LEMMA LinkMoved ==
    ASSUME IInv, LockInv, NEW pr \in Procs, Link(pr),
           NEW S \in SUBSET Ids, S = loc[pr].batch, NEW t \in DOMAIN wb, t = loc[pr].task,
           NEW st \in {"uploaded", "applied", "partial", "failed"}, LinkStep(S, t, st)
    PROVE  Moved(S)
<1>0. /\ pc[pr] = "link" /\ UNCHANGED <<wb, wbPrice>>
      /\ DOMAIN tasks = DOMAIN wb
  <2>1. pc[pr] = "link" /\ UNCHANGED <<wb, wbPrice>>
    BY DEF Link, site
  <2>2. DOMAIN tasks = DOMAIN wb
    BY DEF IInv, RowsInv, SiteInv
  <2> QED
    BY <2>1, <2>2
<1>1. Holds(pr) /\ pc[pr] \in Busy
  BY <1>0 DEF LockInv, HoldInv, Busy
<1>2. S # {} /\ \A i \in S : Carries(t, changes[i].batch)
  BY <1>0, <1>1 DEF Holds
<1>3. \A i \in S : /\ changes[i].status = "submitting"
                   /\ \A j \in Ids : changes[j].batch = changes[i].batch => j \in S
  BY SubmittingIsBatch
<1>4. ResultTold(t)
  BY DEF LockInv, TaskInv, TaskOk
<1>5. Ids' = Ids /\ Fixed /\ \A i \in Ids : changes'[i].batch = changes[i].batch /\ LinkedRow(i, S, t, st)
  BY DEF LinkStep
<1>6. ASSUME NEW i \in Ids \ S
      PROVE  /\ changes'[i].task = changes[i].task
             /\ \/ changes'[i].status = changes[i].status
                \/ changes[i].status \in Last /\ changes'[i].status = "rolled_back"
  <2>1. ASSUME NEW j \in S, changes[j].undo = i
        PROVE  changes[i].status \in Last
    <3>1. UndoneApplied(j)
      BY DEF LockInv, ChangeInv, ChangeOk
    <3>2. i # 0
      BY Lengths
    <3> QED
      BY <2>1, <3>1, <3>2 DEF UndoneApplied, Last
  <2> QED
    BY <1>5, <2>1 DEF LinkedRow
<1>7. st # "uploaded" => tasks[t] = st /\ wb[t].open = FALSE
  BY <1>4 DEF LinkStep, ResultTold, Closed
<1>8. ASSUME NEW i \in S
      PROVE  /\ changes[i].status \in Transport
             /\ changes'[i].status \in Transport \cup {"applied", "failed"}
             /\ \A j \in Ids : changes[j].batch = changes[i].batch =>
                   /\ j \in S /\ changes'[j].task = changes'[i].task
                   /\ changes'[i].status \in Transport => changes'[j].status = changes'[i].status
             /\ changes'[i].status \notin {"submitting", "submit_unknown"}
             /\ changes'[i].status = "uploaded" =>
                   changes'[i].task \in DOMAIN wb /\ Carries(changes'[i].task, changes[i].batch)
             /\ changes[i].status # "uploaded"
             /\ changes'[i].status \in {"applied", "failed"} =>
                   \A u \in DOMAIN wb : Carries(u, changes[i].batch) => wb[u].open = FALSE
             /\ changes'[i].status = "applied" => wbPrice[changes[i].prod] = changes[i].new
             /\ changes'[i].status = "failed" => Quiet(changes[i].prod)
  <2>1. changes[i].status = "submitting" /\ Carries(t, changes[i].batch) /\ changes'[i].task = t
        /\ \A j \in Ids : changes[j].batch = changes[i].batch => j \in S
    BY <1>2, <1>3, <1>5 DEF LinkedRow
  <2>2. CASE st = "uploaded"
    <3>1. \A j \in S : changes'[j].status = "uploaded" /\ changes'[j].task = t
      BY <1>5, <2>2 DEF LinkedRow
    <3> QED
      BY <2>1, <3>1 DEF Transport
  <2>3. CASE st # "uploaded"
    <3>1. \A j \in S : changes'[j].status \in {"applied", "failed"} /\ changes'[j].task = t
      BY <1>5, <2>3 DEF LinkedRow
    <3>2. /\ \A u \in DOMAIN wb : Carries(u, changes[i].batch) => wb[u].open = FALSE
          /\ changes[i].prod \in DOMAIN wb[t].items
          /\ changes[i].prod \notin wb[t].bad => wbPrice[changes[i].prod] = changes[i].new
          /\ changes[i].prod \in wb[t].bad => Quiet(changes[i].prod)
      <4>1. changes[i].status \in Transport
        BY <2>1 DEF Transport
      <4> QED
        BY <1>7, <2>1, <2>3, <4>1, CarriedResult
    <3>3. /\ st = "applied" => wb[t].bad = {}
          /\ st = "failed" => wb[t].bad = DOMAIN wb[t].items
      BY <1>4, <1>7 DEF ResultTold
    <3>4. /\ changes'[i].status = "applied" => changes[i].prod \notin wb[t].bad
          /\ changes'[i].status = "failed" => changes[i].prod \in wb[t].bad
      BY <1>5, <2>3, <3>2, <3>3 DEF LinkedRow
    <3> QED
      BY <2>1, <3>1, <3>2, <3>4 DEF Transport
  <2> QED
    BY <2>2, <2>3
<1>9. ASSUME NEW i \in Ids, changes'[i].status = "uploaded"
      PROVE  tasks'[changes'[i].task] = "uploaded"
  <2>1. CASE i \in S
    <3>1. st = "uploaded" /\ changes'[i].task = t
      BY <1>5, <1>9, <2>1 DEF LinkedRow
    <3> QED
      BY <1>0, <3>1 DEF LinkStep
  <2>2. CASE i \notin S
    <3>1. changes[i].status = "uploaded" /\ changes'[i].task = changes[i].task
      BY <1>6, <1>9, <2>2
    <3>2. tasks[changes[i].task] = "uploaded" /\ changes[i].task \in DOMAIN tasks
      BY <1>0, <3>1 DEF LockInv, ChangeInv, ChangeOk, UploadedCarried
    <3> QED
      BY <3>1, <3>2 DEF LinkStep
  <2> QED
    BY <2>1, <2>2
<1>10. ASSUME NEW u \in DOMAIN wb
       PROVE  \/ tasks'[u] = tasks[u]
              \/ tasks'[u] = "uploaded" /\ \E k \in Ids : changes'[k].task = u
  <2>1. CASE u # t
    BY <2>1 DEF LinkStep
  <2>2. CASE u = t
    <3>1. \E k \in Ids : changes'[k].task = t
      BY <1>2, <1>5 DEF LinkedRow
    <3> QED
      BY <1>0, <2>2, <3>1 DEF LinkStep
  <2> QED
    BY <2>1, <2>2
<1> QED
  BY <1>0, <1>5, <1>6, <1>8, <1>9, <1>10 DEF Moved

LEMMA LinkLocks ==
    ASSUME IInv, LockInv, NEW pr \in Procs, Link(pr)
    PROVE  LockInv'
<1>1. pc[pr] = "link" /\ loc[pr] \in Local
  BY LocalsFit DEF Link
<1>2. PICK t \in DOMAIN wb : t = loc[pr].task
  BY <1>1, Lengths, LocalsFit DEF Fits, IInv, SiteInv
<1>3. PICK S \in SUBSET Ids : S = loc[pr].batch
  BY SubmittingIsBatch
<1>4. PICK st \in {"uploaded", "applied", "partial", "failed"} : LinkStep(S, t, st)
  BY <1>2, <1>3, LinkRows
<1>5. Moved(S)
  BY <1>2, <1>3, <1>4, LinkMoved
<1>6. \/ DrainEnd(pr)
      \/ Goto(pr, "drain", [loc[pr] EXCEPT !.batch = {}, !.task = 0, !.retry = FALSE])
  BY DEF Link
<1>7. /\ Turn(pr) /\ pc'[pr] \notin Busy /\ loc'[pr].batch = {}
      /\ loc'[pr].todo \subseteq loc[pr].todo /\ loc'[pr].polls \subseteq loc[pr].polls
  <2>1. CASE DrainEnd(pr)
    BY <2>1, DrainEndTurn DEF Busy
  <2>2. CASE Goto(pr, "drain", [loc[pr] EXCEPT !.batch = {}, !.task = 0, !.retry = FALSE])
    <3>1. /\ pc'[pr] = "drain" /\ Turn(pr)
          /\ loc'[pr] = [loc[pr] EXCEPT !.batch = {}, !.task = 0, !.retry = FALSE]
      BY <2>2, GotoTurn
    <3>2. loc'[pr].batch = {} /\ loc'[pr].todo = loc[pr].todo /\ loc'[pr].polls = loc[pr].polls
      BY <1>1, <3>1 DEF Local
    <3> QED
      BY <3>1, <3>2 DEF Busy
  <2> QED
    BY <1>6, <2>1, <2>2
<1>8. Holds(pr)'
  BY <1>7, EmptyHolds
<1> QED
  BY <1>3, <1>5, <1>7, <1>8, SubmittingIsBatch, MovedLocks

-----------------------------------------------------------------------------
(* Steps that leave the changes and WB alone.                              *)

LEMMA StayLocks ==
    ASSUME IInv, LockInv, UNCHANGED <<changes, tasks, wb, wbPrice>>,
           NEW pr \in Procs, Turn(pr), pc'[pr] \notin Busy, loc'[pr].batch = {},
           \A it \in loc'[pr].todo : it \in loc[pr].todo \/ it.undo = 0
              \/ (it.undo \in Ids /\ changes[it.undo].status \in Last),
           \A t \in loc'[pr].polls : t \in loc[pr].polls
    PROVE  LockInv'
<1>1. Moved({})
  BY NoneMoved
<1>2. ChangeInv' /\ TaskInv' /\ PriceInv'
  BY <1>1, MovedChanges, MovedTasks, MovedPrices DEF LockInv
<1>3. \A q \in Procs : Holds(q)'
  <2>1. ASSUME NEW q \in Procs \ {pr}
        PROVE  Holds(q)'
    BY <1>1, MovedHolds DEF LockInv, HoldInv, Turn
  <2> QED
    BY <2>1, EmptyHolds
<1>4. ASSUME NEW q \in Procs, NEW r \in Procs, q # r
      PROVE  loc'[r].batch \cap loc'[q].batch = {}
  <2>1. loc[r].batch \cap loc[q].batch = {}
    BY <1>4 DEF LockInv, HoldInv
  <2> QED
    BY <1>4, <2>1 DEF Turn
<1>5. TodoInv'
  <2>1. ASSUME NEW q \in Procs
        PROVE  /\ \A it \in loc'[q].todo :
                     it.undo # 0 => it.undo \in Ids /\ changes[it.undo].status \in Last
               /\ \A t \in loc'[q].polls : tasks[t] # "none"
    BY DEF LockInv, TodoInv, Turn, Last
  <2> QED
    BY <2>1 DEF TodoInv, Ids, Last
<1> QED
  BY <1>2, <1>3, <1>4, <1>5 DEF LockInv, HoldInv

\* Nobody moves.
LEMMA StillLocks ==
    ASSUME IInv, LockInv, UNCHANGED <<changes, tasks, wb, wbPrice, pc, loc>>
    PROVE  LockInv'
  BY DEF LockInv, ChangeInv, ChangeOk, PendingLatest, BatchNamed, BatchTogether, OneInTransport,
         UploadedCarried, UndoneApplied, NotLinked, HoldInv, Holds, Untouched, Quiet, Won, Of, Carries,
         TodoInv, TaskInv, TaskOk, ResultTold, Locked, Shown, Linked, PriceInv, Winning, Ids

\* A request or a job that begins or goes on with new intents.
LEMMA GotoLocks ==
    ASSUME IInv, LockInv, UNCHANGED <<changes, tasks, wb, wbPrice>>,
           NEW pr \in Procs, NEW l, l \notin Busy, NEW new, Goto(pr, l, new), new.batch = {},
           new.polls \subseteq loc[pr].polls,
           \A it \in new.todo : it \in loc[pr].todo \/ it.undo = 0
              \/ (it.undo \in Ids /\ changes[it.undo].status \in Last)
    PROVE  LockInv'
  BY GotoTurn, StayLocks

LEMMA IdleFields ==
    /\ Idle.batch = {} /\ Idle.polls = {} /\ Idle.todo = {} /\ Idle.deferred = {}
    /\ \A j, T : LET me == [Idle EXCEPT !.job = j, !.todo = T]
                 IN  me.batch = {} /\ me.polls = {} /\ me.todo = T /\ me.deferred = {}
    /\ \A j, e : LET me == [Idle EXCEPT !.job = j, !.entry = e]
                 IN  me.batch = {} /\ me.polls = {} /\ me.todo = {} /\ me.deferred = {}
    /\ \A j, r : LET me == [Idle EXCEPT !.job = j, !.read = r]
                 IN  me.batch = {} /\ me.polls = {} /\ me.todo = {} /\ me.deferred = {}
    /\ \A j, D : LET me == [Idle EXCEPT !.job = j, !.deferred = D]
                 IN  me.batch = {} /\ me.polls = {} /\ me.todo = {} /\ me.deferred = D
  BY DEF Idle

\* The locals of a process that holds no batch.
LEMMA OngoingFields ==
    ASSUME IInv, LockInv, NEW pr \in Procs, pc[pr] \notin Busy
    PROVE  /\ loc[pr].batch = {}
           /\ \A T : LET me == [loc[pr] EXCEPT !.todo = T]
                     IN  me.batch = {} /\ me.polls = loc[pr].polls /\ me.todo = T
           /\ LET me == [loc[pr] EXCEPT !.accepted = FALSE]
              IN  me.batch = {} /\ me.polls = loc[pr].polls /\ me.todo = loc[pr].todo
           /\ \A j, e : LET me == [loc[pr] EXCEPT !.job = j, !.entry = e]
                        IN  me.batch = {} /\ me.polls = loc[pr].polls /\ me.todo = loc[pr].todo
<1>1. loc[pr] \in Local
  BY LocalsFit
<1>2. loc[pr].batch = {}
  BY DEF LockInv, HoldInv, Holds
<1> QED
  BY <1>1, <1>2 DEF Local

LEMMA ReturnLocks ==
    ASSUME IInv, LockInv, UNCHANGED <<changes, tasks, wb, wbPrice>>, NEW pr \in Procs, Return(pr)
    PROVE  LockInv'
  BY IdleFields, GotoLocks DEF Return, Busy

LEMMA DrainEndLocks ==
    ASSUME IInv, LockInv, UNCHANGED <<changes, tasks, wb, wbPrice>>, NEW pr \in Procs, DrainEnd(pr)
    PROVE  LockInv'
  BY DrainEndTurn, StayLocks DEF Busy

LEMMA NextEntryLocks ==
    ASSUME IInv, LockInv, UNCHANGED <<changes, tasks, wb, wbPrice>>, NEW D, NextEntry(D)
    PROVE  LockInv'
<1>1. Worker \in Procs
  BY DEF Procs
<1>2. PICK E : E = loc[Worker].deferred \cup D
  OBVIOUS
<1>3. Goto(Worker, "due", [Idle EXCEPT !.job = "schedule", !.deferred = E])
  BY <1>2 DEF NextEntry
<1> QED
  BY <1>1, <1>3, IdleFields, GotoLocks DEF Busy

LEMMA BeginLocks ==
    ASSUME IInv, LockInv, UNCHANGED <<changes, tasks, wb, wbPrice>>, NEW pr \in Procs, NEW j, NEW T,
           Goto(pr, "enqueue", [Idle EXCEPT !.job = j, !.todo = T]),
           \A it \in T : it.undo = 0 \/ (it.undo \in Ids /\ changes[it.undo].status \in Last)
    PROVE  LockInv'
<1>1. PICK new : new = [Idle EXCEPT !.job = j, !.todo = T]
  OBVIOUS
<1>2. new.batch = {} /\ new.polls = {} /\ new.todo = T
  BY <1>1, IdleFields
<1>3. Goto(pr, "enqueue", new) /\ "enqueue" \notin Busy
  BY <1>1 DEF Busy
<1> QED
  BY <1>2, <1>3, GotoLocks

LEMMA IntentFields ==
    ASSUME NEW p, NEW old, NEW new, NEW e, NEW u, NEW f
    PROVE  /\ Intent(p, old, new, e, u, f).prod = p
           /\ Intent(p, old, new, e, u, f).entry = e
           /\ Intent(p, old, new, e, u, f).undo = u
  BY DEF Intent

LEMMA RequestFields ==
    ASSUME NEW S, NEW v, NEW e, NEW floors
    PROVE  \A it \in RequestIntents(S, v, e, floors) : it.entry = e /\ it.undo = 0
  BY IntentFields DEF RequestIntents

LEMMA StrategyFields ==
    ASSUME NEW price, NEW S, NEW econ, NEW blind, NEW todo \in StrategyIntents(price, S, econ, blind)
    PROVE  \A it \in todo : it.entry = None /\ it.undo = 0
  BY IntentFields DEF StrategyIntents

LEMMA RevertFields ==
    ASSUME NEW e, NEW floors
    PROVE  \A it \in RevertIntents(e, floors) : it.entry = e /\ it.undo = 0
  BY IntentFields DEF RevertIntents

LEMMA RequestsLock ==
    ASSUME IInv, LockInv, NEW a \in Apis, NEW e,
           Bulk(a) \/ Rollback(a) \/ CancelRead(a, e) \/ CancelWrite(a)
    PROVE  LockInv'
<1>1. a \in Procs
  BY DEF Procs
<1>2. CASE Bulk(a)
  <2>1. UNCHANGED <<changes, tasks, wb, wbPrice>>
    BY <1>2 DEF Bulk, rows, site
  <2>2. PICK S \in SUBSET Products, v \in Targets, floors \in MarginFloors :
           Goto(a, "enqueue", [Idle EXCEPT !.job = "manual", !.todo = RequestIntents(S, v, None, floors)])
    BY <1>2 DEF Bulk
  <2>3. PICK T : T = RequestIntents(S, v, None, floors)
    OBVIOUS
  <2>4. \A it \in T : it.undo = 0
    BY <2>3, RequestFields
  <2>5. Goto(a, "enqueue", [Idle EXCEPT !.job = "manual", !.todo = T])
    BY <2>2, <2>3
  <2> QED
    BY <1>1, <2>1, <2>4, <2>5, BeginLocks
<1>3. CASE Rollback(a)
  <2>1. UNCHANGED <<changes, tasks, wb, wbPrice>>
    BY <1>3 DEF Rollback, rows, site
  <2>2. PICK i \in Ids, blind \in BOOLEAN :
           /\ CanRollback(i, blind)
           /\ Goto(a, "enqueue", [Idle EXCEPT !.job = "rollback", !.todo = {Undoing(i)}])
    BY <1>3 DEF Rollback, Undoing
  <2>3. changes[i].status \in Last
    BY <2>2 DEF CanRollback, Last
  <2>4. PICK T : T = {Undoing(i)}
    OBVIOUS
  <2>5. \A it \in T : it.undo = i
    BY <2>4, IntentFields DEF Undoing
  <2>6. Goto(a, "enqueue", [Idle EXCEPT !.job = "rollback", !.todo = T])
    BY <2>2, <2>4
  <2> QED
    BY <1>1, <2>1, <2>3, <2>5, <2>6, BeginLocks
<1>4. CASE CancelRead(a, e)
  <2>1. UNCHANGED <<changes, tasks, wb, wbPrice>>
    BY <1>4 DEF CancelRead, rows, site
  <2>2. PICK new : new = [Idle EXCEPT !.job = "cancel", !.entry = e]
    OBVIOUS
  <2>3. Goto(a, "cancel", new) /\ "cancel" \notin Busy
    BY <1>4, <2>2 DEF CancelRead, Busy
  <2>4. new.batch = {} /\ new.polls = {} /\ new.todo = {}
    BY <2>2, IdleFields
  <2> QED
    BY <1>1, <2>1, <2>3, <2>4, GotoLocks
<1>5. CASE CancelWrite(a)
  BY <1>1, <1>5, ReturnLocks DEF CancelWrite, site
<1> QED
  BY <1>2, <1>3, <1>4, <1>5

LEMMA JobsLock ==
    ASSUME IInv, LockInv, SyncRead \/ SyncStore \/ ScheduleEnd \/ EntryEnd
    PROVE  LockInv'
<1>1. Worker \in Procs
  BY DEF Procs
<1>2. CASE SyncRead
  <2>1. UNCHANGED <<changes, tasks, wb, wbPrice>>
    BY <1>2 DEF SyncRead, rows, site
  <2>2. PICK new : new = [Idle EXCEPT !.job = "reprice", !.read = wbPrice]
    OBVIOUS
  <2>3. Goto(Worker, "store", new) /\ "store" \notin Busy
    BY <1>2, <2>2 DEF SyncRead, Busy
  <2>4. new.batch = {} /\ new.polls = {} /\ new.todo = {}
    BY <2>2, IdleFields
  <2> QED
    BY <1>1, <2>1, <2>3, <2>4, GotoLocks
<1>3. CASE SyncStore
  <2>1. UNCHANGED <<changes, tasks, wb, wbPrice>>
    BY <1>3 DEF SyncStore, rows, site
  <2>2. CASE Return(Worker)
    BY <1>1, <2>1, <2>2, ReturnLocks
  <2>3. CASE ~Return(Worker)
    <3>1. PICK price, S, econ, blind : \E todo \in StrategyIntents(price, S, econ, blind) :
             Goto(Worker, "enqueue", [Idle EXCEPT !.job = "reprice", !.todo = todo])
      BY <1>3, <2>3 DEF SyncStore
    <3>2. PICK todo \in StrategyIntents(price, S, econ, blind) :
             Goto(Worker, "enqueue", [Idle EXCEPT !.job = "reprice", !.todo = todo])
      BY <3>1
    <3>3. \A it \in todo : it.undo = 0
      BY StrategyFields
    <3> QED
      BY <1>1, <2>1, <3>2, <3>3, BeginLocks
  <2> QED
    BY <2>2, <2>3
<1>4. CASE ScheduleEnd
  BY <1>1, <1>4, ReturnLocks DEF ScheduleEnd, site
<1>5. CASE EntryEnd
  BY <1>5, NextEntryLocks DEF EntryEnd, site
<1> QED
  BY <1>2, <1>3, <1>4, <1>5

LEMMA FailEntryLocks ==
    ASSUME IInv, LockInv, UNCHANGED <<changes, tasks, wb, wbPrice>>, NEW e, FailEntry(e)
    PROVE  LockInv'
  BY NextEntryLocks DEF FailEntry

LEMMA TodoLocks ==
    ASSUME IInv, LockInv, UNCHANGED <<changes, tasks, wb, wbPrice>>, NEW pr \in Procs,
           pc[pr] \notin Busy, NEW T, Goto(pr, "enqueue", [loc[pr] EXCEPT !.todo = T]),
           \A it \in T : it \in loc[pr].todo \/ it.undo = 0
    PROVE  LockInv'
<1>1. PICK new : new = [loc[pr] EXCEPT !.todo = T]
  OBVIOUS
<1>2. new.batch = {} /\ new.polls = loc[pr].polls /\ new.todo = T
  BY <1>1, OngoingFields
<1>3. Goto(pr, "enqueue", new) /\ "enqueue" \notin Busy
  BY <1>1 DEF Busy
<1> QED
  BY <1>2, <1>3, GotoLocks

LEMMA SaveEntryLocks ==
    ASSUME IInv, LockInv, UNCHANGED <<changes, tasks, wb, wbPrice>>, pc[Worker] \notin Busy,
           NEW e, NEW T, \A it \in T : it.undo = 0, SaveEntry(e, T)
    PROVE  LockInv'
<1>1. Worker \in Procs
  BY DEF Procs
<1>2. CASE T = {}
  BY <1>2, FailEntryLocks DEF SaveEntry
<1>3. CASE T # {}
  <2>1. Goto(Worker, "enqueue", [loc[Worker] EXCEPT !.todo = T])
    BY <1>3 DEF SaveEntry
  <2> QED
    BY <1>1, <2>1, TodoLocks
<1> QED
  BY <1>2, <1>3

LEMMA ExecuteLocks ==
    ASSUME IInv, LockInv, Execute
    PROVE  LockInv'
<1>1. UNCHANGED <<changes, tasks, wb, wbPrice>> /\ pc[Worker] \notin Busy
  BY DEF Execute, site, Busy
<1>2. PICK e : e = loc[Worker].entry
  OBVIOUS
<1>3. ExecuteCase(e)
  BY <1>2, ExecuteCases
<1>4. CASE NextEntry({e})
  BY <1>1, <1>4, NextEntryLocks
<1>5. CASE FailEntry(e)
  BY <1>1, <1>5, FailEntryLocks
<1>6. ASSUME NEW S, NEW v, NEW floors, SaveEntry(e, RequestIntents(S, v, e, floors))
      PROVE  LockInv'
  BY <1>1, <1>6, RequestFields, SaveEntryLocks
<1>7. ASSUME NEW floors, SaveEntry(e, RevertIntents(e, floors))
      PROVE  LockInv'
  BY <1>1, <1>7, RevertFields, SaveEntryLocks
<1>8. CASE SaveEntry(e, {})
  BY <1>1, <1>8, SaveEntryLocks
<1> QED
  BY <1>3, <1>4, <1>5, <1>6, <1>7, <1>8 DEF ExecuteCase

LEMMA ClaimDueLocks ==
    ASSUME IInv, LockInv, NEW e \in Entries, ClaimDue(e)
    PROVE  LockInv'
<1>1. UNCHANGED <<changes, tasks, wb, wbPrice>> /\ pc[Worker] \notin Busy /\ Worker \in Procs
  BY DEF ClaimDue, site, Busy, Procs
<1>2. PICK new : new = [loc[Worker] EXCEPT !.job = "schedule", !.entry = e]
  OBVIOUS
<1>3. new.batch = {} /\ new.polls = loc[Worker].polls /\ new.todo = loc[Worker].todo
  BY <1>1, <1>2, OngoingFields
<1>4. Goto(Worker, "execute", new) /\ "execute" \notin Busy
  BY <1>2 DEF ClaimDue, Busy
<1> QED
  BY <1>1, <1>3, <1>4, GotoLocks

LEMMA EnqueueEndLocks ==
    ASSUME IInv, LockInv, NEW pr \in Procs, EnqueueEnd(pr)
    PROVE  LockInv'
<1>1. UNCHANGED <<changes, tasks, wb, wbPrice>> /\ pc[pr] \notin Busy
  BY DEF EnqueueEnd, site, Busy
<1>2. \/ Goto(pr, "drain", [loc[pr] EXCEPT !.accepted = FALSE])
      \/ FailEntry(loc[pr].entry)
      \/ Return(pr)
  BY DEF EnqueueEnd
<1>3. CASE Goto(pr, "drain", [loc[pr] EXCEPT !.accepted = FALSE])
  <2>1. PICK new : new = [loc[pr] EXCEPT !.accepted = FALSE]
    OBVIOUS
  <2>2. new.batch = {} /\ new.polls = loc[pr].polls /\ new.todo = loc[pr].todo
    BY <1>1, <2>1, OngoingFields
  <2>3. Goto(pr, "drain", new) /\ "drain" \notin Busy
    BY <1>3, <2>1 DEF Busy
  <2> QED
    BY <1>1, <2>2, <2>3, GotoLocks
<1>4. CASE FailEntry(loc[pr].entry)
  BY <1>1, <1>4, FailEntryLocks
<1>5. CASE Return(pr)
  BY <1>1, <1>5, ReturnLocks
<1> QED
  BY <1>2, <1>3, <1>4, <1>5

\* Nothing to claim, a statement that fails, a death.
LEMMA StopsLock ==
    ASSUME IInv, LockInv, NEW pr \in Procs, ClaimNothing(pr) \/ MarkFails(pr) \/ Crash(pr)
    PROVE  LockInv'
<1>1. UNCHANGED <<changes, tasks, wb, wbPrice>>
  BY DEF ClaimNothing, MarkFails, Crash, rows, site
<1>2. DrainEnd(pr) \/ Return(pr)
  BY DEF ClaimNothing, MarkFails, Crash
<1> QED
  BY <1>1, <1>2, DrainEndLocks, ReturnLocks

LEMMA OthersLock ==
    ASSUME IInv, LockInv,
           \/ \E e \in Entries : CreateSchedule(e)
           \/ CooldownEnds \/ Freeze \/ Unfreeze
           \/ UNCHANGED vars
    PROVE  LockInv'
<1>1. UNCHANGED <<changes, tasks, wb, wbPrice, pc, loc>>
  BY DEF CreateSchedule, CooldownEnds, Freeze, Unfreeze, vars, rows, site
<1> QED
  BY <1>1, StillLocks

-----------------------------------------------------------------------------
(* A change that is saved.                                                 *)

\* EnqueuePriceChange adds a pending change and supersedes the one before.
SavedRow(n, it) ==
    /\ Ids' = Ids \cup {n} /\ n \notin Ids /\ \A i \in Ids : i < n
    /\ Fixed
    /\ changes'[n].prod = it.prod /\ changes'[n].entry = it.entry /\ changes'[n].undo = it.undo
    /\ changes'[n].status = "pending" /\ changes'[n].batch = 0 /\ changes'[n].task = 0
    /\ \A i \in Ids : /\ changes'[i].batch = changes[i].batch
                      /\ changes'[i].task = changes[i].task
                      /\ IF changes[i].prod = it.prod /\ changes[i].status = "pending"
                         THEN changes'[i].status = "failed"
                         ELSE changes'[i].status = changes[i].status

LEMMA SavedIsRow ==
    ASSUME IInv, NEW it, changes' = Saved(it)
    PROVE  \E n \in Nat : SavedRow(n, it)
<1>1. PICK f : f = [i \in Ids |-> IF changes[i].prod = it.prod /\ changes[i].status = "pending"
                                 THEN [changes[i] EXCEPT !.status = "failed"]
                                 ELSE changes[i]]
  OBVIOUS
<1>2. PICK c : c = [prod |-> it.prod, old |-> it.old, new |-> it.new, entry |-> it.entry,
                    undo |-> it.undo, floor |-> it.floor, status |-> "pending", batch |-> 0,
                    task |-> 0]
  OBVIOUS
<1>3. changes' = Append(f, c)
  BY <1>1, <1>2 DEF Saved
<1>4. \A i \in Ids : changes[i] \in SafeChange
  BY SavedRows DEF IInv, Ids
<1>5. PICK n \in Nat : n = Len(changes) + 1
  BY Lengths
<1>6. ASSUME NEW i \in Ids
      PROVE  /\ f[i].prod = changes[i].prod /\ f[i].new = changes[i].new
             /\ f[i].entry = changes[i].entry /\ f[i].undo = changes[i].undo
             /\ f[i].batch = changes[i].batch /\ f[i].task = changes[i].task
             /\ IF changes[i].prod = it.prod /\ changes[i].status = "pending"
                THEN f[i].status = "failed"
                ELSE f[i].status = changes[i].status
  <2>1. changes[i] \in SafeChange
    BY <1>4
  <2>2. CASE changes[i].prod = it.prod /\ changes[i].status = "pending"
    <3>1. f[i] = [changes[i] EXCEPT !.status = "failed"]
      BY <1>1, <2>2
    <3> QED
      BY <2>1, <2>2, <3>1 DEF SafeChange
  <2>3. CASE ~(changes[i].prod = it.prod /\ changes[i].status = "pending")
    BY <1>1, <2>3
  <2> QED
    BY <2>2, <2>3
<1>7. Ids = 1 .. Len(changes) /\ Len(changes) \in Nat
  BY Lengths
<1>8. Len(f) = Len(changes)
  <2>1. DOMAIN f = 1 .. Len(changes)
    BY <1>1, <1>7
  <2>2. \A i \in DOMAIN changes : f[i] \in SafeChange
    BY <1>1, <1>4, RowUpdates, Statuses DEF Ids
  <2>3. f = [i \in DOMAIN changes |-> f[i]]
    BY <1>1 DEF Ids
  <2> QED
    BY <2>2, <2>3, Replaced DEF IInv, RowsInv
<1>9. f \in Seq({f[i] : i \in Ids})
  <2>1. f \in [1 .. Len(changes) -> {f[i] : i \in Ids}]
    BY <1>1, <1>7
  <2> QED
    BY <1>7, <2>1
<1>10. DOMAIN changes' = 1 .. n /\ changes'[n] = c /\ \A i \in Ids : changes'[i] = f[i]
  BY <1>3, <1>5, <1>7, <1>8, <1>9
<1>11. Ids' = Ids \cup {n} /\ n \notin Ids /\ \A i \in Ids : i < n
  BY <1>5, <1>7, <1>10 DEF Ids
<1>12. Fixed
  BY <1>6, <1>10, <1>11 DEF Fixed
<1> QED
  BY <1>2, <1>6, <1>10, <1>11, <1>12 DEF SavedRow

LEMMA SavedCarries ==
    ASSUME NEW n, NEW it, SavedRow(n, it), wb' = wb, NEW b, b # 0, NEW t \in DOMAIN wb
    PROVE  Carries(t, b)' <=> Carries(t, b)
<1>1. \A i \in Ids' : changes'[i].batch = b <=> (i \in Ids /\ changes[i].batch = b)
  BY DEF SavedRow
<1> QED
  BY <1>1, CarriesStays DEF SavedRow

LEMMA SavedChanges ==
    ASSUME IInv, LockInv, NEW n \in Nat, NEW it, SavedRow(n, it), UNCHANGED <<tasks, wb, wbPrice>>,
           it.undo # 0 => it.undo \in Ids /\ changes[it.undo].status \in Last
    PROVE  ChangeInv'
<1>1. Ids \subseteq Nat /\ Ids' = Ids \cup {n} /\ n \notin Ids /\ \A i \in Ids : i < n
  BY Lengths DEF SavedRow
<1>2. \A i \in Ids : changes'[i].prod = changes[i].prod /\ changes'[i].undo = changes[i].undo
                     /\ changes'[i].batch = changes[i].batch /\ changes'[i].task = changes[i].task
  BY DEF SavedRow, Fixed
<1>3. \A i \in Ids : IF changes[i].prod = it.prod /\ changes[i].status = "pending"
                     THEN changes'[i].status = "failed"
                     ELSE changes'[i].status = changes[i].status
  BY DEF SavedRow
<1>4. changes'[n].status = "pending" /\ changes'[n].batch = 0 /\ changes'[n].task = 0
      /\ changes'[n].prod = it.prod /\ changes'[n].undo = it.undo
  BY DEF SavedRow
<1>5. \A i \in Ids : changes[i].status \in Last => changes'[i].status \in Last
  BY <1>3 DEF Last
<1>6. ASSUME NEW i \in Ids
      PROVE  ChangeOk(i)'
  <2>0. ChangeOk(i)
    BY DEF LockInv, ChangeInv
  <2>1. PendingLatest(i)'
    <3> SUFFICES ASSUME changes'[i].status = "pending"
                 PROVE  /\ changes'[i].batch = 0
                        /\ \A j \in Ids' : changes'[j].prod = changes'[i].prod => j <= i
      BY DEF PendingLatest
    <3>1. changes[i].status = "pending" /\ changes[i].prod # it.prod
      BY <1>3
    <3> QED
      BY <1>1, <1>2, <1>4, <2>0, <3>1 DEF ChangeOk, PendingLatest
  <2>2. BatchNamed(i)'
    BY <1>1, <1>2, <2>0 DEF ChangeOk, BatchNamed
  <2>3. changes'[i].status \in Transport => changes[i].status \in Transport
    BY <1>3 DEF Transport
  <2>4. BatchTogether(i)'
    <3> SUFFICES ASSUME changes'[i].status \in Transport
                 PROVE  /\ changes'[i].batch # 0
                        /\ \A j \in Ids' : changes'[j].batch = changes'[i].batch =>
                              changes'[j].status = changes'[i].status /\ changes'[j].task = changes'[i].task
      BY DEF BatchTogether
    <3>1. changes[i].batch # 0
          /\ \A j \in Ids : changes[j].batch = changes[i].batch =>
                changes[j].status = changes[i].status /\ changes[j].task = changes[i].task
      BY <2>0, <2>3 DEF ChangeOk, BatchTogether
    <3>2. changes'[i].status = changes[i].status /\ changes[i].status # "pending"
      BY <1>3, <2>3 DEF Transport
    <3>3. \A j \in Ids : changes[j].batch = changes[i].batch => changes'[j].status = changes[j].status
      BY <1>3, <3>1, <3>2
    <3> QED
      BY <1>1, <1>2, <1>4, <3>1, <3>2, <3>3
  <2>5. OneInTransport(i)'
    <3> SUFFICES ASSUME changes'[i].status \in Transport, NEW j \in Ids', j # i,
                        changes'[j].prod = changes'[i].prod
                 PROVE  /\ changes'[j].status \notin Transport
                        /\ j > i => changes'[j].status \in {"pending", "failed"}
      BY DEF OneInTransport
    <3>1. CASE j = n
      BY <1>4, <3>1 DEF Transport
    <3>2. CASE j \in Ids
      <4>1. changes[j].status \notin Transport /\ (j > i => changes[j].status \in {"pending", "failed"})
        BY <1>2, <2>0, <2>3, <3>2 DEF ChangeOk, OneInTransport
      <4> QED
        BY <1>3, <3>2, <4>1 DEF Transport
    <3> QED
      BY <1>1, <3>1, <3>2
  <2>6. UploadedCarried(i)'
    <3> SUFFICES ASSUME changes'[i].status = "uploaded"
                 PROVE  /\ changes'[i].task \in DOMAIN wb
                        /\ Carries(changes[i].task, changes[i].batch)'
                        /\ tasks[changes'[i].task] = "uploaded"
      BY DEF UploadedCarried
    <3>1. changes[i].status = "uploaded"
      BY <1>3
    <3>2. changes[i].batch # 0
      BY <2>0, <3>1 DEF ChangeOk, BatchTogether, Transport
    <3>3. PICK t \in DOMAIN wb : t = changes[i].task
      BY <2>0, <3>1 DEF ChangeOk, UploadedCarried
    <3>7. PICK b : b = changes[i].batch
      OBVIOUS
    <3>4. Carries(t, b)'
      BY <2>0, <3>1, <3>2, <3>3, <3>7, SavedCarries DEF ChangeOk, UploadedCarried
    <3>5. changes'[i].task = t /\ changes'[i].batch = b
      BY <1>2, <3>3, <3>7
    <3>6. Carries(changes[i].task, changes[i].batch)'
      BY <3>4, <3>5 DEF Carries
    <3> QED
      BY <2>0, <3>1, <3>3, <3>5, <3>6 DEF ChangeOk, UploadedCarried
  <2>7. UndoneApplied(i)'
    BY <1>1, <1>2, <1>5, <2>0 DEF ChangeOk, UndoneApplied, Last
  <2>8. NotLinked(i)'
    BY <1>2, <1>3, <2>0 DEF ChangeOk, NotLinked
  <2> QED
    BY <2>1, <2>2, <2>4, <2>5, <2>6, <2>7, <2>8 DEF ChangeOk
<1>7. ChangeOk(n)'
  <2>1. PendingLatest(n)'
    BY <1>1, <1>4 DEF PendingLatest
  <2>2. BatchNamed(n)' /\ BatchTogether(n)' /\ OneInTransport(n)' /\ UploadedCarried(n)' /\ NotLinked(n)'
    BY <1>4 DEF BatchNamed, BatchTogether, OneInTransport, UploadedCarried, NotLinked, Transport
  <2>3. UndoneApplied(n)'
    BY <1>1, <1>4, <1>5 DEF UndoneApplied, Last
  <2> QED
    BY <2>1, <2>2, <2>3 DEF ChangeOk
<1> QED
  BY <1>1, <1>6, <1>7 DEF ChangeInv

LEMMA SavedRest ==
    ASSUME IInv, LockInv, NEW n \in Nat, NEW it, SavedRow(n, it), UNCHANGED <<tasks, wb, wbPrice>>
    PROVE  /\ TaskInv' /\ PriceInv' /\ LastStays
           /\ \A p : Quiet(p) => Quiet(p)'
           /\ \A p : Untouched(p) => Untouched(p)'
<1>1. Ids \subseteq Nat /\ Ids' = Ids \cup {n} /\ n \notin Ids
  BY Lengths DEF SavedRow
<1>2. \A i \in Ids : /\ changes'[i].prod = changes[i].prod
                     /\ changes'[i].new = changes[i].new
                     /\ changes'[i].batch = changes[i].batch
                     /\ changes'[i].task = changes[i].task
                     /\ changes'[i].status \in Last <=> changes[i].status \in Last
                     /\ changes[i].status \in Transport => changes'[i].status \in Transport
  BY DEF SavedRow, Fixed, Last, Transport
<1>3. changes'[n].status \notin Last
  BY DEF SavedRow, Last
<1>4. \A p : Won(p)' = Won(p)
  BY <1>1, <1>2, <1>3 DEF Won, Of, Last
<1>5. \A p : \A i \in Won(p) : i \in Ids
  BY DEF Won, Of
<1>6. ASSUME NEW p, Quiet(p)
      PROVE  Quiet(p)'
  BY <1>2, <1>4, <1>5, <1>6 DEF Quiet
<1>7. ASSUME NEW i \in Ids, changes[i].status \in Transport, NEW t \in DOMAIN wb,
             Carries(t, changes[i].batch)
      PROVE  Carries(t, changes[i].batch)'
  <2>1. changes[i].batch # 0
    BY <1>7 DEF LockInv, ChangeInv, ChangeOk, BatchTogether
  <2>2. PICK b : b = changes[i].batch
    OBVIOUS
  <2>3. Carries(t, b)'
    BY <1>7, <2>1, <2>2, SavedCarries
  <2>4. changes'[i].batch = b
    BY <1>2, <2>2
  <2> QED
    BY <2>3, <2>4 DEF Carries
<1>8. ASSUME NEW t \in DOMAIN wb
      PROVE  TaskOk(t)'
  <2>0. TaskOk(t)
    BY DEF LockInv, TaskInv
  <2>1. ResultTold(t)' /\ Shown(t)'
    BY <2>0 DEF TaskOk, ResultTold, Shown
  <2>2. Locked(t)'
    BY <1>1, <1>2, <1>7, <2>0 DEF TaskOk, Locked
  <2>3. Linked(t)'
    BY <1>1, <1>2, <2>0 DEF TaskOk, Linked
  <2> QED
    BY <2>1, <2>2, <2>3 DEF TaskOk
<1>9. ASSUME NEW p \in Products
      PROVE  Quiet(p)' \/ \E i \in Of(p, Transport)' : Winning(i)'
  <2>1. CASE Quiet(p)
    BY <1>6, <2>1
  <2>2. CASE \E i \in Of(p, Transport) : Winning(i)
    <3>1. PICK i \in Of(p, Transport) : Winning(i)
      BY <2>2
    <3>2. i \in Ids /\ changes[i].prod = p /\ changes[i].status \in Transport
      BY <3>1 DEF Of
    <3>3. Winning(i)'
      BY <1>2, <1>7, <3>1, <3>2 DEF Winning
    <3>4. i \in Of(p, Transport)'
      BY <1>1, <1>2, <3>2 DEF Of
    <3> QED
      BY <3>3, <3>4
  <2> QED
    BY <2>1, <2>2 DEF LockInv, PriceInv
<1>10. TaskInv' /\ PriceInv'
  BY <1>8, <1>9 DEF TaskInv, PriceInv
<1>11. LastStays
  BY <1>1, <1>2 DEF LastStays
<1>12. \A p : Untouched(p) => Untouched(p)'
  BY <1>6 DEF Untouched
<1> QED
  BY <1>6, <1>10, <1>11, <1>12

\* What a process holds, when the rows of its batch and WB stay as they are.
LEMMA HeldStays ==
    ASSUME IInv, LockInv, NEW q \in Procs, pc'[q] = pc[q], loc'[q] = loc[q], Fixed,
           \A k \in loc[q].batch : \A i \in Ids' :
              changes'[i].batch = changes[k].batch <=> (i \in Ids /\ changes[i].batch = changes[k].batch),
           \A i \in loc[q].batch : changes'[i].status = "submitting",
           \A i \in loc[q].batch : pc[q] = "link" /\ Carries(loc[q].task, changes[i].batch) =>
              Carries(loc[q].task, changes[i].batch)',
           \A i \in loc[q].batch : Untouched(changes[i].prod) => Untouched(changes[i].prod)'
    PROVE  Holds(q)'
<1>1. loc[q].batch \subseteq Ids /\ Holds(q)
  BY Lengths, LocalsFit DEF Fits, LockInv, HoldInv
<1>2. ASSUME NEW i \in loc[q].batch
      PROVE  /\ changes'[i].status = "submitting"
             /\ \A j \in Ids' : changes'[j].batch = changes'[i].batch <=> j \in loc[q].batch
             /\ pc[q] = "link" => Carries(loc[q].task, changes[i].batch)'
             /\ pc[q] = "upload" /\ loc[q].retry = FALSE => Untouched(changes[i].prod)'
  <2>1. i \in Ids /\ i \in Ids' /\ changes[i].status = "submitting"
    BY <1>1 DEF Holds, Fixed
  <2>3. changes'[i].batch = changes[i].batch
    BY <2>1
  <2>4. \A j \in Ids' : changes'[j].batch = changes[i].batch <=> (j \in Ids /\ changes[j].batch = changes[i].batch)
    OBVIOUS
  <2>5. \A j \in Ids : changes[j].batch = changes[i].batch <=> j \in loc[q].batch
    BY <1>1 DEF Holds
  <2>6. \A j \in Ids' : changes'[j].batch = changes'[i].batch <=> j \in loc[q].batch
    BY <1>1, <2>3, <2>4, <2>5
  <2> QED
    BY <1>1, <2>6 DEF Holds
<1> QED
  BY <1>1, <1>2 DEF Holds

LEMMA SavedLocks ==
    ASSUME IInv, LockInv, NEW n \in Nat, NEW pr \in Procs, NEW it \in loc[pr].todo, SavedRow(n, it),
           UNCHANGED <<tasks, wb, wbPrice>>, Turn(pr), pc'[pr] \notin Busy, loc'[pr].batch = {},
           loc'[pr].todo \subseteq loc[pr].todo, loc'[pr].polls \subseteq loc[pr].polls
    PROVE  LockInv'
<1>1. it.undo # 0 => it.undo \in Ids /\ changes[it.undo].status \in Last
  BY DEF LockInv, TodoInv, Last
<1>2. ChangeInv'
  BY <1>1, SavedChanges
<1>3. TaskInv' /\ PriceInv' /\ LastStays /\ \A p : Untouched(p) => Untouched(p)'
  BY SavedRest
<1>4. ASSUME NEW q \in Procs \ {pr}
      PROVE  Holds(q)'
  <2>1. loc[q].batch \subseteq Ids /\ Holds(q)
    BY Lengths, LocalsFit DEF Fits, LockInv, HoldInv
  <2>2. ASSUME NEW i \in loc[q].batch
        PROVE  /\ changes'[i].status = "submitting"
               /\ changes'[i].batch = changes[i].batch /\ changes'[i].prod = changes[i].prod
               /\ changes[i].batch # 0
    <3>1. i \in Ids /\ changes[i].status = "submitting"
      BY <2>1 DEF Holds
    <3> QED
      BY <3>1 DEF SavedRow, Fixed, LockInv, ChangeInv, ChangeOk, BatchTogether, Transport
  <2>3. \A i \in Ids' : \A b : b # 0 => (changes'[i].batch = b <=> (i \in Ids /\ changes[i].batch = b))
    BY DEF SavedRow
  <2>4. ASSUME NEW i \in loc[q].batch, pc[q] = "link", Carries(loc[q].task, changes[i].batch)
        PROVE  Carries(loc[q].task, changes[i].batch)'
    <3>1. PICK t \in DOMAIN wb : t = loc[q].task
      BY <2>4, Lengths, LocalsFit DEF Fits, IInv, SiteInv
    <3>2. PICK b : b = changes[i].batch
      OBVIOUS
    <3>3. Carries(t, b)'
      BY <2>2, <2>4, <3>1, <3>2, SavedCarries
    <3>4. loc'[q].task = t /\ changes'[i].batch = b
      BY <2>2, <3>1, <3>2 DEF Turn
    <3> QED
      BY <3>3, <3>4 DEF Carries
  <2>5. ASSUME NEW i \in loc[q].batch, Untouched(changes[i].prod)
        PROVE  Untouched(changes[i].prod)'
    <3>1. PICK p : p = changes[i].prod
      OBVIOUS
    <3>2. Untouched(p)'
      BY <1>3, <2>5, <3>1
    <3>3. changes'[i].prod = p
      BY <2>2, <3>1
    <3> QED
      BY <3>2, <3>3 DEF Untouched, Quiet, Won, Of
  <2>6. pc'[q] = pc[q] /\ loc'[q] = loc[q] /\ Fixed
    BY DEF Turn, SavedRow
  <2>7. \A k \in loc[q].batch : \A i \in Ids' :
           changes'[i].batch = changes[k].batch <=> (i \in Ids /\ changes[i].batch = changes[k].batch)
    BY <2>2, <2>3
  <2>8. \A i \in loc[q].batch : changes'[i].status = "submitting"
    BY <2>2
  <2> QED
    BY <2>4, <2>5, <2>6, <2>7, <2>8, HeldStays
<1>5. Holds(pr)'
  BY EmptyHolds
<1>6. ASSUME NEW q \in Procs, NEW r \in Procs, q # r
      PROVE  loc'[r].batch \cap loc'[q].batch = {}
  <2>1. loc[r].batch \cap loc[q].batch = {}
    BY <1>6 DEF LockInv, HoldInv
  <2> QED
    BY <1>6, <2>1 DEF Turn
<1>7. TodoInv'
  <2>1. \A q \in Procs : /\ loc'[q].todo \subseteq loc[q].todo
                         /\ \A t \in loc'[q].polls : t \in loc[q].polls \/ tasks'[t] # "none"
    BY DEF Turn
  <2>2. TodoInv /\ \A t \in DOMAIN wb : tasks[t] # "none" => tasks'[t] # "none"
    BY DEF LockInv
  <2> QED
    BY <1>3, <2>1, <2>2, TodoShrinks
<1>8. HoldInv'
  BY <1>4, <1>5, <1>6 DEF HoldInv
<1> QED
  BY <1>2, <1>3, <1>7, <1>8 DEF LockInv

LEMMA EnqueueLocks ==
    ASSUME IInv, LockInv, NEW pr \in Procs, Enqueue(pr)
    PROVE  LockInv'
<1>1. UNCHANGED <<tasks, wb, wbPrice>> /\ pc[pr] \notin Busy
  BY DEF Enqueue, site, Busy
<1>2. PICK it \in loc[pr].todo :
         \/ /\ Goto(pr, "enqueue", [loc[pr] EXCEPT !.todo = loc[pr].todo \ {it}])
            /\ UNCHANGED changes
         \/ /\ changes' = Saved(it)
            /\ Goto(pr, "enqueue", [loc[pr] EXCEPT !.todo = loc[pr].todo \ {it}, !.accepted = TRUE])
  BY DEF Enqueue
<1>3. PICK T : T = loc[pr].todo \ {it}
  OBVIOUS
<1>4. CASE /\ Goto(pr, "enqueue", [loc[pr] EXCEPT !.todo = loc[pr].todo \ {it}])
           /\ UNCHANGED changes
  <2>1. Goto(pr, "enqueue", [loc[pr] EXCEPT !.todo = T]) /\ T \subseteq loc[pr].todo
    BY <1>3, <1>4
  <2> QED
    BY <1>1, <1>4, <2>1, TodoLocks
<1>5. CASE /\ changes' = Saved(it)
           /\ Goto(pr, "enqueue", [loc[pr] EXCEPT !.todo = loc[pr].todo \ {it}, !.accepted = TRUE])
  <2>1. PICK new : new = [loc[pr] EXCEPT !.todo = T, !.accepted = TRUE]
    OBVIOUS
  <2>2. loc[pr] \in Local /\ loc[pr].batch = {}
    BY <1>1, LocalsFit, OngoingFields
  <2>3. new.batch = {} /\ new.todo = T /\ new.polls = loc[pr].polls
    BY <2>1, <2>2 DEF Local
  <2>4. Goto(pr, "enqueue", new)
    BY <1>3, <1>5, <2>1
  <2>5. pc'[pr] = "enqueue" /\ loc'[pr] = new /\ Turn(pr)
    BY <2>4, GotoTurn
  <2>6. PICK n \in Nat : SavedRow(n, it)
    BY <1>5, SavedIsRow
  <2> QED
    BY <1>1, <1>3, <2>3, <2>5, <2>6, SavedLocks DEF Busy
<1> QED
  BY <1>2, <1>4, <1>5

-----------------------------------------------------------------------------
(* A batch that is claimed.                                                *)

\* ClaimPending makes the changes S, whose products have none in transport, a
\* batch with a new number b.
ClaimedRows(S, b) ==
    /\ Ids' = Ids /\ Fixed /\ b # 0 /\ b \in S
    /\ \A i \in Ids : changes[i].batch # b /\ changes'[i].task = changes[i].task
    /\ \A i \in S : /\ i \in Ids /\ changes[i].status = "pending"
                    /\ changes'[i].status = "submitting" /\ changes'[i].batch = b
                    /\ \A j \in Ids : changes[j].prod = changes[i].prod =>
                          changes[j].status \notin Transport /\ (j # i => j \notin S)
    /\ \A i \in Ids \ S : changes'[i].status = changes[i].status /\ changes'[i].batch = changes[i].batch

LEMMA ClaimIsRows ==
    ASSUME IInv, LockInv, NEW pr \in Procs, ClaimPending(pr)
    PROVE  /\ ClaimedRows(Claimable, Min(Claimable))
           /\ Claimable # {} /\ Claimable \subseteq Ids
<1>1. PICK S \in SUBSET Ids : S = Claimable
  BY DEF Claimable
<1>0. S # {}
  BY <1>1 DEF ClaimPending
<1>2. S # {} /\ S \subseteq Nat /\ Ids \subseteq Nat /\ 0 \notin Ids
  BY <1>0, Lengths
<1>3. PICK b \in S : b = Min(S)
  BY <1>2, MinIn
<1>4. \A i \in S : changes[i].status = "pending" /\ Of(changes[i].prod, Transport) = {}
  BY <1>1 DEF Claimable
<1>5. ASSUME NEW i \in Ids
      PROVE  changes[i].batch # b
  <2>1. changes[b].batch = 0
    BY <1>2, <1>3, <1>4 DEF LockInv, ChangeInv, ChangeOk, PendingLatest
  <2>2. b # 0
    BY <1>2, <1>3
  <2> QED
    BY <2>1, <2>2 DEF LockInv, ChangeInv, ChangeOk, BatchNamed
<1>6. \A i \in Ids : changes[i] \in SafeChange
  BY SavedRows DEF IInv, Ids
<1>7. changes' = [i \in Ids |-> IF i \in S THEN [changes[i] EXCEPT !.status = "submitting", !.batch = b]
                                ELSE changes[i]]
  BY <1>1, <1>3 DEF ClaimPending
<1>8. ASSUME NEW i \in Ids
      PROVE  /\ changes'[i].prod = changes[i].prod /\ changes'[i].new = changes[i].new
             /\ changes'[i].entry = changes[i].entry /\ changes'[i].undo = changes[i].undo
             /\ changes'[i].task = changes[i].task
             /\ i \in S => changes'[i].status = "submitting" /\ changes'[i].batch = b
             /\ i \notin S => changes'[i].status = changes[i].status /\ changes'[i].batch = changes[i].batch
  <2>1. CASE i \in S
    <3>1. changes'[i] = [changes[i] EXCEPT !.status = "submitting", !.batch = b] /\ changes[i] \in SafeChange
      BY <1>6, <1>7, <2>1
    <3> QED
      BY <2>1, <3>1 DEF SafeChange
  <2>2. CASE i \notin S
    BY <1>7, <2>2
  <2> QED
    BY <2>1, <2>2
<1>9. Ids' = Ids
  BY <1>7 DEF Ids
<1>10. ASSUME NEW i \in S, NEW j \in Ids, changes[j].prod = changes[i].prod
       PROVE  changes[j].status \notin Transport /\ (j # i => j \notin S)
  <2>1. changes[j].status \notin Transport
    BY <1>4, <1>10 DEF Of
  <2>2. ASSUME j \in S PROVE j = i
    <3>1. j <= i /\ i <= j
      BY <1>4, <1>10, <2>2 DEF LockInv, ChangeInv, ChangeOk, PendingLatest
    <3> QED
      BY <1>2, <3>1
  <2> QED
    BY <2>1, <2>2
<1>11. ClaimedRows(S, b)
  BY <1>2, <1>3, <1>4, <1>5, <1>8, <1>9, <1>10 DEF ClaimedRows, Fixed
<1> QED
  BY <1>1, <1>2, <1>3, <1>11

LEMMA ClaimedCarries ==
    ASSUME IInv, LockInv, NEW S, NEW b, ClaimedRows(S, b), wb' = wb, NEW c, c # b, c # 0,
           NEW t \in DOMAIN wb
    PROVE  Carries(t, c)' <=> Carries(t, c)
<1>1. ASSUME NEW i \in Ids
      PROVE  changes'[i].batch = c <=> changes[i].batch = c
  <2>1. CASE i \in S
    BY <2>1 DEF ClaimedRows, LockInv, ChangeInv, ChangeOk, PendingLatest
  <2>2. CASE i \notin S
    BY <2>2 DEF ClaimedRows
  <2> QED
    BY <2>1, <2>2
<1>2. Ids' = Ids /\ Fixed
  BY DEF ClaimedRows
<1> QED
  BY <1>1, <1>2, CarriesStays

LEMMA ClaimedChanges ==
    ASSUME IInv, LockInv, NEW S, NEW b, ClaimedRows(S, b), UNCHANGED <<tasks, wb, wbPrice>>
    PROVE  ChangeInv'
<1>0. Ids' = Ids /\ b \in Ids /\ Ids \subseteq Nat
  BY Lengths DEF ClaimedRows
<1>1. ASSUME NEW i \in Ids
      PROVE  ChangeOk(i)'
  <2>0. ChangeOk(i) /\ changes'[i].prod = changes[i].prod /\ changes'[i].undo = changes[i].undo
        /\ changes'[i].task = changes[i].task
    BY DEF LockInv, ChangeInv, ClaimedRows, Fixed
  <2>1. \A k \in S : changes[k].batch = 0 /\ changes[k].task = 0
    BY DEF LockInv, ChangeInv, ChangeOk, PendingLatest, NotLinked, ClaimedRows
  <2>2. PendingLatest(i)'
    <3> SUFFICES ASSUME changes'[i].status = "pending"
                 PROVE  changes'[i].batch = 0 /\ \A j \in Ids : changes'[j].prod = changes'[i].prod => j <= i
      BY <1>0 DEF PendingLatest
    <3>1. i \notin S
      BY DEF ClaimedRows
    <3>2. changes[i].status = "pending" /\ changes'[i].batch = changes[i].batch
      BY <3>1 DEF ClaimedRows
    <3>3. \A j \in Ids : changes'[j].prod = changes[j].prod
      BY DEF ClaimedRows, Fixed
    <3> QED
      BY <2>0, <3>2, <3>3 DEF ChangeOk, PendingLatest
  <2>3. BatchNamed(i)'
    <3>1. CASE i \in S
      BY <1>0, <3>1 DEF BatchNamed, ClaimedRows
    <3>2. CASE i \notin S
      <4>1. changes'[i].batch = changes[i].batch
        BY <3>2 DEF ClaimedRows
      <4>2. CASE changes[i].batch # 0
        <5>1. PICK c \in Ids : c = changes[i].batch /\ changes[c].batch = c
          BY <2>0, <4>2 DEF ChangeOk, BatchNamed
        <5>2. c \notin S
          BY <2>1, <4>2, <5>1
        <5> QED
          BY <1>0, <4>1, <5>1, <5>2 DEF BatchNamed, ClaimedRows
      <4> QED
        BY <4>1, <4>2 DEF BatchNamed
    <3> QED
      BY <3>1, <3>2
  <2>4. BatchTogether(i)'
    <3>1. CASE i \in S
      <4>1. ASSUME NEW j \in Ids, changes'[j].batch = changes'[i].batch
            PROVE  changes'[j].status = changes'[i].status /\ changes'[j].task = changes'[i].task
        <5>1. j \in S
          BY <3>1, <4>1 DEF ClaimedRows
        <5> QED
          BY <2>1, <3>1, <5>1 DEF ClaimedRows
      <4> QED
        BY <1>0, <3>1, <4>1 DEF BatchTogether, ClaimedRows
    <3>2. CASE i \notin S
      <4>1. changes'[i].batch = changes[i].batch /\ changes'[i].status = changes[i].status
        BY <3>2 DEF ClaimedRows
      <4>2. ASSUME NEW j \in Ids, changes'[j].batch = changes'[i].batch, changes[i].batch # 0
            PROVE  /\ changes[j].batch = changes[i].batch /\ changes'[j].status = changes[j].status
                   /\ changes'[j].task = changes[j].task
        <5>1. j \notin S
          BY <3>2, <4>1, <4>2 DEF ClaimedRows
        <5> QED
          BY <4>1, <4>2, <5>1 DEF ClaimedRows
      <4> QED
        BY <1>0, <2>0, <4>1, <4>2 DEF BatchTogether, ChangeOk
    <3> QED
      BY <3>1, <3>2
  <2>5. OneInTransport(i)'
    <3> SUFFICES ASSUME changes'[i].status \in Transport, NEW j \in Ids, j # i,
                        changes'[j].prod = changes'[i].prod
                 PROVE  /\ changes'[j].status \notin Transport
                        /\ j > i => changes'[j].status \in {"pending", "failed"}
      BY <1>0 DEF OneInTransport
    <3>1. changes[j].prod = changes[i].prod
      BY DEF ClaimedRows, Fixed
    <3>2. CASE i \in S
      <4>1. j \notin S /\ changes[j].status \notin Transport
        BY <3>1, <3>2 DEF ClaimedRows
      <4>2. changes[i].status = "pending"
        BY <3>2 DEF ClaimedRows
      <4>3. j <= i
        BY <2>0, <3>1, <4>2 DEF ChangeOk, PendingLatest
      <4> QED
        BY <1>0, <4>1, <4>3 DEF ClaimedRows
    <3>3. CASE i \notin S
      <4>1. changes[i].status \in Transport
        BY <3>3 DEF ClaimedRows
      <4>2. j \notin S
        BY <3>1, <4>1 DEF ClaimedRows
      <4> QED
        BY <2>0, <3>1, <4>1, <4>2 DEF ClaimedRows, ChangeOk, OneInTransport
    <3> QED
      BY <3>2, <3>3
  <2>6. UploadedCarried(i)'
    <3> SUFFICES ASSUME changes'[i].status = "uploaded"
                 PROVE  /\ changes'[i].task \in DOMAIN wb'
                        /\ Carries(changes[i].task, changes[i].batch)'
                        /\ tasks'[changes'[i].task] = "uploaded"
      BY DEF UploadedCarried
    <3>1. i \notin S
      BY DEF ClaimedRows
    <3>2. changes[i].status = "uploaded" /\ changes'[i].batch = changes[i].batch
      BY <3>1 DEF ClaimedRows
    <3>3. PICK t \in DOMAIN wb : t = changes[i].task /\ Carries(t, changes[i].batch) /\ tasks[t] = "uploaded"
      BY <2>0, <3>2 DEF ChangeOk, UploadedCarried
    <3>4. PICK c : c = changes[i].batch
      OBVIOUS
    <3>5. c # 0 /\ c # b
      BY <2>0, <3>2, <3>4 DEF ChangeOk, BatchTogether, Transport, ClaimedRows
    <3>6. Carries(t, c)'
      BY <3>3, <3>4, <3>5, ClaimedCarries
    <3>7. changes'[i].task = t /\ changes'[i].batch = c
      BY <2>0, <3>2, <3>3, <3>4
    <3>8. Carries(changes[i].task, changes[i].batch)'
      BY <3>6, <3>7 DEF Carries
    <3> QED
      BY <3>3, <3>7, <3>8
  <2>7. UndoneApplied(i)'
    <3> SUFFICES ASSUME changes'[i].undo # 0
                 PROVE  /\ changes'[i].undo \in Ids
                        /\ changes'[changes'[i].undo].status \in {"applied", "rolled_back"}
      BY <1>0 DEF UndoneApplied
    <3>1. PICK u \in Ids : u = changes[i].undo /\ changes'[i].undo = u /\ changes[u].status \in Last
      BY <2>0 DEF ChangeOk, UndoneApplied, Last
    <3>2. u \notin S
      BY <3>1 DEF ClaimedRows, Last
    <3> QED
      BY <3>1, <3>2 DEF ClaimedRows, Last
  <2>8. NotLinked(i)'
    <3>1. CASE i \in S
      BY <2>0, <2>1, <3>1 DEF NotLinked
    <3>2. CASE i \notin S
      BY <2>0, <3>2 DEF ChangeOk, NotLinked, ClaimedRows
    <3> QED
      BY <3>1, <3>2
  <2> QED
    BY <2>2, <2>3, <2>4, <2>5, <2>6, <2>7, <2>8 DEF ChangeOk
<1> QED
  BY <1>0, <1>1 DEF ChangeInv

\* No change in transport: no write of the product can still happen.
LEMMA FreeIsUntouched ==
    ASSUME IInv, LockInv, NEW p \in Products, Of(p, Transport) = {}
    PROVE  Untouched(p)
<1>1. Quiet(p)
  BY DEF LockInv, PriceInv
<1>2. ASSUME NEW t \in DOMAIN wb, wb[t].open = TRUE, p \in DOMAIN wb[t].items
      PROVE  FALSE
  <2>1. PICK k \in Ids : changes[k].status \in Transport /\ Carries(t, changes[k].batch)
    BY <1>2 DEF LockInv, TaskInv, TaskOk, Locked
  <2>2. PICK j \in Ids : changes[j].batch = changes[k].batch /\ changes[j].prod = p
    BY <1>2, <2>1 DEF Carries
  <2>3. changes[j].status \in Transport
    BY <2>1, <2>2 DEF LockInv, ChangeInv, ChangeOk, BatchTogether
  <2> QED
    BY <2>2, <2>3 DEF Of
<1> QED
  BY <1>1, <1>2 DEF Untouched

LEMMA ClaimedRest ==
    ASSUME IInv, LockInv, NEW S, NEW b, ClaimedRows(S, b), UNCHANGED <<tasks, wb, wbPrice>>
    PROVE  /\ TaskInv' /\ PriceInv' /\ LastStays
           /\ \A p : Untouched(p) => Untouched(p)'
<1>0. Ids' = Ids /\ \A i \in Ids : /\ changes'[i].prod = changes[i].prod
                                   /\ changes'[i].new = changes[i].new
                                   /\ changes'[i].task = changes[i].task
  BY DEF ClaimedRows, Fixed
<1>1. ASSUME NEW i \in Ids
      PROVE  changes'[i].status \in Last <=> changes[i].status \in Last
  <2>1. CASE i \in S
    BY <2>1 DEF ClaimedRows, Last
  <2>2. CASE i \notin S
    BY <2>2 DEF ClaimedRows
  <2> QED
    BY <2>1, <2>2
<1>2. ASSUME NEW p
      PROVE  (Untouched(p) => Untouched(p)') /\ (Quiet(p) => Quiet(p)')
  <2>1. Won(p)' = Won(p)
    BY <1>0, <1>1 DEF Won, Of, Last
  <2>2. \A i \in Won(p) : i \in Ids
    BY DEF Won, Of
  <2>3. Quiet(p) => Quiet(p)'
    BY <1>0, <2>1, <2>2 DEF Quiet
  <2> QED
    BY <2>3 DEF Untouched
<1>3. ASSUME NEW i \in Ids, changes[i].status \in Transport
      PROVE  /\ changes'[i].status \in Transport
             /\ \A t \in DOMAIN wb : Carries(t, changes[i].batch) => Carries(t, changes[i].batch)'
  <2>1. i \notin S
    BY <1>3 DEF ClaimedRows, Transport
  <2>2. changes'[i].status = changes[i].status /\ changes'[i].batch = changes[i].batch
    BY <2>1 DEF ClaimedRows
  <2>3. PICK c : c = changes[i].batch
    OBVIOUS
  <2>4. c # 0 /\ c # b
    BY <1>3, <2>3 DEF ClaimedRows, LockInv, ChangeInv, ChangeOk, BatchTogether
  <2>5. ASSUME NEW t \in DOMAIN wb, Carries(t, changes[i].batch)
        PROVE  Carries(t, changes[i].batch)'
    <3>1. Carries(t, c)'
      BY <2>3, <2>4, <2>5, ClaimedCarries
    <3>2. changes'[i].batch = c
      BY <2>2, <2>3
    <3> QED
      BY <3>1, <3>2 DEF Carries
  <2> QED
    BY <1>3, <2>2, <2>5
<1>4. ASSUME NEW t \in DOMAIN wb
      PROVE  TaskOk(t)'
  <2>0. TaskOk(t)
    BY DEF LockInv, TaskInv
  <2>1. ResultTold(t)' /\ Shown(t)'
    BY <2>0 DEF TaskOk, ResultTold, Shown
  <2>2. Locked(t)'
    <3> SUFFICES ASSUME wb[t].open = TRUE
                 PROVE  \E i \in Ids : changes'[i].status \in Transport /\ Carries(t, changes[i].batch)'
      BY <1>0 DEF Locked
    <3> QED
      BY <1>3, <2>0 DEF TaskOk, Locked
  <2>3. Linked(t)'
    BY <1>0, <2>0 DEF TaskOk, Linked
  <2> QED
    BY <2>1, <2>2, <2>3 DEF TaskOk
<1>5. ASSUME NEW p \in Products
      PROVE  Quiet(p)' \/ \E i \in Of(p, Transport)' : Winning(i)'
  <2>1. CASE Quiet(p)
    BY <1>2, <2>1
  <2>2. CASE \E i \in Of(p, Transport) : Winning(i)
    <3>1. PICK i \in Of(p, Transport) : Winning(i)
      BY <2>2
    <3>2. i \in Ids /\ changes[i].prod = p /\ changes[i].status \in Transport
      BY <3>1 DEF Of
    <3>3. Winning(i)'
      BY <1>0, <1>3, <3>1, <3>2 DEF Winning
    <3>4. i \in Of(p, Transport)'
      BY <1>0, <1>3, <3>2 DEF Of
    <3> QED
      BY <3>3, <3>4
  <2> QED
    BY <2>1, <2>2 DEF LockInv, PriceInv
<1>6. TaskInv' /\ PriceInv'
  BY <1>4, <1>5 DEF TaskInv, PriceInv
<1>7. LastStays
  BY <1>0, <1>1 DEF LastStays
<1> QED
  BY <1>2, <1>6, <1>7

LEMMA ClaimedLocks ==
    ASSUME IInv, LockInv, NEW S \in SUBSET Ids, NEW b, ClaimedRows(S, b),
           UNCHANGED <<tasks, wb, wbPrice>>, NEW pr \in Procs, Turn(pr),
           pc'[pr] = "upload", loc'[pr].batch = S,
           loc'[pr].todo \subseteq loc[pr].todo, loc'[pr].polls \subseteq loc[pr].polls
    PROVE  LockInv'
<1>1. TaskInv' /\ PriceInv' /\ LastStays /\ (\A p : Untouched(p) => Untouched(p)') /\ ChangeInv'
  BY ClaimedRest, ClaimedChanges
<1>2. Ids' = Ids /\ Fixed /\ b \in S /\ b # 0
  BY DEF ClaimedRows
<1>3. ASSUME NEW i \in S
      PROVE  /\ changes'[i].status = "submitting"
             /\ \A j \in Ids : changes'[j].batch = changes'[i].batch <=> j \in S
             /\ Untouched(changes[i].prod)'
  <2>1. changes'[i].status = "submitting" /\ \A j \in Ids : changes'[j].batch = changes'[i].batch <=> j \in S
    BY <1>3 DEF ClaimedRows
  <2>2. PICK p \in Products : p = changes[i].prod
    BY SavedRows DEF IInv, Ids, SafeChange
  <2>3. Of(p, Transport) = {}
    BY <2>2 DEF ClaimedRows, Of
  <2>4. Untouched(p)'
    BY <1>1, <2>3, FreeIsUntouched
  <2>5. changes'[i].prod = p
    BY <1>2, <2>2 DEF Fixed
  <2>6. Untouched(changes[i].prod)'
    BY <2>4, <2>5 DEF Untouched, Quiet, Won, Of
  <2> QED
    BY <2>1, <2>6
<1>4. Holds(pr)'
  BY <1>2, <1>3 DEF Holds, Busy
<1>5. ASSUME NEW q \in Procs \ {pr}
      PROVE  Holds(q)' /\ loc[q].batch \cap S = {}
  <2>1. loc[q].batch \subseteq Ids /\ Holds(q)
    BY Lengths, LocalsFit DEF Fits, LockInv, HoldInv
  <2>2. ASSUME NEW i \in loc[q].batch
        PROVE  /\ i \in Ids \ S /\ changes'[i].status = "submitting"
               /\ changes'[i].batch = changes[i].batch /\ changes'[i].prod = changes[i].prod
               /\ changes[i].batch # 0 /\ changes[i].batch # b
    <3>1. i \in Ids /\ changes[i].status = "submitting"
      BY <2>1 DEF Holds
    <3>2. i \notin S
      BY <3>1 DEF ClaimedRows
    <3> QED
      BY <3>1, <3>2 DEF ClaimedRows, Fixed, LockInv, ChangeInv, ChangeOk, BatchTogether, Transport
  <2>3. ASSUME NEW k \in loc[q].batch, NEW i \in Ids
        PROVE  changes'[i].batch = changes[k].batch <=> changes[i].batch = changes[k].batch
    <3>1. CASE i \in S
      BY <2>2, <3>1 DEF ClaimedRows, LockInv, ChangeInv, ChangeOk, PendingLatest
    <3>2. CASE i \notin S
      BY <3>2 DEF ClaimedRows
    <3> QED
      BY <3>1, <3>2
  <2>4. ASSUME NEW i \in loc[q].batch, pc[q] = "link", Carries(loc[q].task, changes[i].batch)
        PROVE  Carries(loc[q].task, changes[i].batch)'
    <3>1. PICK t \in DOMAIN wb : t = loc[q].task
      BY <2>4, Lengths, LocalsFit DEF Fits, IInv, SiteInv
    <3>2. PICK c : c = changes[i].batch
      OBVIOUS
    <3>3. Carries(t, c)'
      BY <2>2, <2>4, <3>1, <3>2, ClaimedCarries
    <3>4. loc'[q].task = t /\ changes'[i].batch = c
      BY <2>2, <3>1, <3>2 DEF Turn
    <3> QED
      BY <3>3, <3>4 DEF Carries
  <2>5. ASSUME NEW i \in loc[q].batch, Untouched(changes[i].prod)
        PROVE  Untouched(changes[i].prod)'
    <3>1. PICK p : p = changes[i].prod
      OBVIOUS
    <3>2. Untouched(p)'
      BY <1>1, <2>5, <3>1
    <3>3. changes'[i].prod = p
      BY <2>2, <3>1
    <3> QED
      BY <3>2, <3>3 DEF Untouched, Quiet, Won, Of
  <2>6. pc'[q] = pc[q] /\ loc'[q] = loc[q]
    BY DEF Turn
  <2>7. \A k \in loc[q].batch : \A i \in Ids' :
           changes'[i].batch = changes[k].batch <=> (i \in Ids /\ changes[i].batch = changes[k].batch)
    BY <1>2, <2>3
  <2>8. \A i \in loc[q].batch : changes'[i].status = "submitting"
    BY <2>2
  <2>9. Holds(q)'
    BY <1>2, <2>4, <2>5, <2>6, <2>7, <2>8, HeldStays
  <2> QED
    BY <2>2, <2>9
<1>6. ASSUME NEW q \in Procs, NEW r \in Procs, q # r
      PROVE  loc'[r].batch \cap loc'[q].batch = {}
  <2>1. loc[r].batch \cap loc[q].batch = {}
    BY <1>6 DEF LockInv, HoldInv
  <2> QED
    BY <1>5, <1>6, <2>1 DEF Turn
<1>7. TodoInv'
  <2>1. \A q \in Procs : /\ loc'[q].todo \subseteq loc[q].todo
                         /\ \A t \in loc'[q].polls : t \in loc[q].polls \/ tasks'[t] # "none"
    BY DEF Turn
  <2>2. TodoInv /\ \A t \in DOMAIN wb : tasks[t] # "none" => tasks'[t] # "none"
    BY DEF LockInv
  <2> QED
    BY <1>1, <2>1, <2>2, TodoShrinks
<1>8. HoldInv'
  BY <1>4, <1>5, <1>6 DEF HoldInv
<1> QED
  BY <1>1, <1>7, <1>8 DEF LockInv

LEMMA ClaimPendingLocks ==
    ASSUME IInv, LockInv, NEW pr \in Procs, ClaimPending(pr)
    PROVE  LockInv'
<1>1. PICK S \in SUBSET Ids, b \in Ids : S = Claimable /\ b = Min(Claimable) /\ ClaimedRows(S, b)
  BY ClaimIsRows DEF ClaimedRows
<1>2. UNCHANGED <<tasks, wb, wbPrice>>
  BY DEF ClaimPending, site
<1>3. PICK new : new = [loc[pr] EXCEPT !.batch = S, !.retry = FALSE]
  OBVIOUS
<1>4. Goto(pr, "upload", new)
  BY <1>1, <1>3 DEF ClaimPending
<1>5. new.batch = S /\ new.todo = loc[pr].todo /\ new.polls = loc[pr].polls
  <2>1. loc[pr] \in Local
    BY LocalsFit
  <2> QED
    BY <1>3, <2>1 DEF Local
<1>6. pc'[pr] = "upload" /\ loc'[pr] = new /\ Turn(pr)
  BY <1>4, GotoTurn
<1> QED
  BY <1>1, <1>2, <1>5, <1>6, ClaimedLocks

-----------------------------------------------------------------------------
(* WB.                                                                     *)

\* The open task t is processed; the goods bad fail.
Processed(t, bad) ==
    /\ UNCHANGED <<changes, tasks, pc, loc>>
    /\ DOMAIN wb' = DOMAIN wb /\ wb[t].open = TRUE
    /\ wb'[t].open = FALSE /\ wb'[t].bad = bad
    /\ \A u \in DOMAIN wb :
          /\ wb'[u].items = wb[u].items
          /\ u # t => wb'[u].open = wb[u].open /\ wb'[u].bad = wb[u].bad
    /\ \A p \in Products : wbPrice'[p] = IF p \in DOMAIN wb[t].items \ bad
                                         THEN wb[t].items[p] ELSE wbPrice[p]

LEMMA WBProcesses ==
    ASSUME IInv, NEW t \in DOMAIN wb, WBProcess(t)
    PROVE  \E bad \in SUBSET DOMAIN wb[t].items : Processed(t, bad)
<1>1. PICK bad \in SUBSET DOMAIN wb[t].items :
         /\ wb' = [wb EXCEPT ![t].open = FALSE, ![t].bad = bad]
         /\ wbPrice' = [p \in Products |-> IF p \in DOMAIN wb[t].items \ bad
                                           THEN wb[t].items[p] ELSE wbPrice[p]]
  BY DEF WBProcess
<1>2. UNCHANGED <<changes, tasks, pc, loc>> /\ wb[t].open
  BY DEF WBProcess, rows
<1>3. wb[t] \in SafeTask
  BY DEF IInv, SiteInv
<1>4. wb[t].open = TRUE
  <2>1. wb[t].open \in BOOLEAN
    BY <1>3 DEF SafeTask
  <2> QED
    BY <1>2, <2>1
<1>5. wb'[t] = [wb[t] EXCEPT !.open = FALSE, !.bad = bad] /\ DOMAIN wb' = DOMAIN wb
      /\ \A u \in DOMAIN wb \ {t} : wb'[u] = wb[u]
  BY <1>1
<1>6. wb'[t].open = FALSE /\ wb'[t].bad = bad /\ wb'[t].items = wb[t].items
  BY <1>3, <1>5 DEF SafeTask
<1>7. \A p \in Products : wbPrice'[p] = IF p \in DOMAIN wb[t].items \ bad
                                        THEN wb[t].items[p] ELSE wbPrice[p]
  BY <1>1
<1> QED
  BY <1>2, <1>4, <1>5, <1>6, <1>7 DEF Processed

LEMMA ProcessedCarries ==
    ASSUME NEW t \in DOMAIN wb, NEW bad, Processed(t, bad), NEW b, NEW u \in DOMAIN wb
    PROVE  Carries(u, b)' <=> Carries(u, b)
<1>1. Ids' = Ids /\ Fixed /\ \A i \in Ids' : changes'[i].batch = b <=> (i \in Ids /\ changes[i].batch = b)
  BY DEF Processed, Ids, Fixed
<1>2. DOMAIN wb' = DOMAIN wb /\ \A v \in DOMAIN wb : wb'[v].items = wb[v].items
  BY DEF Processed
<1> QED
  BY <1>1, <1>2, CarriesStays

LEMMA ItemsAreProducts ==
    ASSUME IInv, NEW t \in DOMAIN wb
    PROVE  DOMAIN wb[t].items \subseteq Products
<1>1. wb[t] \in SafeTask
  BY DEF IInv, SiteInv
<1>2. PICK items \in SafeItems : items = wb[t].items
  <2> HIDE DEF SafeItems
  <2> QED
    BY <1>1 DEF SafeTask
<1>3. PICK P \in SUBSET Products : items \in [P -> Prices]
  BY DEF SafeItems
<1> QED
  BY <1>2, <1>3

\* The products WB leaves alone.
LEMMA ProcessedQuiet ==
    ASSUME IInv, NEW t \in DOMAIN wb, NEW bad, Processed(t, bad),
           NEW p \in Products, p \notin DOMAIN wb[t].items \ bad
    PROVE  Quiet(p) => Quiet(p)'
<1>1. Won(p)' = Won(p) /\ wbPrice'[p] = wbPrice[p] /\ changes' = changes
  BY DEF Processed, Won, Of, Ids
<1> QED
  BY <1>1 DEF Quiet

LEMMA ProcessedTasks ==
    ASSUME IInv, LockInv, NEW t \in DOMAIN wb, NEW bad \in SUBSET DOMAIN wb[t].items, Processed(t, bad)
    PROVE  TaskInv'
<1>1. PICK k \in Ids : changes[k].status \in Transport /\ Carries(t, changes[k].batch)
  BY DEF LockInv, TaskInv, TaskOk, Locked, Processed
<1>2. \A p \in DOMAIN wb[t].items : \A u \in DOMAIN wb : u > t => p \notin DOMAIN wb[u].items
  BY <1>1, CarrierIsLast
<1>3. DOMAIN wb' = DOMAIN wb /\ changes' = changes /\ Ids' = Ids /\ tasks' = tasks /\ DOMAIN wb \subseteq Nat
      /\ \A v \in DOMAIN wb : wb'[v].items = wb[v].items
  BY DEF Processed, Ids, IInv, SiteInv
<1>4. ASSUME NEW u \in DOMAIN wb
      PROVE  TaskOk(u)'
  <2>0. TaskOk(u) /\ TaskOk(t)
    BY DEF LockInv, TaskInv
  <2>1. ResultTold(u)'
    <3>1. CASE u = t
      <4>1. tasks[t] \notin Closed
        BY <2>0 DEF TaskOk, ResultTold, Processed
      <4> QED
        BY <1>3, <3>1, <4>1 DEF ResultTold, Closed
    <3>2. CASE u # t
      BY <2>0, <3>2 DEF TaskOk, ResultTold, Processed
    <3> QED
      BY <3>1, <3>2
  <2>2. Locked(u)'
    <3> SUFFICES ASSUME wb'[u].open = TRUE
                 PROVE  \E i \in Ids : changes'[i].status \in Transport /\ Carries(u, changes[i].batch)'
      BY <1>3 DEF Locked
    <3>1. u # t /\ wb[u].open = TRUE
      BY DEF Processed
    <3>2. PICK i \in Ids : changes[i].status \in Transport /\ Carries(u, changes[i].batch)
      BY <2>0, <3>1 DEF TaskOk, Locked
    <3>3. PICK b : b = changes[i].batch
      OBVIOUS
    <3>4. Carries(u, b)'
      BY <3>2, <3>3, ProcessedCarries
    <3>5. changes'[i].batch = b
      BY <1>3, <3>3
    <3>6. Carries(u, changes[i].batch)'
      BY <3>4, <3>5 DEF Carries
    <3> QED
      BY <1>3, <3>2, <3>6
  <2>3. Shown(u)'
    <3> SUFFICES ASSUME wb'[u].open = FALSE, NEW p \in DOMAIN wb[u].items \ wb'[u].bad,
                        \A v \in DOMAIN wb : v > u => p \notin DOMAIN wb[v].items
                 PROVE  wbPrice'[p] = wb[u].items[p]
      BY <1>3 DEF Shown
    <3>1. p \in Products
      BY ItemsAreProducts
    <3>2. CASE u = t
      BY <3>1, <3>2 DEF Processed
    <3>3. CASE u # t
      <4>1. wb[u].open = FALSE /\ p \notin wb[u].bad
        BY <3>3 DEF Processed
      <4>2. wbPrice[p] = wb[u].items[p]
        BY <2>0, <4>1 DEF TaskOk, Shown
      <4>3. p \notin DOMAIN wb[t].items
        <5>1. ~(u > t) \/ p \notin DOMAIN wb[t].items
          BY <1>2
        <5>2. ~(t > u) \/ p \notin DOMAIN wb[t].items
          OBVIOUS
        <5> QED
          BY <1>3, <3>3, <5>1, <5>2
      <4> QED
        BY <3>1, <4>2, <4>3 DEF Processed
    <3> QED
      BY <3>2, <3>3
  <2>4. Linked(u)'
    BY <1>3, <2>0 DEF TaskOk, Linked
  <2> QED
    BY <2>1, <2>2, <2>3, <2>4 DEF TaskOk
<1> QED
  BY <1>3, <1>4 DEF TaskInv

LEMMA ProcessedPrices ==
    ASSUME IInv, LockInv, NEW t \in DOMAIN wb, NEW bad \in SUBSET DOMAIN wb[t].items, Processed(t, bad)
    PROVE  PriceInv'
<1>1. PICK k \in Ids : changes[k].status \in Transport /\ Carries(t, changes[k].batch)
  BY DEF LockInv, TaskInv, TaskOk, Locked, Processed
<1>2. DOMAIN wb' = DOMAIN wb /\ changes' = changes /\ Ids' = Ids
  BY DEF Processed, Ids
<1>3. ASSUME NEW i \in Ids, NEW u \in DOMAIN wb, Carries(u, changes[i].batch)
      PROVE  Carries(u, changes[i].batch)'
  <2>1. PICK b : b = changes[i].batch
    OBVIOUS
  <2>2. Carries(u, b)'
    BY <1>3, <2>1, ProcessedCarries
  <2>3. changes'[i].batch = b
    BY <1>2, <2>1
  <2> QED
    BY <2>2, <2>3 DEF Carries
<1>4. ASSUME NEW p \in Products
      PROVE  Quiet(p)' \/ \E i \in Of(p, Transport)' : Winning(i)'
  <2>1. CASE p \in DOMAIN wb[t].items \ bad
    <3>1. PICK i \in Ids : changes[i].batch = changes[k].batch /\ changes[i].prod = p
      BY <1>1, <2>1 DEF Carries
    <3>2. changes[i].status \in Transport /\ Carries(t, changes[i].batch)
      BY <1>1, <3>1 DEF LockInv, ChangeInv, ChangeOk, BatchTogether
    <3>3. Carries(t, changes[i].batch)'
      BY <1>3, <3>2
    <3>4. Winning(i)'
      BY <1>2, <2>1, <3>1, <3>3 DEF Winning, Processed
    <3>5. i \in Of(p, Transport)'
      BY <1>2, <3>1, <3>2 DEF Of
    <3> QED
      BY <3>4, <3>5
  <2>2. CASE p \notin DOMAIN wb[t].items \ bad
    <3>1. CASE Quiet(p)
      BY <2>2, <3>1, ProcessedQuiet
    <3>2. CASE \E i \in Of(p, Transport) : Winning(i)
      <4>1. PICK i \in Of(p, Transport) : Winning(i)
        BY <3>2
      <4>2. i \in Ids /\ i \in Of(p, Transport)'
        BY <1>2, <4>1 DEF Of
      <4>3. PICK u \in DOMAIN wb : /\ wb[u].open = FALSE /\ Carries(u, changes[i].batch)
                                   /\ changes[i].prod \notin wb[u].bad
        BY <4>1 DEF Winning
      <4>4. u # t /\ wb'[u].open = FALSE /\ wb'[u].bad = wb[u].bad
        BY <4>3 DEF Processed
      <4>5. Carries(u, changes[i].batch)'
        BY <1>3, <4>2, <4>3
      <4>6. Winning(i)'
        BY <1>2, <4>3, <4>4, <4>5 DEF Winning
      <4> QED
        BY <4>2, <4>6
    <3> QED
      BY <3>1, <3>2 DEF LockInv, PriceInv
  <2> QED
    BY <2>1, <2>2
<1> QED
  BY <1>4 DEF PriceInv

LEMMA WBProcessLocks ==
    ASSUME IInv, LockInv, NEW t \in DOMAIN wb, WBProcess(t)
    PROVE  LockInv'
<1>1. PICK bad \in SUBSET DOMAIN wb[t].items : Processed(t, bad)
  BY WBProcesses
<1>2. TaskInv' /\ PriceInv'
  BY <1>1, ProcessedTasks, ProcessedPrices
<1>3. UNCHANGED <<changes, tasks, pc, loc>> /\ DOMAIN wb' = DOMAIN wb /\ Ids' = Ids
  BY <1>1 DEF Processed, Ids
<1>4. ASSUME NEW b, NEW u \in DOMAIN wb, Carries(u, b)
      PROVE  Carries(u, b)'
  BY <1>1, <1>4, ProcessedCarries
<1>5. ASSUME NEW i \in Ids
      PROVE  ChangeOk(i)'
  <2>0. ChangeOk(i)
    BY DEF LockInv, ChangeInv
  <2>1. /\ PendingLatest(i)' /\ BatchNamed(i)' /\ BatchTogether(i)' /\ OneInTransport(i)'
        /\ UndoneApplied(i)' /\ NotLinked(i)'
    BY <1>3, <2>0 DEF ChangeOk, PendingLatest, BatchNamed, BatchTogether, OneInTransport, UndoneApplied,
                      NotLinked
  <2>2. UploadedCarried(i)'
    <3> SUFFICES ASSUME changes'[i].status = "uploaded"
                 PROVE  /\ changes'[i].task \in DOMAIN wb'
                        /\ Carries(changes[i].task, changes[i].batch)'
                        /\ tasks'[changes'[i].task] = "uploaded"
      BY DEF UploadedCarried
    <3>1. PICK u \in DOMAIN wb : u = changes[i].task /\ Carries(u, changes[i].batch) /\ tasks[u] = "uploaded"
      BY <1>3, <2>0 DEF ChangeOk, UploadedCarried
    <3>2. PICK b : b = changes[i].batch
      OBVIOUS
    <3>3. Carries(u, b)'
      BY <1>4, <3>1, <3>2
    <3>4. changes'[i].task = u /\ changes'[i].batch = b
      BY <1>3, <3>1, <3>2
    <3>5. Carries(changes[i].task, changes[i].batch)'
      BY <3>3, <3>4 DEF Carries
    <3> QED
      BY <1>3, <3>1, <3>4, <3>5
  <2> QED
    BY <2>1, <2>2 DEF ChangeOk
<1>6. ASSUME NEW q \in Procs
      PROVE  Holds(q)'
  <2>1. \A k \in loc[q].batch : \A i \in Ids' :
           changes'[i].batch = changes[k].batch <=> (i \in Ids /\ changes[i].batch = changes[k].batch)
    BY <1>3
  <2>2. \A i \in loc[q].batch : changes'[i].status = "submitting"
    BY <1>3 DEF LockInv, HoldInv, Holds
  <2>3. ASSUME NEW i \in loc[q].batch, pc[q] = "link", Carries(loc[q].task, changes[i].batch)
        PROVE  Carries(loc[q].task, changes[i].batch)'
    <3>1. PICK u \in DOMAIN wb : u = loc[q].task
      BY <2>3, Lengths, LocalsFit DEF Fits, IInv, SiteInv
    <3>2. PICK b : b = changes[i].batch
      OBVIOUS
    <3>3. Carries(u, b)'
      BY <1>4, <2>3, <3>1, <3>2
    <3>4. loc'[q].task = u /\ changes'[i].batch = b
      BY <1>3, <3>1, <3>2
    <3> QED
      BY <3>3, <3>4 DEF Carries
  <2>4. ASSUME NEW i \in loc[q].batch, Untouched(changes[i].prod)
        PROVE  Untouched(changes[i].prod)'
    <3>1. PICK p \in Products : p = changes[i].prod
      BY SavedRows, Lengths, LocalsFit DEF Fits, IInv, Ids, SafeChange
    <3>2. p \notin DOMAIN wb[t].items
      BY <1>1, <2>4, <3>1 DEF Untouched, Processed
    <3>3. Quiet(p)'
      BY <1>1, <2>4, <3>1, <3>2, ProcessedQuiet DEF Untouched
    <3>4. \A u \in DOMAIN wb' : wb'[u].open = TRUE => p \notin DOMAIN wb'[u].items
      BY <1>1, <2>4, <3>1 DEF Untouched, Processed
    <3>5. Untouched(p)'
      BY <3>3, <3>4 DEF Untouched
    <3>6. changes'[i].prod = p
      BY <1>3, <3>1
    <3> QED
      BY <3>5, <3>6 DEF Untouched, Quiet, Won, Of
  <2>5. pc'[q] = pc[q] /\ loc'[q] = loc[q] /\ Fixed
    BY <1>3 DEF Fixed
  <2> QED
    BY <2>1, <2>2, <2>3, <2>4, <2>5, HeldStays
<1>7. HoldInv'
  <2>1. \A q, r \in Procs : q # r => loc'[r].batch \cap loc'[q].batch = {}
    BY <1>3 DEF LockInv, HoldInv
  <2> QED
    BY <1>6, <2>1 DEF HoldInv
<1>8. TodoInv'
  BY <1>3 DEF LockInv, TodoInv
<1> QED
  BY <1>2, <1>3, <1>5, <1>7, <1>8 DEF LockInv, ChangeInv

-----------------------------------------------------------------------------
(* An upload.                                                              *)

LEMMA PayloadFields ==
    ASSUME IInv, LockInv, NEW S \in SUBSET Ids, \A i \in S : changes[i].status \in Transport
    PROVE  /\ DOMAIN Payload(S) = {changes[i].prod : i \in S}
           /\ \A i \in S : Payload(S)[changes[i].prod] = changes[i].new
           /\ Payload(S) = [p \in DOMAIN Payload(S) |-> Payload(S)[p]]
<1>1. \A p \in {changes[i].prod : i \in S} :
         Payload(S)[p] = changes[CHOOSE i \in S : changes[i].prod = p].new
  BY DEF Payload
<1>2. ASSUME NEW i \in S
      PROVE  (CHOOSE j \in S : changes[j].prod = changes[i].prod) = i
  <2>1. \A j \in S : changes[j].prod = changes[i].prod => j = i
    BY <1>2 DEF LockInv, ChangeInv, ChangeOk, OneInTransport
  <2> QED
    BY <1>2, <2>1
<1>3. DOMAIN Payload(S) = {changes[i].prod : i \in S}
      /\ Payload(S) = [p \in DOMAIN Payload(S) |-> Payload(S)[p]]
  BY DEF Payload
<1>4. ASSUME NEW i \in S
      PROVE  Payload(S)[changes[i].prod] = changes[i].new
  <2>1. PICK p : p = changes[i].prod
    OBVIOUS
  <2>2. (CHOOSE j \in S : changes[j].prod = p) = i
    BY <1>2, <2>1
  <2>3. Payload(S)[p] = changes[CHOOSE j \in S : changes[j].prod = p].new
    BY <1>1, <2>1
  <2> QED
    BY <2>1, <2>2, <2>3
<1> QED
  BY <1>3, <1>4

\* The batch of a process that is uploading, and its number.
LEMMA UploadingBatch ==
    ASSUME IInv, LockInv, NEW pr \in Procs, pc[pr] = "upload"
    PROVE  /\ loc[pr].batch \in SUBSET Ids
           /\ \E b \in Ids : /\ b \in loc[pr].batch
                             /\ \A j \in Ids : changes[j].batch = b <=> j \in loc[pr].batch
           /\ \A i \in loc[pr].batch : changes[i].status = "submitting"
<1>1. loc[pr].batch \in SUBSET Ids /\ Holds(pr)
  BY Lengths, LocalsFit DEF Fits, LockInv, HoldInv
<1>2. PICK i \in loc[pr].batch : TRUE
  BY <1>1 DEF Holds, Busy
<1>3. i \in Ids /\ changes[i].status = "submitting"
      /\ \A j \in Ids : changes[j].batch = changes[i].batch <=> j \in loc[pr].batch
  BY <1>1, <1>2 DEF Holds
<1>4. changes[i].batch # 0
  BY <1>3 DEF LockInv, ChangeInv, ChangeOk, BatchTogether, Transport
<1>5. PICK b \in Ids : b = changes[i].batch /\ changes[b].batch = b
  BY <1>3, <1>4 DEF LockInv, ChangeInv, ChangeOk, BatchNamed
<1>6. b \in loc[pr].batch
  BY <1>3, <1>5
<1> QED
  BY <1>1, <1>3, <1>5, <1>6 DEF Holds

\* The tasks in which WB recognizes a batch are those that carry it.
LEMMA SameIsCarried ==
    ASSUME IInv, LockInv, NEW S \in SUBSET Ids, NEW b,
           \A j \in Ids : changes[j].batch = b <=> j \in S,
           \A i \in S : changes[i].status \in Transport, NEW t \in DOMAIN wb
    PROVE  t \in SameTasks(S) <=> Carries(t, b)
<1>1. /\ DOMAIN Payload(S) = {changes[i].prod : i \in S}
      /\ \A i \in S : Payload(S)[changes[i].prod] = changes[i].new
      /\ Payload(S) = [p \in DOMAIN Payload(S) |-> Payload(S)[p]]
  BY PayloadFields
<1>2. ASSUME t \in SameTasks(S)
      PROVE  Carries(t, b)
  BY <1>1, <1>2 DEF SameTasks, Carries
<1>3. ASSUME Carries(t, b)
      PROVE  t \in SameTasks(S)
  <2>1. wb[t] \in SafeTask
    BY DEF IInv, SiteInv
  <2>2. PICK items \in SafeItems : items = wb[t].items
    <3> HIDE DEF SafeItems
    <3> QED
      BY <2>1 DEF SafeTask
  <2>3. items = [p \in DOMAIN items |-> items[p]]
    BY DEF SafeItems
  <2>4. DOMAIN items = DOMAIN Payload(S)
    BY <1>1, <1>3, <2>2 DEF Carries
  <2>5. \A p \in DOMAIN items : items[p] = Payload(S)[p]
    BY <1>1, <1>3, <2>2, <2>4 DEF Carries
  <2>6. items = Payload(S)
    BY <1>1, <2>3, <2>4, <2>5
  <2>7. \A u \in DOMAIN wb : u > t => DOMAIN wb[u].items \cap DOMAIN wb[t].items = {}
    BY <1>3, CarrierIsLast
  <2> QED
    BY <2>2, <2>6, <2>7 DEF SameTasks
<1> QED
  BY <1>2, <1>3

\* WB accepts the batch S as its task n.
Accepted(S, n) ==
    /\ UNCHANGED <<changes, wbPrice>>
    /\ DOMAIN wb' = DOMAIN wb \cup {n} /\ n \notin DOMAIN wb /\ \A u \in DOMAIN wb : u < n
    /\ \A u \in DOMAIN wb : wb'[u] = wb[u] /\ tasks'[u] = tasks[u]
    /\ wb'[n].items = Payload(S) /\ wb'[n].open = TRUE /\ wb'[n].bad = {}
    /\ tasks'[n] = "none"
    /\ SameTasks(S) = {}

LEMMA WBAcceptsTask ==
    ASSUME IInv, NEW S \in SUBSET Ids, WBAccepts(S), UNCHANGED <<changes, wbPrice>>
    PROVE  Accepted(S, Len(wb) + 1)
<1>1. PICK items \in SafeItems : items = Payload(S)
  BY PayloadKept
<1>2. PICK row : row = [items |-> items, open |-> TRUE, bad |-> {}]
  OBVIOUS
<1>3. row.items = items /\ row.open = TRUE /\ row.bad = {}
  BY <1>2
<1>4. wb \in Seq(SafeTask) /\ tasks \in Seq(TaskStatus) /\ Len(wb) = Len(tasks)
  BY DEF IInv, SiteInv, RowsInv
<1>5. wb' = Append(wb, row) /\ tasks' = Append(tasks, "none") /\ SameTasks(S) = {}
  BY <1>1, <1>2 DEF WBAccepts
<1>6. row \in SafeTask
  <2>1. TRUE \in BOOLEAN /\ {} \in SUBSET Products
    OBVIOUS
  <2> HIDE DEF SafeItems
  <2> QED
    BY <1>2, <2>1, SMT DEF SafeTask
<1>7. PICK n : n = Len(wb) + 1
  OBVIOUS
<1>8. /\ DOMAIN wb' = DOMAIN wb \cup {n} /\ n \notin DOMAIN wb /\ \A u \in DOMAIN wb : u < n
      /\ \A u \in DOMAIN wb : wb'[u] = wb[u]
      /\ wb'[n] = row
  <2> HIDE DEF SafeTask
  <2> QED
    BY <1>4, <1>5, <1>6, <1>7
<1>9. (\A u \in DOMAIN wb : tasks'[u] = tasks[u]) /\ tasks'[n] = "none"
  <2>1. DOMAIN wb = DOMAIN tasks /\ "none" \in TaskStatus /\ n = Len(tasks) + 1
    BY <1>4, <1>7 DEF TaskStatus
  <2> HIDE DEF TaskStatus
  <2> QED
    BY <1>4, <1>5, <2>1
<1> QED
  BY <1>1, <1>3, <1>5, <1>7, <1>8, <1>9 DEF Accepted

LEMMA AcceptedCarries ==
    ASSUME IInv, LockInv, NEW S \in SUBSET Ids, \A i \in S : changes[i].status \in Transport,
           NEW n, Accepted(S, n), NEW k \in Ids, changes[k].status \in Transport,
           NEW b, b = changes[k].batch, \A j \in S : changes[j].batch # b, NEW t \in DOMAIN wb
    PROVE  Carries(t, b)' <=> Carries(t, b)
<1>1. DOMAIN Payload(S) = {changes[i].prod : i \in S}
  BY PayloadFields
<1>2. ASSUME NEW i \in Ids, changes[i].batch = b
      PROVE  changes[i].prod \notin DOMAIN wb'[n].items
  <2>1. changes[i].status \in Transport /\ i \notin S
    BY <1>2 DEF LockInv, ChangeInv, ChangeOk, BatchTogether
  <2>2. \A j \in S : changes[j].prod # changes[i].prod
    BY <2>1 DEF LockInv, ChangeInv, ChangeOk, OneInTransport
  <2> QED
    BY <1>1, <2>2 DEF Accepted
<1>3. Ids' = Ids /\ Fixed /\ \A i \in Ids' : changes'[i].batch = b <=> (i \in Ids /\ changes[i].batch = b)
  BY DEF Accepted, Ids, Fixed
<1>4. DOMAIN wb \subseteq DOMAIN wb' /\ \A u \in DOMAIN wb : wb'[u].items = wb[u].items
  BY DEF Accepted
<1>5. \A u \in DOMAIN wb' : \A i \in Ids :
         u \notin DOMAIN wb /\ changes[i].batch = b => changes[i].prod \notin DOMAIN wb'[u].items
  BY <1>2 DEF Accepted
<1> QED
  BY <1>3, <1>4, <1>5, CarriesStays

\* Its new task carries the batch.
LEMMA NewCarries ==
    ASSUME IInv, LockInv, NEW S \in SUBSET Ids, \A i \in S : changes[i].status \in Transport,
           NEW n \in Nat, Accepted(S, n), NEW b, \A j \in Ids : changes[j].batch = b <=> j \in S
    PROVE  Carries(n, b)'
<1>1. /\ DOMAIN Payload(S) = {changes[i].prod : i \in S}
      /\ \A i \in S : Payload(S)[changes[i].prod] = changes[i].new
  BY PayloadFields
<1>2. wb'[n].items = Payload(S) /\ changes' = changes /\ Ids' = Ids
      /\ DOMAIN wb' = DOMAIN wb \cup {n} /\ \A u \in DOMAIN wb : u < n
  BY DEF Accepted, Ids
<1>3. \A u \in DOMAIN wb' : ~(u > n)
  <2>1. DOMAIN wb \subseteq Nat
    BY DEF IInv, SiteInv
  <2>2. ~(n > n)
    OBVIOUS
  <2>3. \A u \in DOMAIN wb : ~(u > n)
    BY <1>2, <2>1
  <2> QED
    BY <1>2, <2>2, <2>3
<1>4. \A p \in DOMAIN Payload(S) : \E i \in Ids : changes[i].batch = b /\ changes[i].prod = p
  BY <1>1
<1>5. \A i \in Ids : changes[i].batch = b =>
          changes[i].prod \in DOMAIN Payload(S) /\ Payload(S)[changes[i].prod] = changes[i].new
  BY <1>1
<1> QED
  BY <1>2, <1>3, <1>4, <1>5 DEF Carries

LEMMA AcceptedTasks ==
    ASSUME IInv, LockInv, NEW S \in SUBSET Ids, \A i \in S : changes[i].status \in Transport,
           NEW n \in Nat, Accepted(S, n), NEW b \in Ids, b \in S, \A j \in Ids : changes[j].batch = b <=> j \in S
    PROVE  TaskInv' /\ PriceInv' /\ ChangeInv'
<1>1. /\ UNCHANGED <<changes, wbPrice>> /\ Ids' = Ids /\ DOMAIN wb' = DOMAIN wb \cup {n}
      /\ n \notin DOMAIN wb
      /\ \A u \in DOMAIN wb : wb'[u] = wb[u] /\ tasks'[u] = tasks[u]
  BY DEF Accepted, Ids
<1>2. \A t \in DOMAIN wb : ~Carries(t, b)
  BY SameIsCarried DEF Accepted
<1>3. ASSUME NEW k \in Ids, changes[k].status \in Transport, NEW t \in DOMAIN wb,
             Carries(t, changes[k].batch)
      PROVE  Carries(t, changes[k].batch)'
  <2>1. PICK c : c = changes[k].batch
    OBVIOUS
  <2>2. c # b
    BY <1>2, <1>3, <2>1
  <2>3. \A j \in S : changes[j].batch # c
    BY <2>2
  <2>4. Carries(t, c)'
    BY <1>3, <2>1, <2>3, AcceptedCarries
  <2>5. changes'[k].batch = c
    BY <1>1, <2>1
  <2> QED
    BY <2>4, <2>5 DEF Carries
<1>4. ASSUME NEW t \in DOMAIN wb
      PROVE  TaskOk(t)'
  <2>0. TaskOk(t)
    BY DEF LockInv, TaskInv
  <2>1. ResultTold(t)' /\ Shown(t)'
    BY <1>1, <2>0 DEF TaskOk, ResultTold, Shown
  <2>2. Locked(t)'
    <3> SUFFICES ASSUME wb[t].open = TRUE
                 PROVE  \E i \in Ids : changes'[i].status \in Transport /\ Carries(t, changes[i].batch)'
      BY <1>1 DEF Locked
    <3>1. PICK i \in Ids : changes[i].status \in Transport /\ Carries(t, changes[i].batch)
      BY <2>0 DEF TaskOk, Locked
    <3>2. Carries(t, changes[i].batch)'
      BY <1>3, <3>1
    <3> QED
      BY <1>1, <3>1, <3>2
  <2>3. Linked(t)'
    BY <1>1, <2>0 DEF TaskOk, Linked
  <2> QED
    BY <2>1, <2>2, <2>3 DEF TaskOk
<1>5. TaskOk(n)'
  <2>1. ResultTold(n)' /\ Shown(n)' /\ Linked(n)'
    BY DEF Accepted, ResultTold, Shown, Linked, Closed
  <2>2. Locked(n)'
    <3>1. Carries(n, b)'
      BY NewCarries
    <3>2. changes'[b].batch = b /\ changes'[b].status \in Transport
      BY <1>1
    <3>3. Carries(n, changes[b].batch)'
      BY <3>1, <3>2 DEF Carries
    <3> QED
      BY <1>1, <3>2, <3>3 DEF Locked
  <2> QED
    BY <2>1, <2>2 DEF TaskOk
<1>6. ASSUME NEW p \in Products
      PROVE  Quiet(p)' \/ \E i \in Of(p, Transport)' : Winning(i)'
  <2>1. CASE Quiet(p)
    BY <1>1, <2>1 DEF Quiet, Won, Of
  <2>2. CASE \E i \in Of(p, Transport) : Winning(i)
    <3>1. PICK i \in Of(p, Transport) : Winning(i)
      BY <2>2
    <3>2. i \in Ids /\ changes[i].status \in Transport /\ i \in Of(p, Transport)'
      BY <1>1, <3>1 DEF Of
    <3>3. PICK u \in DOMAIN wb : /\ wb[u].open = FALSE /\ Carries(u, changes[i].batch)
                                 /\ changes[i].prod \notin wb[u].bad
      BY <3>1 DEF Winning
    <3>4. Carries(u, changes[i].batch)'
      BY <1>3, <3>2, <3>3
    <3>5. Winning(i)'
      BY <1>1, <3>3, <3>4 DEF Winning
    <3> QED
      BY <3>2, <3>5
  <2> QED
    BY <2>1, <2>2 DEF LockInv, PriceInv
<1>7. ASSUME NEW i \in Ids
      PROVE  ChangeOk(i)'
  <2>0. ChangeOk(i)
    BY DEF LockInv, ChangeInv
  <2>1. /\ PendingLatest(i)' /\ BatchNamed(i)' /\ BatchTogether(i)' /\ OneInTransport(i)'
        /\ UndoneApplied(i)' /\ NotLinked(i)'
    BY <1>1, <2>0 DEF ChangeOk, PendingLatest, BatchNamed, BatchTogether, OneInTransport, UndoneApplied,
                      NotLinked
  <2>2. UploadedCarried(i)'
    <3> SUFFICES ASSUME changes'[i].status = "uploaded"
                 PROVE  /\ changes'[i].task \in DOMAIN wb'
                        /\ Carries(changes[i].task, changes[i].batch)'
                        /\ tasks'[changes'[i].task] = "uploaded"
      BY DEF UploadedCarried
    <3>1. PICK u \in DOMAIN wb : u = changes[i].task /\ Carries(u, changes[i].batch) /\ tasks[u] = "uploaded"
      BY <1>1, <2>0 DEF ChangeOk, UploadedCarried
    <3>2. PICK c : c = changes[i].batch
      OBVIOUS
    <3>3. Carries(u, changes[i].batch)'
      BY <1>1, <1>3, <3>1 DEF Transport
    <3>4. changes'[i].batch = c
      BY <1>1, <3>2
    <3>5. Carries(u, c)'
      BY <3>3, <3>4 DEF Carries
    <3>6. changes'[i].task = u
      BY <1>1, <3>1
    <3>7. Carries(changes[i].task, changes[i].batch)'
      BY <3>4, <3>5, <3>6 DEF Carries
    <3> QED
      BY <1>1, <3>1, <3>6, <3>7
  <2> QED
    BY <2>1, <2>2 DEF ChangeOk
<1> QED
  BY <1>1, <1>4, <1>5, <1>6, <1>7 DEF TaskInv, PriceInv, ChangeInv

LEMMA AcceptedLocks ==
    ASSUME IInv, LockInv, NEW pr \in Procs, pc[pr] = "upload", NEW n \in Nat, Accepted(loc[pr].batch, n),
           Turn(pr), pc'[pr] \in {"link", "unknown"}, loc'[pr].batch = loc[pr].batch,
           loc'[pr].todo = loc[pr].todo, loc'[pr].polls = loc[pr].polls,
           pc'[pr] = "link" => loc'[pr].task = n
    PROVE  LockInv'
<1>1. PICK S \in SUBSET Ids : S = loc[pr].batch
  BY UploadingBatch
<1>2. PICK b \in Ids : b \in S /\ \A j \in Ids : changes[j].batch = b <=> j \in S
  BY <1>1, UploadingBatch
<1>3. \A i \in S : changes[i].status = "submitting" /\ changes[i].status \in Transport
  BY <1>1, UploadingBatch DEF Transport
<1>4. Accepted(S, n)
  BY <1>1
<1>5. TaskInv' /\ PriceInv' /\ ChangeInv'
  BY <1>2, <1>3, <1>4, AcceptedTasks
<1>6. /\ UNCHANGED <<changes, wbPrice>> /\ Ids' = Ids /\ DOMAIN wb' = DOMAIN wb \cup {n}
      /\ \A u \in DOMAIN wb : wb'[u] = wb[u] /\ tasks'[u] = tasks[u]
  BY <1>4 DEF Accepted, Ids
<1>7. Holds(pr)'
  <2>1. ASSUME pc'[pr] = "link", NEW i \in S
        PROVE  Carries(loc[pr].task, changes[i].batch)'
    <3>1. Carries(n, b)'
      BY <1>2, <1>3, <1>4, NewCarries
    <3>2. loc'[pr].task = n /\ changes'[i].batch = b
      BY <1>2, <1>6, <2>1
    <3> QED
      BY <3>1, <3>2 DEF Carries
  <2> QED
    BY <1>1, <1>2, <1>3, <1>6, <2>1 DEF Holds, Busy
<1>8. ASSUME NEW q \in Procs \ {pr}
      PROVE  Holds(q)'
  <2>1. loc[q].batch \subseteq Ids /\ Holds(q) /\ loc[q].batch \cap S = {}
    BY <1>1, Lengths, LocalsFit DEF Fits, LockInv, HoldInv
  <2>2. \A i \in loc[q].batch : changes[i].status = "submitting" /\ changes[i].status \in Transport
    BY <2>1 DEF Holds, Transport
  <2>3. ASSUME NEW i \in loc[q].batch, pc[q] = "link", Carries(loc[q].task, changes[i].batch)
        PROVE  Carries(loc[q].task, changes[i].batch)'
    <3>1. PICK t \in DOMAIN wb : t = loc[q].task
      BY <2>3, Lengths, LocalsFit DEF Fits, IInv, SiteInv
    <3>2. PICK c : c = changes[i].batch
      OBVIOUS
    <3>3. \A j \in S : changes[j].batch # c
      BY <1>2, <2>1, <3>2
    <3>4. Carries(t, c)'
      BY <1>3, <1>4, <2>1, <2>2, <2>3, <3>1, <3>2, <3>3, AcceptedCarries
    <3>5. loc'[q].task = t /\ changes'[i].batch = c
      BY <1>6, <3>1, <3>2 DEF Turn
    <3> QED
      BY <3>4, <3>5 DEF Carries
  <2>4. ASSUME NEW i \in loc[q].batch, Untouched(changes[i].prod)
        PROVE  Untouched(changes[i].prod)'
    <3>1. PICK p : p = changes[i].prod
      OBVIOUS
    <3>2. \A j \in S : changes[j].prod # p
      BY <1>3, <2>1, <2>2, <3>1 DEF LockInv, ChangeInv, ChangeOk, OneInTransport
    <3>7. DOMAIN Payload(S) = {changes[j].prod : j \in S}
      BY <1>3, PayloadFields
    <3>3. p \notin DOMAIN wb'[n].items
      BY <1>4, <3>2, <3>7 DEF Accepted
    <3>4. Quiet(p)'
      BY <1>6, <2>4, <3>1 DEF Untouched, Quiet, Won, Of
    <3>5. Untouched(p)'
      BY <1>6, <2>4, <3>1, <3>3, <3>4 DEF Untouched
    <3>6. changes'[i].prod = p
      BY <1>6, <3>1
    <3> QED
      BY <3>5, <3>6 DEF Untouched, Quiet, Won, Of
  <2>5. pc'[q] = pc[q] /\ loc'[q] = loc[q] /\ Fixed
    BY <1>6 DEF Fixed, Turn
  <2>6. \A k \in loc[q].batch : \A i \in Ids' :
           changes'[i].batch = changes[k].batch <=> (i \in Ids /\ changes[i].batch = changes[k].batch)
    BY <1>6
  <2>7. \A i \in loc[q].batch : changes'[i].status = "submitting"
    BY <1>6, <2>2
  <2> QED
    BY <2>3, <2>4, <2>5, <2>6, <2>7, HeldStays
<1>9. ASSUME NEW q \in Procs, NEW r \in Procs, q # r
      PROVE  loc'[r].batch \cap loc'[q].batch = {}
  <2>1. loc[r].batch \cap loc[q].batch = {}
    BY <1>9 DEF LockInv, HoldInv
  <2> QED
    BY <1>9, <2>1 DEF Turn
<1>10. TodoInv'
  <2>1. \A q \in Procs : /\ loc'[q].todo \subseteq loc[q].todo
                         /\ \A t \in loc'[q].polls : t \in loc[q].polls \/ tasks'[t] # "none"
    BY DEF Turn
  <2>2. TodoInv /\ LastStays /\ \A t \in DOMAIN wb : tasks[t] # "none" => tasks'[t] # "none"
    BY <1>6 DEF LockInv, LastStays
  <2> QED
    BY <2>1, <2>2, TodoShrinks
<1>11. HoldInv'
  BY <1>7, <1>8, <1>9 DEF HoldInv
<1> QED
  BY <1>5, <1>10, <1>11 DEF LockInv

LEMMA UploadLocks ==
    ASSUME IInv, LockInv, NEW pr \in Procs, Upload(pr)
    PROVE  LockInv'
<1>1. pc[pr] = "upload" /\ UNCHANGED <<changes, wbPrice>>
  BY DEF Upload
<1>2. PICK S \in SUBSET Ids : S = loc[pr].batch
  BY <1>1, UploadingBatch
<1>3. \/ WBAccepts(S) /\ Goto(pr, "link", [loc[pr] EXCEPT !.task = Len(wb) + 1])
      \/ /\ UNCHANGED <<wb, tasks>>
         /\ \E t \in SameTasks(S) : Goto(pr, "link", [loc[pr] EXCEPT !.task = t])
      \/ WBAccepts(S) /\ Goto(pr, "unknown", loc[pr])
      \/ UNCHANGED <<wb, tasks>> /\ Goto(pr, "unknown", loc[pr])
  BY <1>2 DEF Upload
<1>4. PICK n \in Nat : n = Len(wb) + 1
  BY DEF IInv, SiteInv
<1>5. ASSUME NEW t
      PROVE  LET me == [loc[pr] EXCEPT !.task = t]
             IN  me.task = t /\ me.batch = S /\ me.todo = loc[pr].todo /\ me.polls = loc[pr].polls
  <2>1. loc[pr] \in Local
    BY LocalsFit
  <2> QED
    BY <1>2, <2>1 DEF Local
<1>6. CASE WBAccepts(S) /\ Goto(pr, "link", [loc[pr] EXCEPT !.task = Len(wb) + 1])
  <2>1. Accepted(S, n)
    BY <1>1, <1>4, <1>6, WBAcceptsTask
  <2>2. PICK new : new = [loc[pr] EXCEPT !.task = n]
    OBVIOUS
  <2>3. Goto(pr, "link", new)
    BY <1>4, <1>6, <2>2
  <2>4. pc'[pr] = "link" /\ loc'[pr] = new /\ Turn(pr)
    BY <2>3, GotoTurn
  <2>5. new.task = n /\ new.batch = S /\ new.todo = loc[pr].todo /\ new.polls = loc[pr].polls
    BY <1>5, <2>2
  <2> QED
    BY <1>1, <1>2, <2>1, <2>4, <2>5, AcceptedLocks
<1>7. CASE WBAccepts(S) /\ Goto(pr, "unknown", loc[pr])
  <2>1. Accepted(S, n)
    BY <1>1, <1>4, <1>7, WBAcceptsTask
  <2>2. pc'[pr] = "unknown" /\ loc'[pr] = loc[pr] /\ Turn(pr)
    BY <1>7, GotoTurn
  <2> QED
    BY <1>1, <1>2, <2>1, <2>2, AcceptedLocks
<1>8. Holds(pr) /\ S # {} /\ \A i \in S : changes[i].status = "submitting" /\ changes[i].status \in Transport
  BY <1>1, <1>2, UploadingBatch DEF LockInv, HoldInv, Transport
<1>9. ASSUME UNCHANGED <<wb, tasks>>, Turn(pr), pc'[pr] \in {"link", "unknown"}, loc'[pr].batch = S,
             loc'[pr].todo = loc[pr].todo, loc'[pr].polls = loc[pr].polls,
             pc'[pr] = "link" => loc'[pr].task \in SameTasks(S)
      PROVE  LockInv'
  <2>1. Moved({})
    BY <1>1, <1>9, NoneMoved
  <2>2. ASSUME pc'[pr] = "link", NEW i \in S
        PROVE  Carries(loc[pr].task, changes[i].batch)'
    <3>1. PICK t \in DOMAIN wb : t = loc'[pr].task /\ t \in SameTasks(S)
      BY <1>9, <2>2 DEF SameTasks
    <3>2. PICK b : b = changes[i].batch
      OBVIOUS
    <3>3. \A j \in Ids : changes[j].batch = b <=> j \in S
      BY <1>2, <1>8, <3>2 DEF Holds
    <3>4. Carries(t, b)
      BY <1>8, <3>1, <3>3, SameIsCarried
    <3>5. Carries(t, b)'
      BY <2>1, <3>4, MovedCarries
    <3>6. changes'[i].batch = b
      BY <1>1, <3>2
    <3> QED
      BY <3>1, <3>5, <3>6 DEF Carries
  <2>3. Holds(pr)'
    BY <1>1, <1>2, <1>8, <1>9, <2>2 DEF Holds, Busy, Ids
  <2> QED
    BY <1>2, <1>9, <2>1, <2>3, MovedLocks
<1>10. CASE /\ UNCHANGED <<wb, tasks>>
            /\ \E t \in SameTasks(S) : Goto(pr, "link", [loc[pr] EXCEPT !.task = t])
  <2>1. PICK t \in SameTasks(S) : Goto(pr, "link", [loc[pr] EXCEPT !.task = t])
    BY <1>10
  <2>2. PICK new : new = [loc[pr] EXCEPT !.task = t]
    OBVIOUS
  <2>3. Goto(pr, "link", new)
    BY <2>1, <2>2
  <2>4. pc'[pr] = "link" /\ loc'[pr] = new /\ Turn(pr)
    BY <2>3, GotoTurn
  <2>5. new.task = t /\ new.batch = S /\ new.todo = loc[pr].todo /\ new.polls = loc[pr].polls
    BY <1>5, <2>2
  <2> QED
    BY <1>9, <1>10, <2>1, <2>4, <2>5
<1>11. CASE UNCHANGED <<wb, tasks>> /\ Goto(pr, "unknown", loc[pr])
  <2>1. pc'[pr] = "unknown" /\ loc'[pr] = loc[pr] /\ Turn(pr)
    BY <1>11, GotoTurn
  <2> QED
    BY <1>2, <1>9, <1>11, <2>1
<1> QED
  BY <1>3, <1>6, <1>7, <1>10, <1>11

-----------------------------------------------------------------------------

LEMMA LocksAtFirst == Init => LockInv
<1> SUFFICES ASSUME Init PROVE LockInv
  OBVIOUS
<1>1. Ids = {} /\ DOMAIN wb = {} /\ \A pr \in Procs : pc[pr] = "idle" /\ loc[pr] = Idle
  BY DEF Init, Ids
<1>2. ChangeInv /\ TaskInv
  BY <1>1 DEF ChangeInv, TaskInv
<1>3. HoldInv /\ TodoInv
  BY <1>1, IdleFields DEF HoldInv, Holds, Busy, TodoInv
<1>4. PriceInv
  BY <1>1 DEF PriceInv, Quiet, Won, Of
<1> QED
  BY <1>2, <1>3, <1>4 DEF LockInv

LEMMA ApplyLocks ==
    ASSUME IInv, LockInv, RejectRetries = FALSE, NEW pr \in Procs, Apply(pr)
    PROVE  LockInv'
  BY EnqueueLocks, EnqueueEndLocks, ClaimUnknownLocks, ClaimPendingLocks, StopsLock, UploadLocks,
     UploadRefusedLocks, MarkUnknownLocks, LinkLocks DEF Apply

LEMMA LocksNext ==
    ASSUME RejectRetries = FALSE
    PROVE  IInv /\ LockInv /\ [Next]_vars => LockInv'
<1> SUFFICES ASSUME IInv, LockInv, [Next]_vars PROVE LockInv'
  OBVIOUS
<1>1. Worker \in Procs /\ \A a \in Apis : a \in Procs
  BY DEF Procs
<1>2. ASSUME NEW a \in Apis, Bulk(a) \/ Rollback(a) \/ ApiStep(a)
      PROVE  LockInv'
  BY <1>1, <1>2, RequestsLock, ApplyLocks DEF ApiStep
<1>3. CASE WorkerStep
  BY <1>1, <1>3, JobsLock, ExecuteLocks, PollLocks, ApplyLocks DEF WorkerStep
<1>4. CASE UNCHANGED vars
  BY <1>4, OthersLock
<1> QED
  BY <1>2, <1>3, <1>4, RequestsLock, OthersLock, ClaimDueLocks, JobsLock, PollStartLocks,
     WBProcessLocks, StopsLock DEF Next

\* The greatest of some numbers.
LEMMA MaxGreatest ==
    ASSUME NEW n \in Nat, NEW S, S \subseteq 0 .. n, S # {}
    PROVE  Max(S) \in S /\ \A x \in S : x <= Max(S)
<1> DEFINE T == {n - x : x \in S}
<1>1. T \subseteq Nat /\ T # {}
  <2>1. \A x \in S : n - x \in Nat
    OBVIOUS
  <2> QED
    BY <2>1
<1>2. PICK m \in T : \A y \in T : m <= y
  BY <1>1, Least
<1>3. PICK x \in S : m = n - x
  BY <1>2
<1>4. \A y \in S : x >= y
  BY <1>2, <1>3
<1>5. Max(S) \in S /\ \A y \in S : Max(S) >= y
  BY <1>4 DEF Max
<1> QED
  BY <1>5

LEMMA LocksCover == IInv /\ LockInv => LockCoversWrites
<1> SUFFICES ASSUME IInv, LockInv, NEW t \in DOMAIN wb, wb[t].open, NEW p \in DOMAIN wb[t].items
             PROVE  \E i \in Of(p, Transport) : changes[i].new = wb[t].items[p]
  BY DEF LockCoversWrites
<1>1. wb[t] \in SafeTask
  BY DEF IInv, SiteInv
<1>2. wb[t].open = TRUE
  <2>1. wb[t].open \in BOOLEAN
    BY <1>1 DEF SafeTask
  <2> QED
    BY <2>1
<1>3. PICK k \in Ids : changes[k].status \in Transport /\ Carries(t, changes[k].batch)
  BY <1>2 DEF LockInv, TaskInv, TaskOk, Locked
<1>4. PICK i \in Ids : /\ changes[i].batch = changes[k].batch /\ changes[i].prod = p
                       /\ wb[t].items[p] = changes[i].new
  BY <1>3, CarrierIsLast
<1>5. changes[i].status \in Transport
  BY <1>3, <1>4 DEF LockInv, ChangeInv, ChangeOk, BatchTogether
<1> QED
  BY <1>4, <1>5 DEF Of

LEMMA LocksOrder == IInv /\ LockInv => LastAppliedWins
<1> SUFFICES ASSUME IInv, LockInv, NEW p \in Products, Won(p) # {}, Of(p, Transport) = {}
             PROVE  wbPrice[p] = changes[Max(Won(p))].new
  BY DEF LastAppliedWins, Won
<1>1. Quiet(p)
  BY DEF LockInv, PriceInv
<1>2. Len(changes) \in Nat /\ Won(p) \subseteq 0 .. Len(changes)
  BY Lengths DEF Won, Of
<1>3. Max(Won(p)) \in Won(p) /\ \A i \in Won(p) : i <= Max(Won(p))
  BY <1>2, MaxGreatest
<1> QED
  BY <1>1, <1>3 DEF Quiet

-----------------------------------------------------------------------------
(* The schedule entries.                                                   *)

For(e) == {i \in Ids : changes[i].entry = e}

\* Nothing was saved for the entry, and it was claimed.
Fresh(e) == For(e) = {} /\ entries[e].status \notin {"none", "planned", "done"}

\* The executor has still to save the intent it.  Changes it has saved before
\* are applied only if they took over the task of another batch.
ToSave(pr, it) ==
    /\ pr = Worker /\ pc[pr] = "enqueue"
    /\ entries[it.entry].status \notin {"none", "planned"}
    /\ it.entry \notin loc[pr].deferred
    /\ \A i \in For(it.entry) : changes[i].prod # it.prod
    /\ \A x \in loc[pr].todo : x # it /\ x.entry = it.entry => x.prod # it.prod
    /\ \A i \in For(it.entry) : changes[i].status \in Last => Reused(changes[i].task)
    /\ entries[it.entry].status = "done" => \E i \in For(it.entry) : Reused(changes[i].task)

PlannedFresh == \A e \in Entries : entries[e].status \in {"none", "planned"} => For(e) = {}

DeferredFresh == \A e \in loc[Worker].deferred : Fresh(e)

ExecutingFresh ==
    pc[Worker] = "execute" => Fresh(loc[Worker].entry) /\ loc[Worker].entry \notin loc[Worker].deferred

TodoFits == \A pr \in Procs : \A it \in loc[pr].todo : it.entry # None => ToSave(pr, it)

\* A revert is created with its primary.
PairsTogether ==
    \A e, r \in Entries : RevertOf[r] = e /\ entries[e].status = "none" => entries[r].status = "none"

NamedKnown == \A pr \in Procs : loc[pr].entry # None => entries[loc[pr].entry].status # "none"

EntryInv ==
    /\ PlannedFresh /\ DeferredFresh /\ ExecutingFresh /\ TodoFits /\ PairsTogether /\ NamedKnown
    /\ ScheduleOnce /\ DoneMeansApplied

\* What a statement may do to the status of an entry.
Turned(e) ==
    \/ entries'[e].status = entries[e].status
    \/ entries[e].status # "none" /\ entries'[e].status \in {"failed", "canceled", "executing"}
    \/ /\ entries[e].status # "none" /\ entries'[e].status = "done"
       /\ For(e) # {} /\ \A i \in For(e) : changes'[i].status \in Last
    \/ /\ entries'[e].status = "planned" /\ For(e) = {}
       /\ e \notin loc'[Worker].deferred
       /\ pc'[Worker] = "execute" => loc'[Worker].entry # e
       /\ \A it \in loc'[Worker].todo : it.entry # e

\* What a statement that saves no change does to them.
RowsCalm ==
    /\ Ids' = Ids /\ Fixed /\ LastStays
    /\ \A i \in Ids : changes[i].task # 0 =>
          changes'[i].task = changes[i].task /\ changes'[i].batch = changes[i].batch
    /\ \A i \in Ids : changes'[i].status \in Last /\ changes[i].status \notin Last /\ pc'[Worker] = "enqueue" =>
          Reused(changes[i].task)'

\* What the step of a process may do to its locals.
LocsCalm ==
    /\ \A pr \in Procs \ {Worker} : \A it \in loc'[pr].todo : it.entry = None \/ it \in loc[pr].todo
    /\ \/ \A it \in loc'[Worker].todo :
             it.entry = None \/ (it \in loc[Worker].todo /\ pc'[Worker] = "enqueue")
       \/ /\ pc'[Worker] = "enqueue"
          /\ \E e \in Entries :
                /\ Fresh(e) /\ e \notin loc'[Worker].deferred /\ entries'[e].status = entries[e].status
                /\ \A it \in loc'[Worker].todo :
                      it.entry = e /\ \A x \in loc'[Worker].todo : x.prod = it.prod => x = it
    /\ \A e \in loc'[Worker].deferred :
          e \in loc[Worker].deferred \/ (pc[Worker] = "execute" /\ e = loc[Worker].entry)
    /\ pc'[Worker] = "execute" =>
          /\ loc'[Worker].entry \in Entries /\ loc'[Worker].entry \notin loc'[Worker].deferred
          /\ \/ pc[Worker] = "execute" /\ loc'[Worker].entry = loc[Worker].entry
             \/ /\ entries[loc'[Worker].entry].status = "planned"
                /\ entries'[loc'[Worker].entry].status = "executing"
    /\ \A pr \in Procs : loc'[pr].entry \in Entries =>
          loc'[pr].entry = loc[pr].entry \/ entries[loc'[pr].entry].status # "none"

LEMMA ReusedStays ==
    ASSUME RowsCalm, NEW t, Reused(t)
    PROVE  Reused(t)'
<1>1. PICK k \in Ids, l \in Ids : changes[k].task = t /\ changes[l].task = t /\ changes[k].batch # changes[l].batch
  BY DEF Reused
<1>2. t # 0
  BY DEF Reused
<1>3. /\ changes'[k].task = t /\ changes'[l].task = t /\ changes'[k].batch # changes'[l].batch
      /\ k \in Ids' /\ l \in Ids'
  BY <1>1, <1>2 DEF RowsCalm
<1> QED
  BY <1>2, <1>3 DEF Reused

LEMMA ChangeReused ==
    ASSUME RowsCalm, NEW i \in Ids, Reused(changes[i].task)
    PROVE  Reused(changes[i].task)'
<1>1. PICK t : t = changes[i].task
  OBVIOUS
<1>2. t # 0 /\ Reused(t)
  BY <1>1 DEF Reused
<1>3. changes'[i].task = t
  BY <1>1, <1>2 DEF RowsCalm
<1>4. Reused(t)'
  BY <1>2, ReusedStays
<1> QED
  BY <1>3, <1>4 DEF Reused

LEMMA ForStays ==
    ASSUME RowsCalm, NEW e
    PROVE  For(e)' = For(e)
  BY DEF RowsCalm, For, Fixed

LEMMA FreshStays ==
    ASSUME RowsCalm, NEW e, Turned(e), Fresh(e),
           entries'[e].status # "planned" \/ entries'[e].status = entries[e].status
    PROVE  Fresh(e)'
  BY ForStays DEF Fresh, Turned

\* The entries of Turned that are planned again are named nowhere.
LEMMA TodoKept ==
    ASSUME IInv, EntryInv, RowsCalm, LocsCalm, \A e \in Entries : Turned(e),
           NEW pr \in Procs, NEW it \in loc'[pr].todo, it.entry # None, it.entry \in Entries
    PROVE  ToSave(pr, it)'
<1>1. CASE pr # Worker
  <2>1. it \in loc[pr].todo
    BY <1>1 DEF LocsCalm
  <2>2. ToSave(pr, it)
    BY <2>1 DEF EntryInv, TodoFits
  <2> QED
    BY <1>1, <2>2 DEF ToSave
<1>2. CASE pr = Worker /\ it \in loc[Worker].todo /\ pc'[Worker] = "enqueue"
           /\ \A x \in loc'[Worker].todo : x.entry = None \/ x \in loc[Worker].todo
  <2>1. ToSave(Worker, it)
    BY <1>2 DEF EntryInv, TodoFits
  <2>2. PICK e \in Entries : e = it.entry
    OBVIOUS
  <2>3. For(e)' = For(e) /\ Turned(e)
    BY ForStays
  <2>4. entries[e].status \notin {"none", "planned"} /\ e \notin loc[Worker].deferred
        /\ (\A i \in For(e) : changes[i].prod # it.prod)
        /\ (\A i \in For(e) : changes[i].status \in Last => Reused(changes[i].task))
        /\ (entries[e].status = "done" => \E i \in For(e) : Reused(changes[i].task))
        /\ pc[Worker] = "enqueue"
    BY <2>1, <2>2 DEF ToSave
  <2>5. entries'[e].status \notin {"none", "planned"}
    BY <1>2, <2>2, <2>3, <2>4 DEF Turned
  <2>6. e \notin loc'[Worker].deferred
    BY <2>4 DEF LocsCalm
  <2>7. ASSUME NEW i \in For(e)
        PROVE  /\ changes'[i].prod # it.prod
               /\ Reused(changes[i].task) => Reused(changes[i].task)'
               /\ changes'[i].status \in Last => Reused(changes[i].task)'
    <3>1. i \in Ids /\ changes'[i].prod = changes[i].prod
      BY DEF For, RowsCalm, Fixed
    <3>2. Reused(changes[i].task) => Reused(changes[i].task)'
      BY <3>1, ChangeReused
    <3>3. ASSUME changes'[i].status \in Last
          PROVE  Reused(changes[i].task)'
      <4>1. CASE changes[i].status \in Last
        BY <2>4, <2>7, <3>2, <4>1
      <4>2. CASE changes[i].status \notin Last
        BY <1>2, <3>1, <3>3, <4>2 DEF RowsCalm
      <4> QED
        BY <4>1, <4>2
    <3> QED
      BY <2>4, <3>1, <3>2, <3>3
  <2>8. entries'[e].status = "done" => \E i \in For(e) : Reused(changes[i].task)'
    <3>1. CASE entries[e].status = "done"
      BY <2>4, <2>7, <3>1
    <3>2. CASE entries[e].status # "done"
      BY <2>3, <2>7, <3>2 DEF Turned
    <3> QED
      BY <3>1, <3>2
  <2>9. \A x \in loc'[Worker].todo : x # it /\ x.entry = it.entry => x.prod # it.prod
    BY <1>2, <2>1 DEF ToSave
  <2> QED
    BY <1>2, <2>2, <2>3, <2>5, <2>6, <2>7, <2>8, <2>9 DEF ToSave
<1>3. ASSUME pr = Worker, pc'[Worker] = "enqueue", NEW e \in Entries,
             Fresh(e), e \notin loc'[Worker].deferred, entries'[e].status = entries[e].status,
             \A y \in loc'[Worker].todo :
                y.entry = e /\ \A x \in loc'[Worker].todo : x.prod = y.prod => x = y
      PROVE  ToSave(pr, it)'
  <2>1. it.entry = e /\ For(e)' = {} /\ entries'[e].status \notin {"none", "planned", "done"}
    BY <1>3, ForStays DEF Fresh
  <2>2. \A x \in loc'[Worker].todo : x # it => x.prod # it.prod
    BY <1>3
  <2> QED
    BY <1>3, <2>1, <2>2 DEF ToSave
<1> QED
  BY <1>1, <1>2, <1>3 DEF LocsCalm

LEMMA EntriesKept ==
    ASSUME IInv, IInv', EntryInv, RowsCalm, LocsCalm, \A e \in Entries : Turned(e),
           (\A e \in Entries : entries[e].status = "none" => entries'[e].status = "none") \/ PairsTogether'
    PROVE  EntryInv'
<1>1. PlannedFresh'
  <2> SUFFICES ASSUME NEW e \in Entries, entries'[e].status \in {"none", "planned"}
               PROVE  For(e) = {}
    BY ForStays DEF PlannedFresh
  <2> QED
    BY DEF EntryInv, PlannedFresh, Turned
<1>2. DeferredFresh'
  <2> SUFFICES ASSUME NEW e \in loc'[Worker].deferred
               PROVE  Fresh(e)'
    BY DEF DeferredFresh
  <2>1. e \in Entries
    <3>1. Worker \in Procs /\ loc' \in [Procs -> Local]
      BY DEF IInv, LocInv, Procs
    <3>2. loc'[Worker] \in Local
      BY <3>1
    <3> QED
      BY <3>2 DEF Local
  <2>2. Fresh(e)
    BY DEF LocsCalm, EntryInv, DeferredFresh, ExecutingFresh
  <2>3. Turned(e) /\ (entries'[e].status # "planned" \/ entries'[e].status = entries[e].status)
    BY <2>1, <2>2 DEF Turned
  <2> QED
    BY <2>2, <2>3, FreshStays
<1>3. ExecutingFresh'
  <2> SUFFICES ASSUME pc'[Worker] = "execute"
               PROVE  Fresh(loc[Worker].entry)' /\ loc'[Worker].entry \notin loc'[Worker].deferred
    BY DEF ExecutingFresh
  <2>1. PICK e \in Entries : e = loc'[Worker].entry
    BY DEF LocsCalm
  <2>2. e \notin loc'[Worker].deferred
    BY <2>1 DEF LocsCalm
  <2>3. CASE pc[Worker] = "execute" /\ e = loc[Worker].entry
    <3>1. Fresh(e)
      BY <2>3 DEF EntryInv, ExecutingFresh
    <3>2. Turned(e) /\ (entries'[e].status # "planned" \/ entries'[e].status = entries[e].status)
      BY <2>1, <3>1 DEF Turned
    <3>3. Fresh(e)'
      BY <3>1, <3>2, FreshStays
    <3> QED
      BY <2>1, <2>2, <3>3 DEF Fresh, For
  <2>4. CASE entries[e].status = "planned" /\ entries'[e].status = "executing"
    <3>1. For(e) = {}
      BY <2>4 DEF EntryInv, PlannedFresh
    <3>2. Fresh(e)'
      BY <2>4, <3>1, ForStays DEF Fresh
    <3> QED
      BY <2>1, <2>2, <3>2 DEF Fresh, For
  <2> QED
    BY <2>1, <2>3, <2>4 DEF LocsCalm
<1>4. TodoFits'
  <2> SUFFICES ASSUME NEW pr \in Procs, NEW it \in loc'[pr].todo, it.entry # None
               PROVE  ToSave(pr, it)'
    BY DEF TodoFits
  <2>1. it.entry \in Entries
    <3>1. loc'[pr] \in Local
      BY DEF IInv, LocInv
    <3>2. it \in SafeIntent
      BY <3>1 DEF Local
    <3> QED
      BY <3>2 DEF SafeIntent
  <2> QED
    BY <2>1, TodoKept
<1>5. \A e \in Entries : entries[e].status # "none" => entries'[e].status # "none"
  BY DEF Turned
<1>6. PairsTogether'
  BY <1>5 DEF EntryInv, PairsTogether
<1>7. NamedKnown'
  <2> SUFFICES ASSUME NEW pr \in Procs, loc'[pr].entry # None
               PROVE  entries'[loc'[pr].entry].status # "none"
    BY DEF NamedKnown
  <2>1. loc'[pr].entry \in Entries
    <3>1. loc'[pr] \in Local
      BY DEF IInv, LocInv
    <3> QED
      BY <3>1 DEF Local
  <2>2. entries[loc'[pr].entry].status # "none"
    BY <2>1 DEF LocsCalm, EntryInv, NamedKnown
  <2> QED
    BY <1>5, <2>1, <2>2
<1>8. ScheduleOnce'
  BY DEF EntryInv, ScheduleOnce, RowsCalm, Fixed
<1>9. DoneMeansApplied'
  <2> SUFFICES ASSUME NEW i \in Ids, changes'[i].entry # None, entries'[changes'[i].entry].status = "done"
               PROVE  \/ changes'[i].status \in Last
                      \/ \E j \in Ids : j < i /\ changes'[j].entry = changes'[i].entry /\ Reused(changes[j].task)'
    BY DEF DoneMeansApplied, RowsCalm, Last
  <2>1. PICK e \in Entries : e = changes[i].entry /\ changes'[i].entry = e
    <3>1. changes'[i].entry = changes[i].entry
      BY DEF RowsCalm, Fixed
    <3>2. changes[i] \in SafeChange
      BY SavedRows DEF IInv, Ids
    <3> QED
      BY <3>1, <3>2 DEF SafeChange
  <2>2. CASE entries[e].status = "done"
    <3>1. \/ changes[i].status \in Last
          \/ \E j \in Ids : j < i /\ changes[j].entry = e /\ Reused(changes[j].task)
      BY <2>1, <2>2, NamesAssumption DEF EntryInv, DoneMeansApplied, Last
    <3>2. CASE changes[i].status \in Last
      BY <3>2 DEF RowsCalm, LastStays
    <3>3. ASSUME NEW j \in Ids, j < i, changes[j].entry = e, Reused(changes[j].task)
          PROVE  j < i /\ changes'[j].entry = changes'[i].entry /\ Reused(changes[j].task)'
      BY <2>1, <3>3, ChangeReused DEF RowsCalm, Fixed
    <3> QED
      BY <3>1, <3>2, <3>3
  <2>3. CASE entries[e].status # "done"
    BY <2>1, <2>3 DEF Turned, For
  <2> QED
    BY <2>2, <2>3
<1> QED
  BY <1>1, <1>2, <1>3, <1>4, <1>6, <1>7, <1>8, <1>9 DEF EntryInv

LEMMA SavedReused ==
    ASSUME NEW n, NEW it, SavedRow(n, it), NEW i \in Ids, Reused(changes[i].task)
    PROVE  Reused(changes[i].task)'
<1>1. PICK k \in Ids, l \in Ids : /\ changes[k].task = changes[i].task /\ changes[l].task = changes[i].task
                                  /\ changes[k].batch # changes[l].batch
  BY DEF Reused
<1>2. Ids \subseteq Ids' /\ \A j \in Ids : changes'[j].task = changes[j].task /\ changes'[j].batch = changes[j].batch
  BY DEF SavedRow
<1>3. changes[i].task # 0
  BY DEF Reused
<1>4. /\ changes'[k].task = changes'[i].task /\ changes'[l].task = changes'[i].task
      /\ changes'[k].batch # changes'[l].batch /\ k \in Ids' /\ l \in Ids' /\ changes'[i].task # 0
  BY <1>1, <1>2, <1>3
<1> QED
  BY <1>4 DEF Reused

LEMMA SavedTodo ==
    ASSUME IInv, EntryInv, NEW n \in Nat, NEW pr \in Procs, NEW it \in loc[pr].todo, SavedRow(n, it),
           entries' = entries, Turn(pr), pc'[pr] = "enqueue", loc'[pr].todo = loc[pr].todo \ {it},
           loc'[pr].deferred = loc[pr].deferred,
           NEW q \in Procs, NEW x \in loc'[q].todo, x.entry # None
    PROVE  ToSave(q, x)'
<1>1. x \in loc[q].todo /\ (q = pr => x # it) /\ loc'[q].todo \subseteq loc[q].todo
      /\ loc'[q].deferred = loc[q].deferred
  BY DEF Turn
<1>2. ToSave(q, x)
  BY <1>1 DEF EntryInv, TodoFits
<1>3. PICK e : e = x.entry
  OBVIOUS
<1>4. q = Worker /\ pc'[Worker] = "enqueue"
  BY <1>2 DEF ToSave, Turn
<1>5. /\ entries'[e].status \notin {"none", "planned"} /\ e \notin loc'[q].deferred
      /\ \A y \in loc'[q].todo : y # x /\ y.entry = e => y.prod # x.prod
  BY <1>1, <1>2, <1>3 DEF ToSave
<1>6. ASSUME NEW i \in For(e)
      PROVE  /\ i \in For(e)' /\ changes'[i].prod # x.prod
             /\ Reused(changes[i].task) => Reused(changes[i].task)'
             /\ changes'[i].status \in Last => Reused(changes[i].task)'
  <2>1. i \in Ids
    BY DEF For
  <2>2. i \in For(e)' /\ changes'[i].prod # x.prod
    BY <1>2, <1>3, <1>6, <2>1 DEF For, ToSave, SavedRow, Fixed
  <2>3. Reused(changes[i].task) => Reused(changes[i].task)'
    BY <2>1, SavedReused
  <2>4. changes'[i].status \in Last => changes[i].status \in Last
    BY <2>1 DEF SavedRow, Last
  <2> QED
    BY <1>2, <1>3, <1>6, <2>2, <2>3, <2>4 DEF ToSave
<1>7. ASSUME NEW i \in For(e)', i \notin For(e)
      PROVE  changes'[i].prod # x.prod /\ changes'[i].status \notin Last
  <2>1. i = n /\ it.entry = e
    BY <1>7 DEF For, SavedRow, Fixed
  <2>2. ToSave(pr, it)
    BY <1>3, <2>1 DEF EntryInv, TodoFits
  <2>3. pr = q
    BY <1>4, <2>2 DEF ToSave
  <2>4. it.prod # x.prod
    BY <1>1, <1>2, <1>3, <2>1, <2>3 DEF ToSave
  <2> QED
    BY <2>1, <2>4 DEF SavedRow, Last
<1>8. entries'[e].status = "done" => \E i \in For(e)' : Reused(changes[i].task)'
  BY <1>2, <1>3, <1>6 DEF ToSave
<1>9. \A i \in For(e)' : /\ changes'[i].prod # x.prod
                         /\ changes'[i].status \in Last => Reused(changes[i].task)'
  BY <1>6, <1>7
<1> QED
  BY <1>3, <1>4, <1>5, <1>8, <1>9 DEF ToSave

LEMMA EntriesSaved ==
    ASSUME IInv, EntryInv, NEW n \in Nat, NEW pr \in Procs, NEW it \in loc[pr].todo, SavedRow(n, it),
           entries' = entries, Turn(pr), pc'[pr] = "enqueue", loc'[pr].todo = loc[pr].todo \ {it},
           loc'[pr].deferred = loc[pr].deferred, loc'[pr].entry = loc[pr].entry
    PROVE  EntryInv'
<1>1. it.entry # None => ToSave(pr, it)
  BY DEF EntryInv, TodoFits
<1>2. ASSUME NEW e \in Entries, it.entry # e
      PROVE  For(e)' = For(e)
  BY <1>2 DEF For, SavedRow, Fixed
<1>3. None \notin Entries /\ Worker \in Procs
  BY NamesAssumption DEF Procs
<1>4. loc'[Worker].deferred = loc[Worker].deferred /\ \A q \in Procs : loc'[q].entry = loc[q].entry
  BY <1>3 DEF Turn
<1>5. loc[Worker].deferred \subseteq Entries /\ (pc[Worker] = "execute" => loc[Worker].entry \in Entries)
  <2>1. loc[Worker] \in Local
    BY <1>3, LocalsFit
  <2> QED
    BY <1>3, <2>1, LocalsFit DEF Local, Fits
<1>6. PlannedFresh'
  <2> SUFFICES ASSUME NEW e \in Entries, entries[e].status \in {"none", "planned"}
               PROVE  For(e)' = {}
    BY DEF PlannedFresh
  <2>1. it.entry # e
    BY <1>1, <1>3 DEF ToSave
  <2> QED
    BY <1>2, <2>1 DEF EntryInv, PlannedFresh
<1>7. ASSUME NEW e \in Entries, Fresh(e), it.entry # e
      PROVE  Fresh(e)'
  BY <1>2, <1>7 DEF Fresh
<1>8. DeferredFresh'
  <2> SUFFICES ASSUME NEW e \in loc[Worker].deferred
               PROVE  Fresh(e)'
    BY <1>4 DEF DeferredFresh
  <2>1. e \in Entries /\ Fresh(e) /\ it.entry # e
    BY <1>1, <1>3, <1>5 DEF EntryInv, DeferredFresh, ToSave
  <2> QED
    BY <1>7, <2>1
<1>9. ExecutingFresh'
  <2> SUFFICES ASSUME pc'[Worker] = "execute"
               PROVE  Fresh(loc[Worker].entry)' /\ loc'[Worker].entry \notin loc'[Worker].deferred
    BY DEF ExecutingFresh
  <2>1. pr # Worker /\ pc[Worker] = "execute"
    BY <1>3 DEF Turn
  <2>2. PICK e \in Entries : e = loc[Worker].entry
    BY <1>5, <2>1
  <2>3. Fresh(e) /\ it.entry # e
    BY <1>1, <1>3, <2>1, <2>2 DEF EntryInv, ExecutingFresh, ToSave
  <2>4. Fresh(e)' /\ loc'[Worker].entry = e
    BY <1>3, <1>4, <1>7, <2>2, <2>3
  <2>5. e \notin loc'[Worker].deferred
    BY <1>4, <2>1, <2>2 DEF EntryInv, ExecutingFresh
  <2>6. Fresh(loc[Worker].entry)'
    BY <2>4 DEF Fresh, For
  <2> QED
    BY <2>4, <2>5, <2>6
<1>10. TodoFits'
  BY SavedTodo DEF TodoFits
<1>11. PairsTogether' /\ NamedKnown'
  BY <1>4 DEF EntryInv, PairsTogether, NamedKnown
<1>12. ScheduleOnce'
  <2> SUFFICES ASSUME NEW i \in Ids', NEW j \in Ids', i # j, changes'[i].entry # None,
                      changes'[i].entry = changes'[j].entry, i \in Ids
               PROVE  changes'[i].prod # changes'[j].prod
    BY DEF ScheduleOnce, SavedRow
  <2>1. changes'[i].entry = changes[i].entry /\ changes'[i].prod = changes[i].prod
    BY DEF SavedRow, Fixed
  <2>2. CASE j \in Ids
    <3>1. changes'[j].entry = changes[j].entry /\ changes'[j].prod = changes[j].prod
      BY <2>2 DEF SavedRow, Fixed
    <3>2. ScheduleOnce
      BY DEF EntryInv
    <3>3. changes[i].entry # None /\ changes[i].entry = changes[j].entry
      BY <2>1, <3>1
    <3> QED
      BY <2>1, <2>2, <3>1, <3>2, <3>3 DEF ScheduleOnce
  <2>3. CASE j = n
    <3>1. it.entry = changes[i].entry /\ changes'[j].prod = it.prod
      BY <2>1, <2>3 DEF SavedRow
    <3>2. i \in For(it.entry)
      BY <3>1 DEF For
    <3> QED
      BY <1>1, <2>1, <3>1, <3>2 DEF ToSave
  <2> QED
    BY <2>2, <2>3 DEF SavedRow
<1>13. DoneMeansApplied'
  <2> SUFFICES ASSUME NEW i \in Ids', changes'[i].entry # None, entries[changes'[i].entry].status = "done"
               PROVE  \/ changes'[i].status \in Last
                      \/ \E j \in Ids' : j < i /\ changes'[j].entry = changes'[i].entry /\ Reused(changes[j].task)'
    BY DEF DoneMeansApplied, Last
  <2>1. CASE i \in Ids
    <3>1. \/ changes[i].status \in Last
          \/ \E j \in Ids : j < i /\ changes[j].entry = changes[i].entry /\ Reused(changes[j].task)
      BY <2>1 DEF EntryInv, DoneMeansApplied, Last, SavedRow, Fixed
    <3>2. CASE changes[i].status \in Last
      BY <2>1, <3>2 DEF SavedRow, Last
    <3>3. ASSUME NEW j \in Ids, j < i, changes[j].entry = changes[i].entry, Reused(changes[j].task)
          PROVE  j \in Ids' /\ j < i /\ changes'[j].entry = changes'[i].entry /\ Reused(changes[j].task)'
      BY <2>1, <3>3, SavedReused DEF SavedRow, Fixed
    <3> QED
      BY <3>1, <3>2, <3>3
  <2>2. CASE i = n
    <3>1. it.entry = changes'[i].entry
      BY <2>2 DEF SavedRow
    <3>2. PICK j \in For(it.entry) : Reused(changes[j].task)
      BY <1>1, <3>1 DEF ToSave
    <3>3. j \in Ids /\ changes[j].entry = it.entry
      BY <3>2 DEF For
    <3>4. Reused(changes[j].task)'
      BY <3>2, <3>3, SavedReused
    <3> QED
      BY <2>2, <3>1, <3>3, <3>4 DEF SavedRow, Fixed
  <2> QED
    BY <2>1, <2>2 DEF SavedRow
<1> QED
  BY <1>6, <1>8, <1>9, <1>10, <1>11, <1>12, <1>13 DEF EntryInv

-----------------------------------------------------------------------------
(* Statements that write entries.                                          *)

\* Entries that are left alone, or whose status is set.
LEMMA UpdatedTurn ==
    ASSUME IInv, NEW S, NEW st \in {"failed", "canceled"}, UpdateEntries(S, st),
           \A e \in S \cap Entries : entries[e].status # "none"
    PROVE  /\ \A e \in Entries : Turned(e)
           /\ \A e \in Entries : entries[e].status = "none" => entries'[e].status = "none"
<1>1. ASSUME NEW e \in Entries
      PROVE  /\ entries'[e].status \in {entries[e].status, st}
             /\ e \notin S => entries'[e].status = entries[e].status
  <2>1. entries[e] \in [status : EntryStatus, tasks : SUBSET (1 .. Len(tasks))]
    BY DEF IInv, RowsInv
  <2>2. entries'[e] = IF e \in S /\ entries[e].status \notin Ended
                      THEN [entries[e] EXCEPT !.status = st] ELSE entries[e]
    BY DEF UpdateEntries
  <2> QED
    BY <2>1, <2>2
<1> QED
  BY <1>1 DEF Turned

LEMMA AggregatedTurn ==
    ASSUME IInv, IInv', NEW es \in [Entries -> [status : EntryStatus, tasks : SUBSET Nat]], NEW ts, NEW X,
           entries' = Aggregate(changes', ts, es, X), NEW e \in Entries
    PROVE  \/ entries'[e].status = es[e].status
           \/ es[e].status = "executing" /\ entries'[e].status = "failed"
           \/ /\ es[e].status = "executing" /\ entries'[e].status = "done"
              /\ For(e)' # {} /\ \A i \in For(e)' : changes'[i].status \in Last
<1>1. For(e)' = {i \in DOMAIN changes' : changes'[i].entry = e}
  BY DEF For, Ids
<1>2. es[e] \in [status : EntryStatus, tasks : SUBSET Nat]
  OBVIOUS
<1>3. entries'[e].status \in {es[e].status, Aggregated(changes', ts, es, e)}
  BY <1>2 DEF Aggregate
<1>4. PICK mine : mine = For(e)'
  OBVIOUS
<1>5. \/ Aggregated(changes', ts, es, e) = es[e].status
      \/ /\ es[e].status = "executing" /\ mine # {}
         /\ \A i \in mine : changes'[i].status \notin InFlight
         /\ \/ Aggregated(changes', ts, es, e) = "failed"
            \/ /\ Aggregated(changes', ts, es, e) = "done"
               /\ ~\E i \in mine : changes'[i].status = "failed"
  BY <1>1, <1>4 DEF Aggregated
<1>6. \A i \in For(e)' : changes'[i].status \in ChangeStatus
  <2>1. changes' \in Seq(SafeChange)
    BY DEF IInv, RowsInv
  <2>2. \A i \in DOMAIN changes' : changes'[i] \in SafeChange
    BY <2>1
  <2> QED
    BY <1>1, <2>2 DEF SafeChange
<1> QED
  BY <1>3, <1>4, <1>5, <1>6 DEF ChangeStatus, Last

\* Aggregation, after statements that leave the statuses of entries alone.
LEMMA AggregatedTurns ==
    ASSUME IInv, IInv', RowsCalm, NEW es \in [Entries -> [status : EntryStatus, tasks : SUBSET Nat]],
           NEW ts, NEW X, entries' = Aggregate(changes', ts, es, X),
           \A e \in Entries : es[e].status = entries[e].status
    PROVE  /\ \A e \in Entries : Turned(e)
           /\ \A e \in Entries : entries[e].status = "none" => entries'[e].status = "none"
<1>1. ASSUME NEW e \in Entries
      PROVE  Turned(e) /\ (entries[e].status = "none" => entries'[e].status = "none")
  <2>1. \/ entries'[e].status = entries[e].status
        \/ entries[e].status = "executing" /\ entries'[e].status = "failed"
        \/ /\ entries[e].status = "executing" /\ entries'[e].status = "done"
           /\ For(e)' # {} /\ \A i \in For(e)' : changes'[i].status \in Last
    BY AggregatedTurn
  <2>2. For(e)' = For(e)
    BY ForStays
  <2> QED
    BY <2>1, <2>2 DEF Turned
<1> QED
  BY <1>1

-----------------------------------------------------------------------------
(* Statements that save nothing.                                           *)

LEMMA StillCalm ==
    ASSUME IInv, UNCHANGED changes
    PROVE  RowsCalm
  BY DEF RowsCalm, Fixed, LastStays, Ids

LEMMA SetStatusCalm ==
    ASSUME IInv, NEW S \in SUBSET Ids, NEW st, st \notin Last, SetStatus(S, st),
           \A i \in S : changes[i].status \notin Last
    PROVE  RowsCalm
<1>1. Ids' = Ids /\ \A i \in Ids : changes[i] \in SafeChange
  BY SavedRows DEF IInv, Ids, SetStatus
<1>2. ASSUME NEW i \in Ids
      PROVE  /\ changes'[i].prod = changes[i].prod /\ changes'[i].new = changes[i].new
             /\ changes'[i].entry = changes[i].entry /\ changes'[i].undo = changes[i].undo
             /\ changes'[i].batch = changes[i].batch /\ changes'[i].task = changes[i].task
             /\ changes'[i].status = IF i \in S THEN st ELSE changes[i].status
  <2>1. CASE i \in S
    <3>1. changes'[i] = [changes[i] EXCEPT !.status = st] /\ changes[i] \in SafeChange
      BY <1>1, <2>1 DEF SetStatus
    <3> QED
      BY <2>1, <3>1 DEF SafeChange
  <2>2. CASE i \notin S
    BY <2>2 DEF SetStatus
  <2> QED
    BY <2>1, <2>2
<1> QED
  BY <1>1, <1>2 DEF RowsCalm, Fixed, LastStays

LEMMA MovedCalm ==
    ASSUME IInv, LockInv, NEW S, Moved(S),
           \A i \in S : changes'[i].status = "applied" /\ pc'[Worker] = "enqueue" => Reused(changes[i].task)'
    PROVE  RowsCalm
<1>1. Ids' = Ids /\ Fixed /\ S \subseteq Ids
  BY DEF Moved
<1>2. ASSUME NEW i \in Ids
      PROVE  /\ changes[i].status \in Last => changes'[i].status \in Last
             /\ changes[i].task # 0 => changes'[i].task = changes[i].task
             /\ changes'[i].batch = changes[i].batch
             /\ changes'[i].status \in Last /\ changes[i].status \notin Last =>
                   i \in S /\ changes'[i].status = "applied"
  <2>1. changes'[i].batch = changes[i].batch
    BY DEF Moved
  <2>2. CASE i \in S
    <3>1. /\ changes[i].status \in Transport
          /\ changes'[i].status \in Transport \cup {"applied", "failed"}
          /\ changes[i].status = "uploaded" => changes'[i].task = changes[i].task
      BY <2>2 DEF Moved
    <3>2. changes[i].status # "uploaded" => changes[i].task = 0
      BY <3>1 DEF LockInv, ChangeInv, ChangeOk, NotLinked, Transport
    <3> QED
      BY <2>1, <2>2, <3>1, <3>2 DEF Last, Transport
  <2>3. CASE i \notin S
    BY <2>1, <2>3 DEF Moved, Last
  <2> QED
    BY <2>2, <2>3
<1> QED
  BY <1>1, <1>2 DEF RowsCalm, LastStays

\* Only the executor has intents of entries, while it saves them.
LEMMA NoIntents ==
    ASSUME EntryInv, NEW pr \in Procs, pc[pr] # "enqueue" \/ pr # Worker
    PROVE  \A it \in loc[pr].todo : it.entry = None
  BY DEF EntryInv, TodoFits, ToSave

LEMMA StepCalm ==
    ASSUME IInv, EntryInv, NEW pr \in Procs, Turn(pr), pc'[pr] # "execute",
           \A it \in loc'[pr].todo :
              it.entry = None \/ (it \in loc[pr].todo /\ (pc'[pr] = "enqueue" \/ pc[pr] # "enqueue")),
           loc'[pr].deferred \subseteq loc[pr].deferred,
           loc'[pr].entry \in Entries =>
              loc'[pr].entry = loc[pr].entry \/ entries[loc'[pr].entry].status # "none"
    PROVE  LocsCalm
<1>0. Worker \in Procs
  BY DEF Procs
<1>1. \A q \in Procs \ {Worker} : \A it \in loc'[q].todo : it.entry = None \/ it \in loc[q].todo
  BY DEF Turn
<1>2. \A it \in loc'[Worker].todo : it.entry = None \/ (it \in loc[Worker].todo /\ pc'[Worker] = "enqueue")
  <2>1. CASE pr = Worker
    BY <2>1, NoIntents
  <2>2. CASE pr # Worker
    BY <1>0, <2>2, NoIntents DEF Turn
  <2> QED
    BY <2>1, <2>2
<1>3. \A e \in loc'[Worker].deferred : e \in loc[Worker].deferred
  BY <1>0 DEF Turn
<1>4. pc'[Worker] = "execute" =>
         /\ loc'[Worker].entry \in Entries /\ loc'[Worker].entry \notin loc'[Worker].deferred
         /\ pc[Worker] = "execute" /\ loc'[Worker].entry = loc[Worker].entry
  <2>1. ASSUME pc'[Worker] = "execute"
        PROVE  pc[Worker] = "execute" /\ loc'[Worker] = loc[Worker]
    BY <1>0, <2>1 DEF Turn
  <2>2. pc[Worker] = "execute" => loc[Worker].entry \in Entries /\ loc[Worker].entry \notin loc[Worker].deferred
    BY <1>0, LocalsFit DEF Fits, EntryInv, ExecutingFresh
  <2> QED
    BY <2>1, <2>2
<1>5. \A q \in Procs : loc'[q].entry \in Entries =>
         loc'[q].entry = loc[q].entry \/ entries[loc'[q].entry].status # "none"
  BY DEF Turn
<1> QED
  BY <1>1, <1>2, <1>3, <1>4, <1>5 DEF LocsCalm

LEMMA LocsStay ==
    ASSUME IInv, EntryInv, UNCHANGED <<pc, loc>>
    PROVE  LocsCalm
<1>1. Worker \in Procs /\ Turn(Worker)
  BY DEF Procs, Turn
<1>2. CASE pc[Worker] # "execute"
  BY <1>1, <1>2, StepCalm
<1>3. CASE pc[Worker] = "execute"
  <2>1. loc[Worker].entry \in Entries /\ loc[Worker].entry \notin loc[Worker].deferred
    BY <1>1, <1>3, LocalsFit DEF Fits, EntryInv, ExecutingFresh
  <2>2. \A it \in loc[Worker].todo : it.entry = None
    BY <1>1, <1>3, NoIntents
  <2> QED
    BY <1>3, <2>1, <2>2 DEF LocsCalm
<1> QED
  BY <1>2, <1>3

LEMMA ReturnCalm ==
    ASSUME IInv, EntryInv, NEW pr \in Procs, Return(pr)
    PROVE  LocsCalm
<1>1. pc'[pr] = "idle" /\ loc'[pr] = Idle /\ Turn(pr)
  BY GotoTurn DEF Return
<1>2. Idle.todo = {} /\ Idle.deferred = {} /\ Idle.entry = None /\ None \notin Entries
  BY NamesAssumption DEF Idle
<1> QED
  BY <1>1, <1>2, StepCalm

LEMMA OngoingCalm ==
    ASSUME IInv, EntryInv, NEW pr \in Procs, NEW l, l # "execute", NEW new, Goto(pr, l, new),
           new.todo \subseteq loc[pr].todo, l = "enqueue" \/ pc[pr] # "enqueue" \/ new.todo = {},
           new.deferred = loc[pr].deferred, new.entry = loc[pr].entry
    PROVE  LocsCalm
<1>1. pc'[pr] = l /\ loc'[pr] = new /\ Turn(pr)
  BY GotoTurn
<1> QED
  BY <1>1, StepCalm

LEMMA DrainEndCalm ==
    ASSUME IInv, EntryInv, NEW pr \in Procs, DrainEnd(pr), pc[pr] # "enqueue"
    PROVE  LocsCalm
<1>1. CASE loc[pr].job = "schedule"
  <2>1. PICK new : new = [loc[pr] EXCEPT !.batch = {}, !.task = 0, !.retry = FALSE]
    OBVIOUS
  <2>2. Goto(pr, "through", new)
    BY <1>1, <2>1 DEF DrainEnd
  <2>3. new.todo = loc[pr].todo /\ new.deferred = loc[pr].deferred /\ new.entry = loc[pr].entry
    BY <2>1, LocalsFit DEF Local
  <2> QED
    BY <2>2, <2>3, OngoingCalm
<1>2. CASE loc[pr].job # "schedule"
  BY <1>2, ReturnCalm DEF DrainEnd
<1> QED
  BY <1>1, <1>2

LEMMA NextEntryCalm ==
    ASSUME IInv, EntryInv, NEW D, NextEntry(D), D = {} \/ (pc[Worker] = "execute" /\ D = {loc[Worker].entry})
    PROVE  LocsCalm
<1>1. PICK d : d = loc[Worker].deferred \cup D
  OBVIOUS
<1>2. PICK new : new = [Idle EXCEPT !.job = "schedule", !.deferred = d]
  OBVIOUS
<1>3. Goto(Worker, "due", new) /\ Worker \in Procs
  BY <1>1, <1>2 DEF NextEntry, Procs
<1>4. new.todo = {} /\ new.deferred = d /\ new.entry = None /\ None \notin Entries
  BY <1>2, NamesAssumption DEF Idle
<1>5. pc'[Worker] = "due" /\ loc'[Worker] = new /\ Turn(Worker)
  BY <1>3, GotoTurn
<1>6. \A e \in d : e \in loc[Worker].deferred \/ (pc[Worker] = "execute" /\ e = loc[Worker].entry)
  BY <1>1
<1> QED
  BY <1>4, <1>5, <1>6 DEF LocsCalm, Turn

\* Steps that leave the entries alone.
LEMMA EntriesLeft ==
    ASSUME IInv, IInv', EntryInv, RowsCalm, LocsCalm, UNCHANGED entries
    PROVE  EntryInv'
  BY EntriesKept DEF Turned

-----------------------------------------------------------------------------

LEMMA RequestsKeepEntries ==
    ASSUME IInv, IInv', EntryInv, NEW a \in Apis, NEW e,
           Bulk(a) \/ Rollback(a) \/ (CancelRead(a, e) /\ e \in Entries) \/ CancelWrite(a)
    PROVE  EntryInv'
<1>0. a \in Procs /\ RowsCalm
  BY StillCalm DEF Procs, Bulk, Rollback, CancelRead, CancelWrite, rows
<1>1. ASSUME NEW j, NEW T, \A it \in T : it.entry = None, UNCHANGED entries,
             Goto(a, "enqueue", [Idle EXCEPT !.job = j, !.todo = T])
      PROVE  EntryInv'
  <2>1. PICK new : new = [Idle EXCEPT !.job = j, !.todo = T]
    OBVIOUS
  <2>2. pc'[a] = "enqueue" /\ loc'[a] = new /\ Turn(a)
    BY <1>0, <1>1, <2>1, GotoTurn
  <2>3. new.todo = T /\ new.deferred = {} /\ new.entry = None /\ None \notin Entries
    BY <2>1, NamesAssumption DEF Idle
  <2>4. LocsCalm
    BY <1>0, <1>1, <2>2, <2>3, StepCalm
  <2> QED
    BY <1>0, <1>1, <2>4, EntriesLeft
<1>2. CASE Bulk(a)
  <2>1. PICK S \in SUBSET Products, v \in Targets, floors \in MarginFloors :
           Goto(a, "enqueue", [Idle EXCEPT !.job = "manual", !.todo = RequestIntents(S, v, None, floors)])
    BY <1>2 DEF Bulk
  <2>2. PICK T : T = RequestIntents(S, v, None, floors)
    OBVIOUS
  <2>3. Goto(a, "enqueue", [Idle EXCEPT !.job = "manual", !.todo = T]) /\ \A it \in T : it.entry = None
    BY <2>1, <2>2, RequestFields
  <2> QED
    BY <1>1, <1>2, <2>3 DEF Bulk, rows
<1>3. CASE Rollback(a)
  <2>1. PICK i \in Ids : Goto(a, "enqueue", [Idle EXCEPT !.job = "rollback", !.todo = {Undoing(i)}])
    BY <1>3 DEF Rollback, Undoing
  <2>2. PICK T : T = {Undoing(i)}
    OBVIOUS
  <2>3. Goto(a, "enqueue", [Idle EXCEPT !.job = "rollback", !.todo = T]) /\ \A it \in T : it.entry = None
    BY <2>1, <2>2, IntentFields DEF Undoing
  <2> QED
    BY <1>1, <1>3, <2>3 DEF Rollback, rows
<1>4. CASE CancelRead(a, e) /\ e \in Entries
  <2>1. PICK new : new = [Idle EXCEPT !.job = "cancel", !.entry = e]
    OBVIOUS
  <2>2. pc'[a] = "cancel" /\ loc'[a] = new /\ Turn(a)
    BY <1>0, <1>4, <2>1, GotoTurn DEF CancelRead
  <2>3. new.todo = {} /\ new.deferred = {} /\ new.entry = e /\ entries[e].status = "planned"
    BY <1>4, <2>1 DEF Idle, CancelRead
  <2>4. LocsCalm
    BY <1>0, <2>2, <2>3, StepCalm
  <2> QED
    BY <1>0, <1>4, <2>4, EntriesLeft DEF CancelRead, rows
<1>5. CASE CancelWrite(a)
  <2>1. UpdateEntries({loc[a].entry}, "canceled") /\ LocsCalm
    BY <1>0, <1>5, ReturnCalm DEF CancelWrite
  <2>2. \A e1 \in {loc[a].entry} \cap Entries : entries[e1].status # "none"
    BY <1>0, NamesAssumption DEF EntryInv, NamedKnown
  <2> QED
    BY <1>0, <2>1, <2>2, UpdatedTurn, EntriesKept
<1> QED
  BY <1>2, <1>3, <1>4, <1>5

LEMMA CreateKeepsEntries ==
    ASSUME IInv, IInv', EntryInv, NEW e \in Entries, CreateSchedule(e)
    PROVE  EntryInv'
<1>1. /\ RowsCalm /\ LocsCalm /\ UNCHANGED <<pc, loc>>
      /\ RevertOf[e] = None /\ entries[e].status = "none"
  BY StillCalm, LocsStay DEF CreateSchedule
<1>2. PICK pair \in SUBSET Entries : pair = {e} \cup {r \in Entries : RevertOf[r] = e}
  OBVIOUS
<1>3. ASSUME NEW x \in Entries
      PROVE  entries'[x].status = IF x \in pair THEN "planned" ELSE entries[x].status
  <2>1. entries' = [y \in Entries |-> IF y \in pair THEN [entries[y] EXCEPT !.status = "planned"] ELSE entries[y]]
    BY <1>2 DEF CreateSchedule
  <2>2. entries[x] \in [status : EntryStatus, tasks : SUBSET (1 .. Len(tasks))]
    BY DEF IInv, RowsInv
  <2> QED
    BY <2>1, <2>2
<1>4. \A x \in pair : entries[x].status = "none"
  BY <1>1, <1>2 DEF EntryInv, PairsTogether
<1>5. ASSUME NEW x \in pair
      PROVE  Turned(x)
  <2>1. entries[x].status = "none" /\ entries'[x].status = "planned" /\ x \in Entries /\ Worker \in Procs
    BY <1>3, <1>4 DEF Procs
  <2>2. For(x) = {}
    BY <2>1 DEF EntryInv, PlannedFresh
  <2>3. x \notin loc[Worker].deferred
    BY <2>1 DEF EntryInv, DeferredFresh, Fresh
  <2>4. pc[Worker] = "execute" => loc[Worker].entry # x
    BY <2>1 DEF EntryInv, ExecutingFresh, Fresh
  <2>5. \A it \in loc[Worker].todo : it.entry # x
    BY <2>1, NamesAssumption DEF EntryInv, TodoFits, ToSave
  <2> QED
    BY <1>1, <2>1, <2>2, <2>3, <2>4, <2>5 DEF Turned
<1>6. \A x \in Entries : Turned(x)
  BY <1>3, <1>5 DEF Turned
<1>7. PairsTogether'
  <2> SUFFICES ASSUME NEW x \in Entries, NEW r \in Entries, RevertOf[r] = x, entries'[x].status = "none"
               PROVE  entries'[r].status = "none"
    BY DEF PairsTogether
  <2>1. x \notin pair /\ entries[x].status = "none"
    BY <1>3
  <2>2. entries[r].status = "none"
    BY <2>1 DEF EntryInv, PairsTogether
  <2>3. r \notin pair
    BY <1>1, <1>2, <2>1, NamesAssumption
  <2> QED
    BY <1>3, <2>2, <2>3
<1> QED
  BY <1>1, <1>6, <1>7, EntriesKept

-----------------------------------------------------------------------------
(* The executor.                                                           *)

LEMMA ClaimDueKeepsEntries ==
    ASSUME IInv, IInv', EntryInv, NEW e \in Entries, ClaimDue(e)
    PROVE  EntryInv'
<1>1. /\ RowsCalm /\ Worker \in Procs /\ entries[e].status = "planned"
      /\ pc[Worker] \notin {"enqueue", "execute"}
  BY StillCalm DEF ClaimDue, Procs
<1>2. PICK new : new = [loc[Worker] EXCEPT !.job = "schedule", !.entry = e]
  OBVIOUS
<1>3. pc'[Worker] = "execute" /\ loc'[Worker] = new /\ Turn(Worker)
  BY <1>1, <1>2, GotoTurn DEF ClaimDue
<1>4. new.todo = loc[Worker].todo /\ new.deferred = loc[Worker].deferred /\ new.entry = e
  BY <1>1, <1>2, LocalsFit DEF Local
<1>5. ASSUME NEW x \in Entries
      PROVE  entries'[x].status = IF x = e THEN "executing" ELSE entries[x].status
  <2>1. entries' = [entries EXCEPT ![e].status = "executing"]
    BY DEF ClaimDue
  <2>2. entries[x] \in [status : EntryStatus, tasks : SUBSET (1 .. Len(tasks))]
    BY DEF IInv, RowsInv
  <2>3. DOMAIN entries = Entries
    BY DEF IInv, RowsInv
  <2> QED
    BY <2>1, <2>2, <2>3
<1>6. e \notin new.deferred
  BY <1>1, <1>4 DEF EntryInv, DeferredFresh, Fresh
<1>7. \A it \in new.todo : it.entry = None
  BY <1>1, <1>4, NoIntents
<1>8. \A pr \in Procs : loc'[pr].entry \in Entries =>
          loc'[pr].entry = loc[pr].entry \/ entries[loc'[pr].entry].status # "none"
  BY <1>1, <1>3, <1>4 DEF Turn
<1>9. LocsCalm
  BY <1>1, <1>3, <1>4, <1>5, <1>6, <1>7, <1>8 DEF LocsCalm, Turn
<1>10. \A x \in Entries : Turned(x) /\ (entries[x].status = "none" => entries'[x].status = "none")
  BY <1>1, <1>5 DEF Turned
<1> QED
  BY <1>1, <1>9, <1>10, EntriesKept

LEMMA SyncsKeepEntries ==
    ASSUME IInv, IInv', EntryInv, SyncRead \/ SyncStore
    PROVE  EntryInv'
<1>1. Worker \in Procs /\ RowsCalm /\ UNCHANGED entries
  BY StillCalm DEF Procs, SyncRead, SyncStore, rows
<1>2. CASE SyncRead
  <2>1. PICK new : new = [Idle EXCEPT !.job = "reprice", !.read = wbPrice]
    OBVIOUS
  <2>2. pc'[Worker] = "store" /\ loc'[Worker] = new /\ Turn(Worker)
    BY <1>1, <1>2, <2>1, GotoTurn DEF SyncRead
  <2>3. new.todo = {} /\ new.deferred = {} /\ new.entry = None /\ None \notin Entries
    BY <2>1, NamesAssumption DEF Idle
  <2>4. LocsCalm
    BY <1>1, <2>2, <2>3, StepCalm
  <2> QED
    BY <1>1, <2>4, EntriesLeft
<1>3. CASE SyncStore
  <2>1. CASE Return(Worker)
    BY <1>1, <2>1, ReturnCalm, EntriesLeft
  <2>2. CASE ~Return(Worker)
    <3>1. PICK price, S, econ, blind : \E todo \in StrategyIntents(price, S, econ, blind) :
             Goto(Worker, "enqueue", [Idle EXCEPT !.job = "reprice", !.todo = todo])
      BY <1>3, <2>2 DEF SyncStore
    <3>2. PICK T \in StrategyIntents(price, S, econ, blind) :
             Goto(Worker, "enqueue", [Idle EXCEPT !.job = "reprice", !.todo = T])
      BY <3>1
    <3>3. \A it \in T : it.entry = None
      BY StrategyFields
    <3>4. PICK new : new = [Idle EXCEPT !.job = "reprice", !.todo = T]
      OBVIOUS
    <3>5. pc'[Worker] = "enqueue" /\ loc'[Worker] = new /\ Turn(Worker)
      BY <1>1, <3>2, <3>4, GotoTurn
    <3>6. new.todo = T /\ new.deferred = {} /\ new.entry = None /\ None \notin Entries
      BY <3>4, NamesAssumption DEF Idle
    <3>7. LocsCalm
      BY <1>1, <3>3, <3>5, <3>6, StepCalm
    <3> QED
      BY <1>1, <3>7, EntriesLeft
  <2> QED
    BY <2>1, <2>2
<1> QED
  BY <1>2, <1>3

LEMMA ScheduleEndKeepsEntries ==
    ASSUME IInv, IInv', EntryInv, ScheduleEnd
    PROVE  EntryInv'
<1>1. Worker \in Procs /\ RowsCalm /\ Return(Worker) /\ UpdateEntries(loc[Worker].deferred, "planned")
  BY StillCalm DEF Procs, ScheduleEnd
<1>2. LocsCalm
  BY <1>1, ReturnCalm
<1>3. pc'[Worker] = "idle" /\ loc'[Worker] = Idle /\ Idle.deferred = {} /\ Idle.todo = {}
  BY <1>1, GotoTurn, IdleFields DEF Return
<1>4. ASSUME NEW e \in Entries
      PROVE  Turned(e) /\ (entries[e].status = "none" => entries'[e].status = "none")
  <2>1. entries'[e] = IF e \in loc[Worker].deferred /\ entries[e].status \notin Ended
                      THEN [entries[e] EXCEPT !.status = "planned"] ELSE entries[e]
    BY <1>1 DEF UpdateEntries
  <2>2. CASE e \in loc[Worker].deferred /\ entries[e].status \notin Ended
    <3>1. entries[e] \in [status : EntryStatus, tasks : SUBSET (1 .. Len(tasks))]
      BY DEF IInv, RowsInv
    <3>2. entries'[e].status = "planned"
      BY <2>1, <2>2, <3>1
    <3>3. For(e) = {} /\ entries[e].status # "none"
      BY <2>2 DEF EntryInv, DeferredFresh, Fresh
    <3> QED
      BY <1>3, <3>2, <3>3 DEF Turned
  <2>3. CASE ~(e \in loc[Worker].deferred /\ entries[e].status \notin Ended)
    BY <2>1, <2>3 DEF Turned
  <2> QED
    BY <2>2, <2>3
<1> QED
  BY <1>1, <1>2, <1>4, EntriesKept

\* The entries, which are given the statuses that their changes imply.
LEMMA AggregationKeepsEntries ==
    ASSUME IInv, IInv', EntryInv, RowsCalm, LocsCalm, NEW ts, NEW X,
           entries' = Aggregate(changes', ts, entries, X)
    PROVE  EntryInv'
<1>1. entries \in [Entries -> [status : EntryStatus, tasks : SUBSET Nat]]
  <2>1. Len(tasks) \in Nat
    BY Lengths
  <2>2. SUBSET (1 .. Len(tasks)) \subseteq SUBSET Nat
    BY <2>1
  <2>3. entries \in [Entries -> [status : EntryStatus, tasks : SUBSET (1 .. Len(tasks))]]
    BY DEF IInv, RowsInv
  <2>4. \A e \in Entries : entries[e] \in [status : EntryStatus, tasks : SUBSET Nat]
    BY <2>2, <2>3
  <2> QED
    BY <2>3, <2>4
<1> QED
  BY <1>1, AggregatedTurns, EntriesKept

LEMMA EntryEndKeepsEntries ==
    ASSUME IInv, IInv', EntryInv, EntryEnd
    PROVE  EntryInv'
<1>1. RowsCalm /\ UNCHANGED changes /\ LocsCalm
  BY StillCalm, NextEntryCalm DEF EntryEnd
<1> QED
  BY <1>1, AggregationKeepsEntries DEF EntryEnd

LEMMA FailEntryKeepsEntries ==
    ASSUME IInv, IInv', EntryInv, UNCHANGED changes, NEW pr \in Procs, FailEntry(loc[pr].entry)
    PROVE  EntryInv'
<1>1. UpdateEntries({loc[pr].entry}, "failed") /\ NextEntry({})
  BY DEF FailEntry
<1>2. RowsCalm /\ LocsCalm
  BY <1>1, StillCalm, NextEntryCalm
<1>3. \A e1 \in {loc[pr].entry} \cap Entries : entries[e1].status # "none"
  BY NamesAssumption DEF EntryInv, NamedKnown
<1> QED
  BY <1>1, <1>2, <1>3, UpdatedTurn, EntriesKept

\* The intents of a claimed entry, one for a product.
LEMMA SaveEntryKeepsEntries ==
    ASSUME IInv, IInv', EntryInv, UNCHANGED changes, pc[Worker] = "execute",
           NEW e, e = loc[Worker].entry, NEW T, SaveEntry(e, T),
           \A it \in T : it.entry = e /\ \A x \in T : x.prod = it.prod => x = it
    PROVE  EntryInv'
<1>1. Worker \in Procs
  BY DEF Procs
<1>2. CASE T = {}
  BY <1>1, <1>2, FailEntryKeepsEntries DEF SaveEntry
<1>3. CASE T # {}
  <2>1. PICK new : new = [loc[Worker] EXCEPT !.todo = T]
    OBVIOUS
  <2>2. pc'[Worker] = "enqueue" /\ loc'[Worker] = new /\ Turn(Worker) /\ UNCHANGED entries
    BY <1>1, <1>3, <2>1, GotoTurn DEF SaveEntry
  <2>3. new.todo = T /\ new.deferred = loc[Worker].deferred /\ new.entry = e
    BY <1>1, <2>1, LocalsFit DEF Local
  <2>4. e \in Entries /\ Fresh(e) /\ e \notin loc[Worker].deferred
    BY <1>1, LocalsFit DEF Fits, EntryInv, ExecutingFresh
  <2>5. LocsCalm
    BY <2>2, <2>3, <2>4 DEF LocsCalm, Turn
  <2> QED
    BY <2>2, <2>5, StillCalm, EntriesLeft
<1> QED
  BY <1>2, <1>3

LEMMA ExecuteKeepsEntries ==
    ASSUME IInv, IInv', EntryInv, Execute
    PROVE  EntryInv'
<1>1. UNCHANGED changes /\ pc[Worker] = "execute" /\ Worker \in Procs
  BY DEF Execute, Procs
<1>2. PICK e \in Entries : e = loc[Worker].entry
  BY <1>1, LocalsFit DEF Fits
<1>3. ExecuteCase(e)
  BY <1>2, ExecuteCases
<1>4. CASE NextEntry({e}) /\ UNCHANGED entries
  <2>1. LocsCalm
    BY <1>1, <1>2, <1>4, NextEntryCalm
  <2> QED
    BY <1>1, <1>4, <2>1, StillCalm, EntriesLeft
<1>5. CASE FailEntry(e)
  BY <1>1, <1>2, <1>5, FailEntryKeepsEntries
<1>6. ASSUME NEW S, NEW v, NEW floors, SaveEntry(e, RequestIntents(S, v, e, floors))
      PROVE  EntryInv'
  <2>1. PICK T : T = RequestIntents(S, v, e, floors)
    OBVIOUS
  <2>2. ASSUME NEW it \in T, NEW x \in T, x.prod = it.prod
        PROVE  x = it
    <3>1. PICK f : f = [p \in S |-> Requested(Baseline(p), Discount, v, floors[p])]
      OBVIOUS
    <3>2. \A y \in T : \E p \in S : y = Intent(p, Baseline(p), f[p], e, 0, floors[p])
      BY <2>1, <3>1 DEF RequestIntents
    <3>3. PICK p \in S, q \in S : /\ it = Intent(p, Baseline(p), f[p], e, 0, floors[p])
                                  /\ x = Intent(q, Baseline(q), f[q], e, 0, floors[q])
      BY <3>2
    <3>4. p = q
      BY <2>2, <3>3, IntentFields
    <3> QED
      BY <3>3, <3>4
  <2>3. \A it \in T : it.entry = e
    BY <2>1, RequestFields
  <2>4. SaveEntry(e, T)
    BY <1>6, <2>1
  <2> QED
    BY <1>1, <1>2, <2>2, <2>3, <2>4, SaveEntryKeepsEntries
<1>7. ASSUME RevertOf[e] # None, NEW floors, SaveEntry(e, RevertIntents(e, floors))
      PROVE  EntryInv'
  <2>1. PICK T : T = RevertIntents(e, floors)
    OBVIOUS
  <2>2. ASSUME NEW it \in T, NEW x \in T, x.prod = it.prod
        PROVE  x = it
    <3>1. PICK i \in Ids, j \in Ids :
             /\ changes[i].entry = RevertOf[e] /\ changes[j].entry = RevertOf[e]
             /\ it = Intent(changes[i].prod, changes[i].new, changes[i].old, e, 0, floors[changes[i].prod])
             /\ x = Intent(changes[j].prod, changes[j].new, changes[j].old, e, 0, floors[changes[j].prod])
      BY <2>1 DEF RevertIntents
    <3>2. changes[i].prod = changes[j].prod
      BY <2>2, <3>1, IntentFields
    <3>3. i = j
      BY <1>7, <3>1, <3>2 DEF EntryInv, ScheduleOnce
    <3> QED
      BY <3>1, <3>3
  <2>3. \A it \in T : it.entry = e
    BY <2>1, RevertFields
  <2>4. SaveEntry(e, T)
    BY <1>7, <2>1
  <2> QED
    BY <1>1, <1>2, <2>2, <2>3, <2>4, SaveEntryKeepsEntries
<1>8. CASE SaveEntry(e, {})
  BY <1>1, <1>2, <1>8, SaveEntryKeepsEntries
<1> QED
  BY <1>3, <1>4, <1>5, <1>6, <1>7, <1>8 DEF ExecuteCase

-----------------------------------------------------------------------------
(* The poller.                                                             *)

LEMMA PollingCalm ==
    ASSUME IInv, EntryInv, NEW T, Polling(T)
    PROVE  /\ LocsCalm /\ pc'[Worker] \in {"drain", "poll"}
           /\ loc'[Worker].todo = {} /\ loc'[Worker].deferred = {}
<1>1. Worker \in Procs
  BY DEF Procs
<1>2. /\ pc'[Worker] \in {"drain", "poll"} /\ Turn(Worker)
      /\ loc'[Worker].todo = {} /\ loc'[Worker].deferred = {}
  BY PollingTurn
<1>3. PICK new : new = [Idle EXCEPT !.job = "poll", !.polls = T]
  OBVIOUS
<1>4. loc'[Worker] = new
  BY <1>1, <1>3, GotoTurn DEF Polling
<1>5. new.entry = None /\ None \notin Entries
  BY <1>3, NamesAssumption DEF Idle
<1>6. LocsCalm
  BY <1>1, <1>2, <1>4, <1>5, StepCalm
<1> QED
  BY <1>2, <1>6

LEMMA PollStartKeepsEntries ==
    ASSUME IInv, IInv', EntryInv, PollStart
    PROVE  EntryInv'
<1>1. /\ LocsCalm /\ pc'[Worker] \in {"drain", "poll"}
      /\ loc'[Worker].todo = {} /\ loc'[Worker].deferred = {}
  BY PollingCalm DEF PollStart
<1>2. RowsCalm
  <2>1. PICK S \in SUBSET Ids : S = Orphans
    BY DEF Orphans
  <2>2. SetStatus(S, "submit_unknown")
    BY <2>1 DEF PollStart
  <2>3. \A i \in S : changes[i].status \notin Last
    BY <2>1 DEF Orphans, Last
  <2>4. "submit_unknown" \notin Last
    BY DEF Last
  <2> QED
    BY <2>2, <2>3, <2>4, SetStatusCalm
<1>3. PICK es : es = [e \in Entries |-> IF e \in Replanned THEN [entries[e] EXCEPT !.status = "planned"]
                                        ELSE entries[e]]
  OBVIOUS
<1>4. entries' = Aggregate(changes', tasks, es, Entries)
  BY <1>3 DEF PollStart
<1>5. ASSUME NEW e \in Entries
      PROVE  /\ es[e] \in [status : EntryStatus, tasks : SUBSET Nat]
             /\ es[e].status = IF e \in Replanned THEN "planned" ELSE entries[e].status
  <2>1. entries[e] \in [status : EntryStatus, tasks : SUBSET (1 .. Len(tasks))]
    BY DEF IInv, RowsInv
  <2>2. SUBSET (1 .. Len(tasks)) \subseteq SUBSET Nat
    BY Lengths
  <2>3. CASE e \in Replanned
    <3>1. es[e] = [entries[e] EXCEPT !.status = "planned"]
      BY <1>3, <2>3
    <3> QED
      BY <2>1, <2>2, <2>3, <3>1, Statuses
  <2>4. CASE e \notin Replanned
    BY <1>3, <2>1, <2>2, <2>4
  <2> QED
    BY <2>3, <2>4
<1>6. es \in [Entries -> [status : EntryStatus, tasks : SUBSET Nat]]
  BY <1>3, <1>5
<1>7. ASSUME NEW e \in Entries
      PROVE  Turned(e) /\ (entries[e].status = "none" => entries'[e].status = "none")
  <2>1. \/ entries'[e].status = es[e].status
        \/ es[e].status = "executing" /\ entries'[e].status = "failed"
        \/ /\ es[e].status = "executing" /\ entries'[e].status = "done"
           /\ For(e)' # {} /\ \A i \in For(e)' : changes'[i].status \in Last
    BY <1>4, <1>6, AggregatedTurn
  <2>2. For(e)' = For(e)
    BY <1>2, ForStays
  <2>3. CASE e \in Replanned
    <3>1. entries'[e].status = "planned" /\ entries[e].status = "executing" /\ For(e) = {}
      BY <1>5, <2>1, <2>3 DEF Replanned, For
    <3> QED
      BY <1>1, <3>1 DEF Turned
  <2>4. CASE e \notin Replanned
    BY <1>5, <2>1, <2>2, <2>4 DEF Turned
  <2> QED
    BY <2>3, <2>4
<1> QED
  BY <1>1, <1>2, <1>7, EntriesKept

LEMMA PollKeepsEntries ==
    ASSUME IInv, IInv', LockInv, EntryInv, NEW t \in DOMAIN tasks, Poll(t)
    PROVE  EntryInv'
<1>1. /\ LocsCalm /\ pc'[Worker] # "enqueue" /\ Worker \in Procs
      /\ DOMAIN wb = DOMAIN tasks
  <2>1. LocsCalm /\ pc'[Worker] # "enqueue"
    BY PollingCalm DEF Poll
  <2>2. Worker \in Procs
    BY DEF Procs
  <2>3. DOMAIN wb = DOMAIN tasks
    BY DEF IInv, RowsInv, SiteInv
  <2> QED
    BY <2>1, <2>2, <2>3
<1>2. tasks[t] # "none" /\ UNCHANGED <<wb, wbPrice>>
  BY <1>1 DEF Poll, site, LockInv, TodoInv
<1>3. CASE /\ ~wb[t].open
           /\ changes' = Resolved(changes, t)
           /\ tasks' = [tasks EXCEPT ![t] = TaskResult(t)]
           /\ entries' = Aggregate(changes', tasks', entries, OfTask(entries, t))
  <2>1. wb[t].open = FALSE
    <3>1. wb[t] \in SafeTask
      BY <1>1 DEF IInv, SiteInv
    <3> QED
      BY <1>3, <3>1 DEF SafeTask
  <2>2. PICK S : Moved(S)
    BY <1>1, <1>2, <1>3, <2>1, PollMoved
  <2>3. RowsCalm
    BY <1>1, <2>2, MovedCalm
  <2> QED
    BY <1>1, <1>3, <2>3, AggregationKeepsEntries
<1>4. CASE UNCHANGED <<changes, tasks, entries>>
  BY <1>1, <1>4, StillCalm, EntriesLeft
<1> QED
  BY <1>3, <1>4 DEF Poll

-----------------------------------------------------------------------------
(* Saving intents, and the drain.                                          *)

LEMMA EnqueueKeepsEntries ==
    ASSUME IInv, IInv', EntryInv, NEW pr \in Procs, Enqueue(pr)
    PROVE  EntryInv'
<1>1. UNCHANGED entries /\ loc[pr] \in Local
  BY LocalsFit DEF Enqueue
<1>2. PICK it \in loc[pr].todo :
         \/ /\ Goto(pr, "enqueue", [loc[pr] EXCEPT !.todo = loc[pr].todo \ {it}])
            /\ UNCHANGED changes
         \/ /\ changes' = Saved(it)
            /\ Goto(pr, "enqueue", [loc[pr] EXCEPT !.todo = loc[pr].todo \ {it}, !.accepted = TRUE])
  BY DEF Enqueue
<1>3. PICK T : T = loc[pr].todo \ {it}
  OBVIOUS
<1>4. CASE /\ Goto(pr, "enqueue", [loc[pr] EXCEPT !.todo = loc[pr].todo \ {it}])
           /\ UNCHANGED changes
  <2>1. PICK new : new = [loc[pr] EXCEPT !.todo = T]
    OBVIOUS
  <2>2. Goto(pr, "enqueue", new)
    BY <1>3, <1>4, <2>1
  <2>3. new.todo = T /\ new.deferred = loc[pr].deferred /\ new.entry = loc[pr].entry
    BY <1>1, <2>1 DEF Local
  <2>4. LocsCalm
    BY <1>3, <2>2, <2>3, OngoingCalm
  <2> QED
    BY <1>1, <1>4, <2>4, StillCalm, EntriesLeft
<1>5. CASE /\ changes' = Saved(it)
           /\ Goto(pr, "enqueue", [loc[pr] EXCEPT !.todo = loc[pr].todo \ {it}, !.accepted = TRUE])
  <2>1. PICK new : new = [loc[pr] EXCEPT !.todo = T, !.accepted = TRUE]
    OBVIOUS
  <2>2. pc'[pr] = "enqueue" /\ loc'[pr] = new /\ Turn(pr)
    BY <1>3, <1>5, <2>1, GotoTurn
  <2>3. new.todo = T /\ new.deferred = loc[pr].deferred /\ new.entry = loc[pr].entry
    BY <1>1, <2>1 DEF Local
  <2>4. PICK n \in Nat : SavedRow(n, it)
    BY <1>5, SavedIsRow
  <2> QED
    BY <1>1, <1>3, <2>2, <2>3, <2>4, EntriesSaved
<1> QED
  BY <1>2, <1>4, <1>5

LEMMA EnqueueEndKeepsEntries ==
    ASSUME IInv, IInv', EntryInv, NEW pr \in Procs, EnqueueEnd(pr)
    PROVE  EntryInv'
<1>1. UNCHANGED changes /\ loc[pr].todo = {} /\ RowsCalm /\ loc[pr] \in Local
  BY StillCalm, LocalsFit DEF EnqueueEnd
<1>2. \/ /\ entries' = Aggregate(changes, tasks, entries, Entries)
         /\ Goto(pr, "drain", [loc[pr] EXCEPT !.accepted = FALSE])
      \/ FailEntry(loc[pr].entry)
      \/ Return(pr) /\ UNCHANGED entries
  BY DEF EnqueueEnd
<1>3. CASE /\ entries' = Aggregate(changes, tasks, entries, Entries)
           /\ Goto(pr, "drain", [loc[pr] EXCEPT !.accepted = FALSE])
  <2>1. PICK new : new = [loc[pr] EXCEPT !.accepted = FALSE]
    OBVIOUS
  <2>2. new.todo = {} /\ new.deferred = loc[pr].deferred /\ new.entry = loc[pr].entry
    BY <1>1, <2>1 DEF Local
  <2>3. Goto(pr, "drain", new)
    BY <1>3, <2>1
  <2>4. LocsCalm
    BY <2>2, <2>3, OngoingCalm
  <2>5. entries' = Aggregate(changes', tasks, entries, Entries)
    BY <1>1, <1>3
  <2> QED
    BY <1>1, <2>4, <2>5, AggregationKeepsEntries
<1>4. CASE FailEntry(loc[pr].entry)
  BY <1>1, <1>4, FailEntryKeepsEntries
<1>5. CASE Return(pr) /\ UNCHANGED entries
  BY <1>1, <1>5, ReturnCalm, EntriesLeft
<1> QED
  BY <1>2, <1>3, <1>4, <1>5

\* A process that goes on with its drain.
LEMMA DrainingCalm ==
    ASSUME IInv, EntryInv, NEW pr \in Procs, pc[pr] # "enqueue", NEW l, l # "execute",
           \/ \E S, r : Goto(pr, l, [loc[pr] EXCEPT !.batch = S, !.retry = r])
           \/ \E t : Goto(pr, l, [loc[pr] EXCEPT !.task = t])
           \/ Goto(pr, l, [loc[pr] EXCEPT !.batch = {}, !.task = 0, !.retry = FALSE])
           \/ Goto(pr, l, loc[pr])
    PROVE  LocsCalm
<1>1. loc[pr] \in Local
  BY LocalsFit
<1>2. PICK new : /\ Goto(pr, l, new)
                 /\ \/ \E S, r : new = [loc[pr] EXCEPT !.batch = S, !.retry = r]
                    \/ \E t : new = [loc[pr] EXCEPT !.task = t]
                    \/ new = [loc[pr] EXCEPT !.batch = {}, !.task = 0, !.retry = FALSE]
                    \/ new = loc[pr]
  OBVIOUS
<1>3. new.todo = loc[pr].todo /\ new.deferred = loc[pr].deferred /\ new.entry = loc[pr].entry
  BY <1>1, <1>2 DEF Local
<1> QED
  BY <1>2, <1>3, OngoingCalm

LEMMA ClaimsKeepEntries ==
    ASSUME IInv, IInv', LockInv, EntryInv, NEW pr \in Procs, ClaimUnknown(pr) \/ ClaimPending(pr)
    PROVE  EntryInv'
<1>1. pc[pr] # "enqueue" /\ UNCHANGED entries
  BY DEF ClaimUnknown, ClaimPending
<1>2. CASE ClaimUnknown(pr)
  <2>1. PICK S \in SUBSET Ids : /\ S \subseteq Unknown
                                /\ SetStatus(S, "submitting")
                                /\ Goto(pr, "upload", [loc[pr] EXCEPT !.batch = S, !.retry = TRUE])
    BY <1>2 DEF ClaimUnknown, Unknown
  <2>2. \A i \in S : changes[i].status \notin Last
    BY <2>1 DEF Unknown, Last
  <2>3. RowsCalm
    BY <2>1, <2>2, SetStatusCalm DEF Last
  <2>4. LocsCalm
    BY <1>1, <2>1, DrainingCalm
  <2> QED
    BY <1>1, <2>3, <2>4, EntriesLeft
<1>3. CASE ClaimPending(pr)
  <2>1. PICK S \in SUBSET Ids, b \in Ids : S = Claimable /\ b = Min(Claimable) /\ ClaimedRows(S, b)
    BY <1>3, ClaimIsRows DEF ClaimedRows
  <2>2. Goto(pr, "upload", [loc[pr] EXCEPT !.batch = S, !.retry = FALSE])
    BY <1>3, <2>1 DEF ClaimPending
  <2>3. LocsCalm
    BY <1>1, <2>2, DrainingCalm
  <2>4. ASSUME NEW i \in Ids
        PROVE  /\ changes[i].status \in Last => changes'[i].status \in Last
               /\ changes[i].task # 0 => changes'[i].task = changes[i].task /\ changes'[i].batch = changes[i].batch
               /\ changes'[i].status \in Last => changes[i].status \in Last
    <3>1. CASE i \in S
      <4>1. changes[i].status = "pending" /\ changes'[i].status = "submitting"
        BY <2>1, <3>1 DEF ClaimedRows
      <4>2. changes[i].task = 0
        BY <4>1 DEF LockInv, ChangeInv, ChangeOk, NotLinked
      <4> QED
        BY <4>1, <4>2 DEF Last
    <3>2. CASE i \notin S
      BY <2>1, <3>2 DEF ClaimedRows
    <3> QED
      BY <3>1, <3>2
  <2>5. RowsCalm
    BY <2>1, <2>4 DEF RowsCalm, LastStays, ClaimedRows
  <2> QED
    BY <1>1, <2>3, <2>5, EntriesLeft
<1> QED
  BY <1>2, <1>3

LEMMA StopsKeepEntries ==
    ASSUME IInv, IInv', EntryInv, NEW pr \in Procs, ClaimNothing(pr) \/ MarkFails(pr) \/ Crash(pr)
    PROVE  EntryInv'
<1>1. UNCHANGED <<changes, entries>>
  BY DEF ClaimNothing, MarkFails, Crash, rows
<1>2. (DrainEnd(pr) /\ pc[pr] # "enqueue") \/ Return(pr)
  BY DEF ClaimNothing, MarkFails, Crash
<1> QED
  BY <1>1, <1>2, StillCalm, DrainEndCalm, ReturnCalm, EntriesLeft

LEMMA UploadKeepsEntries ==
    ASSUME IInv, IInv', EntryInv, NEW pr \in Procs, Upload(pr)
    PROVE  EntryInv'
<1>1. UNCHANGED <<changes, entries>> /\ pc[pr] # "enqueue"
  BY DEF Upload
<1>2. (\E t : Goto(pr, "link", [loc[pr] EXCEPT !.task = t])) \/ Goto(pr, "unknown", loc[pr])
  BY DEF Upload
<1>3. LocsCalm
  BY <1>1, <1>2, DrainingCalm
<1> QED
  BY <1>1, <1>3, StillCalm, EntriesLeft

LEMMA EndsKeepEntries ==
    ASSUME IInv, IInv', EntryInv, NEW pr \in Procs, UploadRefused(pr) \/ MarkUnknown(pr)
    PROVE  EntryInv'
<1>1. UNCHANGED entries /\ DrainEnd(pr) /\ pc[pr] # "enqueue"
  BY DEF UploadRefused, MarkUnknown
<1>2. PICK st \in {"failed", "submit_unknown"} : SetStatus(Submitting(pr), st)
  BY DEF UploadRefused, MarkUnknown
<1>3. PICK S \in SUBSET Ids : S = Submitting(pr)
  BY Lengths, LocalsFit DEF Fits, Submitting
<1>4. \A i \in S : changes[i].status \notin Last
  BY <1>3 DEF Submitting, Last
<1>5. RowsCalm
  BY <1>2, <1>3, <1>4, SetStatusCalm DEF Last
<1> QED
  BY <1>1, <1>5, DrainEndCalm, EntriesLeft

\* A task that gives its result to another batch is used twice: the changes it
\* was made for name it already.
LEMMA LinkReuses ==
    ASSUME IInv, LockInv, NEW pr \in Procs, Link(pr),
           NEW S \in SUBSET Ids, S = loc[pr].batch, NEW t \in DOMAIN wb, t = loc[pr].task,
           NEW st \in {"uploaded", "applied", "partial", "failed"}, LinkStep(S, t, st),
           NEW i \in S, changes'[i].status = "applied"
    PROVE  Reused(changes[i].task)'
<1>1. changes'[i].task = t /\ i \in Ids /\ changes'[i].batch = changes[i].batch /\ Ids' = Ids
  BY DEF LinkStep, LinkedRow
<1>2. st # "uploaded"
  BY DEF LinkStep, LinkedRow
<1>3. tasks[t] # "none"
  BY <1>2 DEF LinkStep
<1>4. PICK k \in Ids : changes[k].task = t
  BY <1>3 DEF LockInv, TaskInv, TaskOk, Linked
<1>5. changes[i].status = "submitting" /\ \A j \in Ids : changes[j].batch = changes[i].batch => j \in S
  BY SubmittingIsBatch
<1>6. t # 0
  BY Lengths DEF IInv, SiteInv, RowsInv
<1>7. \A j \in S : changes[j].task = 0
  <2> SUFFICES ASSUME NEW j \in S
               PROVE  changes[j].task = 0
    OBVIOUS
  <2>1. changes[j].status = "submitting"
    BY SubmittingIsBatch
  <2> QED
    BY <2>1 DEF LockInv, ChangeInv, ChangeOk, NotLinked
<1>8. k \notin S
  BY <1>4, <1>6, <1>7
<1>9. changes[k].batch # changes[i].batch
  BY <1>4, <1>5, <1>8
<1>10. changes'[k].task = t /\ changes'[k].batch = changes[k].batch
  BY <1>4, <1>8 DEF LinkStep, LinkedRow
<1>11. /\ changes'[k].task = changes'[i].task /\ changes'[k].batch # changes'[i].batch
       /\ k \in Ids' /\ i \in Ids' /\ changes'[i].task # 0
  BY <1>1, <1>4, <1>6, <1>9, <1>10
<1> QED
  BY <1>11 DEF Reused

LEMMA LinkKeepsEntries ==
    ASSUME IInv, IInv', LockInv, EntryInv, NEW pr \in Procs, Link(pr)
    PROVE  EntryInv'
<1>1. pc[pr] = "link"
  BY DEF Link
<1>2. PICK t \in DOMAIN wb : t = loc[pr].task
  BY <1>1, Lengths, LocalsFit DEF Fits, IInv, SiteInv
<1>3. PICK S \in SUBSET Ids : S = loc[pr].batch
  BY SubmittingIsBatch
<1>4. PICK st \in {"uploaded", "applied", "partial", "failed"} : LinkStep(S, t, st)
  BY <1>2, <1>3, LinkRows
<1>5. RowsCalm
  BY <1>2, <1>3, <1>4, LinkMoved, LinkReuses, MovedCalm
<1>6. \/ DrainEnd(pr)
      \/ Goto(pr, "drain", [loc[pr] EXCEPT !.batch = {}, !.task = 0, !.retry = FALSE])
  BY DEF Link
<1>7. LocsCalm
  BY <1>1, <1>6, DrainEndCalm, DrainingCalm
<1>8. PICK es : es = [e \in Entries |->
                       IF entries[e].status = "executing" /\ \E i \in Submitting(pr) : changes[i].entry = e
                       THEN [entries[e] EXCEPT !.tasks = entries[e].tasks \cup {t}]
                       ELSE entries[e]]
  OBVIOUS
<1>9. PICK ts : entries' = Aggregate(changes', ts, es, OfTask(es, t))
  BY <1>2, <1>8 DEF Link
<1>10. ASSUME NEW e \in Entries
       PROVE  es[e] \in [status : EntryStatus, tasks : SUBSET Nat] /\ es[e].status = entries[e].status
  <2>1. entries[e] \in [status : EntryStatus, tasks : SUBSET (1 .. Len(tasks))]
    BY DEF IInv, RowsInv
  <2>2. 1 .. Len(tasks) \subseteq Nat /\ t \in Nat
    BY Lengths DEF IInv, SiteInv, RowsInv
  <2>3. es[e] = entries[e] \/ es[e] = [entries[e] EXCEPT !.tasks = entries[e].tasks \cup {t}]
    BY <1>8
  <2>4. entries[e].tasks \cup {t} \subseteq Nat /\ entries[e].tasks \subseteq Nat
    BY <2>1, <2>2
  <2> QED
    BY <2>1, <2>3, <2>4
<1>11. es \in [Entries -> [status : EntryStatus, tasks : SUBSET Nat]]
  BY <1>8, <1>10
<1>12. /\ \A e \in Entries : Turned(e)
       /\ \A e \in Entries : entries[e].status = "none" => entries'[e].status = "none"
  BY <1>5, <1>9, <1>10, <1>11, AggregatedTurns
<1> QED
  BY <1>5, <1>7, <1>12, EntriesKept

LEMMA OthersKeepEntries ==
    ASSUME IInv, IInv', EntryInv,
           (\E t \in DOMAIN wb : WBProcess(t)) \/ CooldownEnds \/ Freeze \/ Unfreeze \/ UNCHANGED vars
    PROVE  EntryInv'
<1>1. UNCHANGED <<changes, entries, pc, loc>>
  BY DEF WBProcess, CooldownEnds, Freeze, Unfreeze, vars, rows
<1> QED
  BY <1>1, StillCalm, LocsStay, EntriesLeft

-----------------------------------------------------------------------------

LEMMA EntriesAtFirst == Init => EntryInv
<1> SUFFICES ASSUME Init PROVE EntryInv
  OBVIOUS
<1>1. /\ Ids = {} /\ \A pr \in Procs : pc[pr] = "idle" /\ loc[pr] = Idle
      /\ \A e \in Entries : entries[e].status = "none"
  BY DEF Init, Ids
<1>2. Worker \in Procs /\ Idle.todo = {} /\ Idle.deferred = {} /\ Idle.entry = None
  BY DEF Procs, Idle
<1>3. PlannedFresh /\ PairsTogether /\ ScheduleOnce /\ DoneMeansApplied
  BY <1>1 DEF PlannedFresh, For, PairsTogether, ScheduleOnce, DoneMeansApplied
<1>4. DeferredFresh /\ ExecutingFresh /\ TodoFits /\ NamedKnown
  BY <1>1, <1>2 DEF DeferredFresh, ExecutingFresh, TodoFits, NamedKnown
<1> QED
  BY <1>3, <1>4 DEF EntryInv

LEMMA ApplyKeepsEntries ==
    ASSUME IInv, IInv', LockInv, EntryInv, NEW pr \in Procs, Apply(pr)
    PROVE  EntryInv'
  BY EnqueueKeepsEntries, EnqueueEndKeepsEntries, ClaimsKeepEntries, StopsKeepEntries,
     UploadKeepsEntries, EndsKeepEntries, LinkKeepsEntries DEF Apply

LEMMA EntriesNext == IInv /\ LockInv /\ EntryInv /\ IInv' /\ [Next]_vars => EntryInv'
<1> SUFFICES ASSUME IInv, LockInv, EntryInv, IInv', [Next]_vars PROVE EntryInv'
  OBVIOUS
<1>1. Worker \in Procs /\ \A a \in Apis : a \in Procs
  BY DEF Procs
<1>2. ASSUME NEW a \in Apis, Bulk(a) \/ Rollback(a) \/ ApiStep(a)
      PROVE  EntryInv'
  <2>1. CASE CancelWrite(a) \/ Bulk(a) \/ Rollback(a)
    BY <2>1, RequestsKeepEntries
  <2>2. CASE Apply(a)
    BY <1>1, <2>2, ApplyKeepsEntries
  <2> QED
    BY <1>2, <2>1, <2>2 DEF ApiStep
<1>3. ASSUME NEW a \in Apis, NEW e \in Entries, CancelRead(a, e)
      PROVE  EntryInv'
  BY <1>3, RequestsKeepEntries
<1>4. ASSUME NEW e \in Entries, CreateSchedule(e) \/ ClaimDue(e)
      PROVE  EntryInv'
  BY <1>4, CreateKeepsEntries, ClaimDueKeepsEntries
<1>5. CASE WorkerStep
  BY <1>1, <1>5, SyncsKeepEntries, ExecuteKeepsEntries, EntryEndKeepsEntries,
     ScheduleEndKeepsEntries, PollKeepsEntries, ApplyKeepsEntries DEF WorkerStep
<1>6. CASE SyncRead \/ PollStart
  BY <1>6, SyncsKeepEntries, PollStartKeepsEntries
<1>7. ASSUME NEW pr \in Procs, Crash(pr)
      PROVE  EntryInv'
  BY <1>7, StopsKeepEntries
<1>8. CASE (\E t \in DOMAIN wb : WBProcess(t)) \/ CooldownEnds \/ Freeze \/ Unfreeze \/ UNCHANGED vars
  BY <1>8, OthersKeepEntries
<1> QED
  BY <1>2, <1>3, <1>4, <1>5, <1>6, <1>7, <1>8 DEF Next

\* The invariants of the rows, the locks and the entries, together.
LEMMA RowsTogether ==
    ASSUME RejectRetries = FALSE
    PROVE  Spec => [](IInv /\ LockInv /\ EntryInv)
<1>1. IInv /\ LockInv /\ EntryInv /\ [Next]_vars => (IInv /\ LockInv /\ EntryInv)'
  BY NextKept, LocksNext, EntriesNext
<1> QED
  BY <1>1, InitHolds, LocksAtFirst, EntriesAtFirst, PTL DEF Spec

-----------------------------------------------------------------------------
(* The margin floors.                                                      *)

SamePrices(c, d) ==
    /\ d.prod = c.prod /\ d.old = c.old /\ d.new = c.new
    /\ d.undo = c.undo /\ d.floor = c.floor

\* Saved changes keep what they were decided with.
Kept ==
    /\ Ids \subseteq Ids'
    /\ \A i \in Ids : SamePrices(changes[i], changes'[i])

RowSafe(c) ==
    /\ Bounded(c.prod, c.old) /\ Bounded(c.prod, c.new)
    /\ c.undo = 0 => KeepsFloor(c)

\* An intent starts from a bounded price, and keeps its floor or undoes a change.
IntentSafe(it) ==
    /\ Bounded(it.prod, it.old)
    /\ IF it.undo = 0 THEN KeepsFloor(it) ELSE Bounded(it.prod, it.new)

RowFloors == \A i \in Ids : RowSafe(changes[i])

SiteFloors ==
    /\ \A t \in DOMAIN wb : \A p \in DOMAIN wb[t].items : Bounded(p, wb[t].items[p])
    /\ \A p \in Products : Bounded(p, wbPrice[p])

StoreFloors == \A p \in Products : Bounded(p, synced[p].price)

TodoFloors == \A pr \in Procs : \A it \in loc[pr].todo : IntentSafe(it)

ReadFloors == pc[Worker] = "store" => \A p \in Products : Bounded(p, loc[Worker].read[p])

FloorInv == RowFloors /\ SiteFloors /\ StoreFloors /\ TodoFloors /\ ReadFloors

\* Bounded by the changes of the next state.
BoundedThen(p, v) ==
    \/ Effective(v) >= Effective(StartPrice)
    \/ \E i \in Ids' : /\ changes'[i].prod = p /\ changes'[i].undo = 0
                       /\ Effective(v) >= changes'[i].floor

LEMMA BoundedStays ==
    ASSUME Kept
    PROVE  \A p, v : Bounded(p, v) => BoundedThen(p, v)
<1> SUFFICES ASSUME NEW p, NEW v, Bounded(p, v)
             PROVE  BoundedThen(p, v)
  OBVIOUS
<1>1. CASE Effective(v) >= Effective(StartPrice)
  BY <1>1 DEF BoundedThen
<1>2. CASE \E i \in Ids : /\ changes[i].prod = p /\ changes[i].undo = 0
                          /\ Effective(v) >= changes[i].floor
  <2>1. PICK i \in Ids : /\ changes[i].prod = p /\ changes[i].undo = 0
                         /\ Effective(v) >= changes[i].floor
    BY <1>2
  <2>2. /\ i \in Ids' /\ changes'[i].prod = p /\ changes'[i].undo = 0
        /\ changes'[i].floor = changes[i].floor
    BY <2>1 DEF Kept, SamePrices
  <2> QED
    BY <2>1, <2>2 DEF BoundedThen
<1> QED
  BY <1>1, <1>2 DEF Bounded

LEMMA BoundedIsThen == \A p, v : Bounded(p, v)' <=> BoundedThen(p, v)
  BY DEF Bounded, BoundedThen

\* A price that is higher than a bounded one is bounded.
LEMMA HigherIsBounded ==
    ASSUME IInv, NEW p \in Products, NEW v \in Nat, NEW w \in Nat, Bounded(p, v),
           Effective(w) >= Effective(v)
    PROVE  Bounded(p, w)
<1>1. Effective(v) \in Nat /\ Effective(w) \in Nat /\ Effective(StartPrice) \in Nat
  BY EffectiveOfPrice, PriceAssumption
<1>2. \A i \in Ids : changes[i].floor \in Nat
  BY SavedRows DEF IInv, SafeChange
<1> QED
  BY <1>1, <1>2 DEF Bounded

\* A step keeps the floors when all it adds is bounded.
LEMMA RowFloorsStay ==
    ASSUME RowFloors, Kept,
           \A i \in Ids' \ Ids : /\ BoundedThen(changes'[i].prod, changes'[i].old)
                                 /\ BoundedThen(changes'[i].prod, changes'[i].new)
                                 /\ changes'[i].undo = 0 => KeepsFloor(changes'[i])
    PROVE  RowFloors'
<1> SUFFICES ASSUME NEW i \in Ids'
             PROVE  /\ BoundedThen(changes'[i].prod, changes'[i].old)
                    /\ BoundedThen(changes'[i].prod, changes'[i].new)
                    /\ changes'[i].undo = 0 => KeepsFloor(changes'[i])
  BY DEF RowFloors, RowSafe, Bounded, BoundedThen, KeepsFloor
<1>1. CASE i \notin Ids
  BY <1>1
<1>2. CASE i \in Ids
  <2>1. SamePrices(changes[i], changes'[i]) /\ RowSafe(changes[i])
    BY <1>2 DEF Kept, RowFloors
  <2>2. PICK p, v, w : p = changes[i].prod /\ v = changes[i].old /\ w = changes[i].new
    OBVIOUS
  <2>3. BoundedThen(p, v) /\ BoundedThen(p, w)
    BY <2>1, <2>2, BoundedStays DEF RowSafe
  <2>4. p = changes'[i].prod /\ v = changes'[i].old /\ w = changes'[i].new
    BY <2>1, <2>2 DEF SamePrices
  <2>5. changes'[i].undo = 0 => KeepsFloor(changes'[i])
    BY <2>1 DEF SamePrices, RowSafe, KeepsFloor
  <2> QED
    BY <2>3, <2>4, <2>5
<1> QED
  BY <1>1, <1>2

\* Bounded prices, and safe intents, are so in the next state.
LEMMA BoundsStay ==
    ASSUME Kept
    PROVE  /\ SiteFloors /\ UNCHANGED <<wb, wbPrice>> => SiteFloors'
           /\ StoreFloors /\ UNCHANGED synced => StoreFloors'
           /\ \A it : IntentSafe(it) => IntentSafe(it)'
<1>1. \A p, v : Bounded(p, v) => BoundedThen(p, v)
  BY BoundedStays
<1>2. ASSUME SiteFloors, UNCHANGED <<wb, wbPrice>>
      PROVE  SiteFloors'
  <2>1. /\ \A t \in DOMAIN wb' : \A p \in DOMAIN wb'[t].items : BoundedThen(p, wb'[t].items[p])
        /\ \A p \in Products : BoundedThen(p, wbPrice'[p])
    BY <1>1, <1>2 DEF SiteFloors
  <2> QED
    BY <2>1 DEF SiteFloors, Bounded, BoundedThen
<1>3. ASSUME StoreFloors, UNCHANGED synced
      PROVE  StoreFloors'
  <2>1. \A p \in Products : BoundedThen(p, synced'[p].price)
    BY <1>1, <1>3 DEF StoreFloors
  <2> QED
    BY <2>1 DEF StoreFloors, Bounded, BoundedThen
<1>4. ASSUME NEW it, IntentSafe(it)
      PROVE  IntentSafe(it)'
  <2>1. BoundedThen(it.prod, it.old) /\ IF it.undo = 0 THEN KeepsFloor(it) ELSE BoundedThen(it.prod, it.new)
    BY <1>1, <1>4 DEF IntentSafe
  <2> QED
    BY <2>1 DEF IntentSafe, Bounded, BoundedThen, KeepsFloor
<1> QED
  BY <1>2, <1>3, <1>4

\* A step of one process, which may find new intents.
LEMMA TodoFloorsStay ==
    ASSUME TodoFloors, Kept, NEW pr \in Procs, Turn(pr),
           \A it \in loc'[pr].todo : it \in loc[pr].todo \/ IntentSafe(it)
    PROVE  TodoFloors'
<1>1. ASSUME NEW q \in Procs, NEW it \in loc'[q].todo
      PROVE  IntentSafe(it)
  <2>1. CASE q = pr
    BY <1>1, <2>1 DEF TodoFloors
  <2>2. CASE q # pr
    BY <1>1, <2>2 DEF TodoFloors, Turn
  <2> QED
    BY <2>1, <2>2
<1>2. ASSUME NEW q \in Procs, NEW it \in loc'[q].todo
      PROVE  IntentSafe(it)'
  BY <1>1, <1>2, BoundsStay
<1> QED
  BY <1>2 DEF TodoFloors

\* The prices that the worker has read stay bounded while it has to store them.
LEMMA ReadFloorsStay ==
    ASSUME ReadFloors, Kept, NEW pr \in Procs, Turn(pr), pc'[pr] # "store"
    PROVE  ReadFloors'
<1> SUFFICES ASSUME pc'[Worker] = "store"
             PROVE  \A p \in Products : BoundedThen(p, loc'[Worker].read[p])
  BY DEF ReadFloors, Bounded, BoundedThen
<1>1. Worker \in Procs /\ Worker # pr
  BY DEF Procs
<1>2. pc[Worker] = "store" /\ loc'[Worker] = loc[Worker]
  BY <1>1 DEF Turn
<1> QED
  BY <1>2, BoundedStays DEF ReadFloors

\* A step that saves no change and sends nothing.
LEMMA TurnFloors ==
    ASSUME FloorInv, Kept, Ids' = Ids, UNCHANGED <<wb, wbPrice, synced>>,
           NEW pr \in Procs, Turn(pr), pc'[pr] # "store",
           \A it \in loc'[pr].todo : it \in loc[pr].todo \/ IntentSafe(it)
    PROVE  FloorInv'
<1>1. RowFloors'
  BY RowFloorsStay DEF FloorInv
<1> QED
  BY <1>1, BoundsStay, TodoFloorsStay, ReadFloorsStay DEF FloorInv

LEMMA StillFloors ==
    ASSUME FloorInv, UNCHANGED <<changes, wb, wbPrice, synced, pc, loc>>
    PROVE  FloorInv'
<1>1. Kept /\ Ids' = Ids
  BY DEF Kept, Ids, SamePrices
<1>2. Worker \in Procs /\ Turn(Worker) /\ loc'[Worker].todo = loc[Worker].todo
  BY DEF Procs, Turn
<1>3. RowFloors' /\ SiteFloors' /\ StoreFloors' /\ TodoFloors'
  BY <1>1, <1>2, RowFloorsStay, BoundsStay, TodoFloorsStay DEF FloorInv
<1>4. ReadFloors'
  BY <1>1, BoundedStays DEF FloorInv, ReadFloors, Bounded, BoundedThen
<1> QED
  BY <1>3, <1>4 DEF FloorInv

\* The locals whose intents stay.
LEMMA TodoFields ==
    ASSUME IInv, NEW pr \in Procs
    PROVE  /\ \A T : [loc[pr] EXCEPT !.todo = T].todo = T
           /\ \A T : [loc[pr] EXCEPT !.todo = T, !.accepted = TRUE].todo = T
           /\ [loc[pr] EXCEPT !.accepted = FALSE].todo = loc[pr].todo
           /\ \A j, e : [loc[pr] EXCEPT !.job = j, !.entry = e].todo = loc[pr].todo
           /\ \A S, r : [loc[pr] EXCEPT !.batch = S, !.retry = r].todo = loc[pr].todo
           /\ \A t : [loc[pr] EXCEPT !.task = t].todo = loc[pr].todo
           /\ [loc[pr] EXCEPT !.batch = {}, !.task = 0, !.retry = FALSE].todo = loc[pr].todo
<1>1. loc[pr] \in Local
  BY LocalsFit
<1> QED
  BY <1>1 DEF Local

\* Requests and jobs that begin with the intents T.
LEMMA BeginFloors ==
    ASSUME IInv, FloorInv, UNCHANGED <<changes, wb, wbPrice, synced>>, NEW pr \in Procs, NEW j, NEW T,
           Goto(pr, "enqueue", [Idle EXCEPT !.job = j, !.todo = T]), \A it \in T : IntentSafe(it)
    PROVE  FloorInv'
<1>1. PICK new : new = [Idle EXCEPT !.job = j, !.todo = T]
  OBVIOUS
<1>2. pc'[pr] = "enqueue" /\ loc'[pr] = new /\ Turn(pr)
  BY <1>1, GotoTurn
<1>3. new.todo = T
  BY <1>1, IdleFields
<1>4. Kept /\ Ids' = Ids
  BY DEF Kept, Ids, SamePrices
<1> QED
  BY <1>2, <1>3, <1>4, TurnFloors

LEMMA DrainEndFloors ==
    ASSUME IInv, FloorInv, Kept, Ids' = Ids, UNCHANGED <<wb, wbPrice, synced>>, NEW pr \in Procs,
           DrainEnd(pr)
    PROVE  FloorInv'
<1>1. pc'[pr] # "store" /\ Turn(pr) /\ loc'[pr].todo \subseteq loc[pr].todo
  BY DrainEndTurn
<1> QED
  BY <1>1, TurnFloors

LEMMA NoIntentFloors ==
    ASSUME IInv, FloorInv, Kept, Ids' = Ids, UNCHANGED <<wb, wbPrice, synced>>, NEW pr \in Procs,
           NEW l, l # "store", NEW new, new.todo = {} \/ new.todo = loc[pr].todo, Goto(pr, l, new)
    PROVE  FloorInv'
<1>1. pc'[pr] = l /\ loc'[pr] = new /\ Turn(pr)
  BY GotoTurn
<1> QED
  BY <1>1, TurnFloors

LEMMA ReturnFloors ==
    ASSUME IInv, FloorInv, Kept, Ids' = Ids, UNCHANGED <<wb, wbPrice, synced>>, NEW pr \in Procs, Return(pr)
    PROVE  FloorInv'
  BY IdleFields, NoIntentFloors DEF Return

LEMMA NextEntryFloors ==
    ASSUME IInv, FloorInv, Kept, Ids' = Ids, UNCHANGED <<wb, wbPrice, synced>>, NEW D, NextEntry(D)
    PROVE  FloorInv'
<1>1. PICK E : E = loc[Worker].deferred \cup D
  OBVIOUS
<1>2. PICK new : new = [Idle EXCEPT !.job = "schedule", !.deferred = E]
  OBVIOUS
<1>3. Goto(Worker, "due", new) /\ new.todo = {} /\ Worker \in Procs
  BY <1>1, <1>2, IdleFields DEF NextEntry, Procs
<1> QED
  BY <1>3, NoIntentFloors

-----------------------------------------------------------------------------
(* No statement changes the prices of a saved change.                      *)

LEMMA SameUpdates ==
    ASSUME NEW c \in SafeChange
    PROVE  /\ SamePrices(c, c)
           /\ \A s : SamePrices(c, [c EXCEPT !.status = s])
           /\ \A s, b : SamePrices(c, [c EXCEPT !.status = s, !.batch = b])
           /\ \A s, t : SamePrices(c, [c EXCEPT !.task = t, !.status = s])
  BY DEF SafeChange, SamePrices

LEMMA SetStatusKeeps ==
    ASSUME IInv, NEW S, NEW st, SetStatus(S, st)
    PROVE  Kept /\ Ids' = Ids
<1>1. \A i \in Ids : changes[i] \in SafeChange
  BY SavedRows DEF IInv
<1>2. DOMAIN changes' = Ids /\ \A i \in Ids : changes'[i] = IF i \in S THEN [changes[i] EXCEPT !.status = st]
                                                            ELSE changes[i]
  BY DEF SetStatus
<1>3. ASSUME NEW i \in Ids
      PROVE  SamePrices(changes[i], changes'[i])
  <2>1. SamePrices(changes[i], changes[i]) /\ SamePrices(changes[i], [changes[i] EXCEPT !.status = st])
    BY <1>1, SameUpdates
  <2> QED
    BY <1>2, <2>1
<1> QED
  BY <1>2, <1>3 DEF Kept, Ids

LEMMA ClaimPendingKeeps ==
    ASSUME IInv, NEW pr, ClaimPending(pr)
    PROVE  Kept /\ Ids' = Ids
<1>1. \A i \in Ids : changes[i] \in SafeChange
  BY SavedRows DEF IInv
<1>2. PICK b : b = Min(Claimable)
  OBVIOUS
<1>3. DOMAIN changes' = Ids
      /\ \A i \in Ids : changes'[i] = IF i \in Claimable
                                      THEN [changes[i] EXCEPT !.status = "submitting", !.batch = b]
                                      ELSE changes[i]
  BY <1>2 DEF ClaimPending
<1>4. ASSUME NEW i \in Ids
      PROVE  SamePrices(changes[i], changes'[i])
  <2>1. SamePrices(changes[i], changes[i])
        /\ SamePrices(changes[i], [changes[i] EXCEPT !.status = "submitting", !.batch = b])
    BY <1>1, SameUpdates
  <2> QED
    BY <1>3, <2>1
<1> QED
  BY <1>3, <1>4 DEF Kept, Ids

LEMMA ResolvedSame ==
    ASSUME NEW cs, NEW t, NEW i \in DOMAIN cs, cs[i] \in SafeChange
    PROVE  SamePrices(cs[i], Resolved(cs, t)[i])
<1>1. PICK mine : mine = MineOf(cs, t)
  OBVIOUS
<1>2. PICK good : good = {k \in mine : cs[k].prod \notin wb[t].bad}
  OBVIOUS
<1>3. Resolved(cs, t)[i] =
        CASE i \in good -> [cs[i] EXCEPT !.status = "applied"]
          [] i \in mine \ good -> [cs[i] EXCEPT !.status = "failed"]
          [] i \notin mine /\ (\E j \in good : cs[j].undo = i) -> [cs[i] EXCEPT !.status = "rolled_back"]
          [] OTHER -> cs[i]
  BY <1>1, <1>2 DEF Resolved, MineOf
<1>4. \/ Resolved(cs, t)[i] = cs[i]
      \/ \E s : Resolved(cs, t)[i] = [cs[i] EXCEPT !.status = s]
  <2>1. i \in good => i \in mine
    BY <1>2
  <2> QED
    BY <1>3, <2>1
<1> QED
  BY <1>4, SameUpdates

LEMMA LinkKeeps ==
    ASSUME IInv, NEW pr \in Procs, Link(pr)
    PROVE  Kept /\ Ids' = Ids
<1>1. \A i \in Ids : changes[i] \in SafeChange
  BY SavedRows DEF IInv
<1>2. loc[pr].task \in 1 .. Len(tasks)
  <2>1. pc[pr] = "link"
    BY DEF Link
  <2> QED
    BY <2>1, Lengths, LocalsFit DEF Fits
<1>3. PICK t : t = loc[pr].task
  OBVIOUS
<1>4. PICK st \in TaskStatus : st = IF tasks[t] = "none" THEN "uploaded" ELSE tasks[t]
  BY <1>2, <1>3 DEF IInv, RowsInv, TaskStatus
<1>5. PICK ls \in ChangeStatus : ls = LinkedStatus(st)
  BY Statuses DEF LinkedStatus
<1>6. PICK cs : cs = [i \in Ids |-> IF i \in Submitting(pr)
                                    THEN [changes[i] EXCEPT !.task = t, !.status = ls]
                                    ELSE changes[i]]
  OBVIOUS
<1>7. changes' = IF st = "partial" THEN Resolved(cs, t) ELSE cs
  BY <1>3, <1>4, <1>5, <1>6 DEF Link
<1>8. DOMAIN cs = Ids /\ \A i \in Ids : SamePrices(changes[i], cs[i])
  BY <1>1, <1>6, SameUpdates
<1>9. \A i \in Ids : cs[i] \in SafeChange
  <2>1. t \in Nat
    BY <1>2, <1>3, Lengths
  <2> QED
    BY <1>1, <1>6, <2>1, RowUpdates
<1>10. ASSUME NEW i \in Ids
       PROVE  SamePrices(changes[i], changes'[i])
  <2>1. SamePrices(cs[i], Resolved(cs, t)[i])
    BY <1>8, <1>9, ResolvedSame
  <2> QED
    BY <1>7, <1>8, <2>1 DEF SamePrices
<1>11. DOMAIN changes' = Ids
  BY <1>7, <1>8 DEF Resolved
<1> QED
  BY <1>10, <1>11 DEF Kept, Ids

LEMMA PollKeeps ==
    ASSUME IInv, NEW t, Poll(t)
    PROVE  Kept /\ Ids' = Ids
<1>1. \A i \in Ids : changes[i] \in SafeChange
  BY SavedRows DEF IInv
<1>2. CASE UNCHANGED changes
  BY <1>2 DEF Kept, Ids, SamePrices
<1>3. CASE changes' = Resolved(changes, t)
  <2>1. \A i \in Ids : SamePrices(changes[i], changes'[i])
    BY <1>1, <1>3, ResolvedSame DEF Ids
  <2>2. Ids' = Ids
    BY <1>3 DEF Resolved, Ids
  <2> QED
    BY <2>1, <2>2 DEF Kept
<1> QED
  BY <1>2, <1>3 DEF Poll

LEMMA SavedKeeps ==
    ASSUME IInv, NEW it \in SafeIntent, changes' = Saved(it)
    PROVE  \E n \in Nat : /\ n \notin Ids /\ Ids' = Ids \cup {n} /\ Kept
                          /\ SamePrices(it, changes'[n])
<1>1. PICK f : f = [i \in Ids |-> IF changes[i].prod = it.prod /\ changes[i].status = "pending"
                                 THEN [changes[i] EXCEPT !.status = "failed"]
                                 ELSE changes[i]]
  OBVIOUS
<1>2. PICK c : c = [prod |-> it.prod, old |-> it.old, new |-> it.new, entry |-> it.entry,
                    undo |-> it.undo, floor |-> it.floor, status |-> "pending", batch |-> 0,
                    task |-> 0]
  OBVIOUS
<1>3. changes' = Append(f, c)
  BY <1>1, <1>2 DEF Saved
<1>4. \A i \in Ids : changes[i] \in SafeChange
  BY SavedRows DEF IInv
<1>5. PICK n \in Nat : n = Len(changes) + 1 /\ Len(changes) \in Nat /\ Ids = 1 .. Len(changes)
  BY Lengths
<1>6. \A i \in Ids : SamePrices(changes[i], f[i])
  BY <1>1, <1>4, SameUpdates
<1>7. f \in Seq({f[i] : i \in Ids}) /\ Len(f) = Len(changes)
  <2>1. f \in [1 .. Len(changes) -> {f[i] : i \in Ids}]
    BY <1>1, <1>5
  <2> QED
    BY <1>1, <1>5, <2>1
<1>8. DOMAIN changes' = 1 .. n /\ changes'[n] = c /\ \A i \in Ids : changes'[i] = f[i]
  BY <1>3, <1>5, <1>7
<1>9. n \notin Ids /\ Ids' = Ids \cup {n}
  BY <1>5, <1>8 DEF Ids
<1>10. SamePrices(it, changes'[n])
  BY <1>2, <1>8 DEF SamePrices
<1> QED
  BY <1>6, <1>8, <1>9, <1>10 DEF Kept

-----------------------------------------------------------------------------
(* The requests and the jobs.                                              *)

\* A request starts from a bounded price.
LEMMA BaselineBounded ==
    ASSUME IInv, FloorInv, NEW p \in Products
    PROVE  Bounded(p, Baseline(p))
<1>1. Bounded(p, synced[p].price)
  BY DEF FloorInv, StoreFloors
<1>2. ASSUME Of(p, Intended) # {}
      PROVE  Bounded(p, changes[Max(Of(p, Intended))].new)
  <2>1. Len(changes) \in Nat /\ Of(p, Intended) \subseteq 0 .. Len(changes)
    BY Lengths DEF Of
  <2>2. PICK i : i = Max(Of(p, Intended)) /\ i \in Of(p, Intended)
    BY <1>2, <2>1, MaxIn
  <2>3. i \in Ids /\ changes[i].prod = p
    BY <2>2 DEF Of
  <2>4. RowSafe(changes[i])
    BY <2>3 DEF FloorInv, RowFloors
  <2> QED
    BY <2>2, <2>3, <2>4 DEF RowSafe
<1> QED
  BY <1>1, <1>2 DEF Baseline

LEMMA RequestsSafe ==
    ASSUME IInv, FloorInv, NEW S \in SUBSET Products, NEW v \in Targets,
           NEW e \in Entries \cup {None}, NEW floors \in MarginFloors
    PROVE  \A it \in RequestIntents(S, v, e, floors) : IntentSafe(it)
<1> SUFFICES ASSUME NEW it \in RequestIntents(S, v, e, floors)
             PROVE  IntentSafe(it)
  OBVIOUS
<1>1. it \in SafeIntent /\ KeepsFloor(it) /\ it.old = Baseline(it.prod) /\ it.undo = 0
  BY RequestIntentsKept, RequestFields DEF IInv
<1>2. it.prod \in Products
  BY <1>1 DEF SafeIntent
<1>3. Bounded(it.prod, Baseline(it.prod))
  BY <1>2, BaselineBounded
<1> QED
  BY <1>1, <1>3 DEF IntentSafe

LEMMA RequestsKeepFloors ==
    ASSUME IInv, FloorInv, NEW a \in Apis, NEW e,
           Bulk(a) \/ Rollback(a) \/ CancelRead(a, e)
    PROVE  FloorInv'
<1>1. a \in Procs
  BY DEF Procs
<1>2. CASE Bulk(a)
  <2>1. UNCHANGED <<changes, wb, wbPrice, synced>>
    BY <1>2 DEF Bulk, rows, site, store
  <2>2. PICK S \in SUBSET Products, v \in Targets, floors \in MarginFloors :
           Goto(a, "enqueue", [Idle EXCEPT !.job = "manual", !.todo = RequestIntents(S, v, None, floors)])
    BY <1>2 DEF Bulk
  <2>3. PICK T : T = RequestIntents(S, v, None, floors)
    OBVIOUS
  <2>4. \A it \in T : IntentSafe(it)
    BY <2>3, RequestsSafe
  <2>5. Goto(a, "enqueue", [Idle EXCEPT !.job = "manual", !.todo = T])
    BY <2>2, <2>3
  <2> QED
    BY <1>1, <2>1, <2>4, <2>5, BeginFloors
<1>3. CASE Rollback(a)
  <2>1. UNCHANGED <<changes, wb, wbPrice, synced>>
    BY <1>3 DEF Rollback, rows, site, store
  <2>2. PICK i \in Ids : Goto(a, "enqueue", [Idle EXCEPT !.job = "rollback", !.todo = {Undoing(i)}])
    BY <1>3 DEF Rollback, Undoing
  <2>3. PICK T : T = {Undoing(i)}
    OBVIOUS
  <2>4. Goto(a, "enqueue", [Idle EXCEPT !.job = "rollback", !.todo = T])
    BY <2>2, <2>3
  <2>5. RowSafe(changes[i]) /\ i # 0
    BY <2>2, Lengths DEF FloorInv, RowFloors
  <2>6. /\ Undoing(i).prod = changes[i].prod /\ Undoing(i).old = changes[i].new
        /\ Undoing(i).new = changes[i].old /\ Undoing(i).undo = i
    BY DEF Undoing, Intent
  <2>7. IntentSafe(Undoing(i))
    BY <2>5, <2>6 DEF IntentSafe, RowSafe
  <2>8. \A it \in T : IntentSafe(it)
    BY <2>3, <2>7
  <2> QED
    BY <1>1, <2>1, <2>4, <2>8, BeginFloors
<1>4. CASE CancelRead(a, e)
  <2>1. UNCHANGED <<changes, wb, wbPrice, synced>>
    BY <1>4 DEF CancelRead, rows, site, store
  <2>2. PICK new : new = [Idle EXCEPT !.job = "cancel", !.entry = e]
    OBVIOUS
  <2>3. Goto(a, "cancel", new) /\ new.todo = {}
    BY <1>4, <2>2, IdleFields DEF CancelRead
  <2>4. Kept /\ Ids' = Ids
    BY <2>1 DEF Kept, Ids, SamePrices
  <2> QED
    BY <1>1, <2>1, <2>3, <2>4, NoIntentFloors
<1> QED
  BY <1>2, <1>3, <1>4

\* What is read from WB is bounded, and what is stored was read.
LEMMA SyncReadFloors ==
    ASSUME IInv, FloorInv, SyncRead
    PROVE  FloorInv'
<1>1. UNCHANGED <<changes, wb, wbPrice, synced>> /\ Worker \in Procs
  BY DEF SyncRead, rows, site, Procs
<1>2. PICK new : new = [Idle EXCEPT !.job = "reprice", !.read = wbPrice]
  OBVIOUS
<1>3. pc'[Worker] = "store" /\ loc'[Worker] = new /\ Turn(Worker)
  BY <1>1, <1>2, GotoTurn DEF SyncRead
<1>4. new.todo = {} /\ new.read = wbPrice
  BY <1>2, IdleFields DEF Idle
<1>5. Kept /\ Ids' = Ids
  BY <1>1 DEF Kept, Ids, SamePrices
<1>6. RowFloors' /\ SiteFloors' /\ StoreFloors' /\ TodoFloors'
  BY <1>1, <1>3, <1>4, <1>5, RowFloorsStay, BoundsStay, TodoFloorsStay DEF FloorInv
<1>7. \A p \in Products : BoundedThen(p, loc'[Worker].read[p])
  BY <1>3, <1>4, <1>5, BoundedStays DEF FloorInv, SiteFloors
<1>8. ReadFloors'
  BY <1>7 DEF ReadFloors, Bounded, BoundedThen
<1> QED
  BY <1>6, <1>8 DEF FloorInv

LEMMA SyncStoreFloors ==
    ASSUME IInv, FloorInv, SyncStore
    PROVE  FloorInv'
<1>1. UNCHANGED <<changes, wb, wbPrice>> /\ Worker \in Procs /\ pc[Worker] = "store"
  BY DEF SyncStore, rows, site, Procs
<1>2. PICK read \in [Products -> Prices] : read = loc[Worker].read
  BY <1>1, LocalsFit DEF Fits
<1>3. \A p \in Products : Bounded(p, read[p])
  BY <1>1, <1>2 DEF FloorInv, ReadFloors
<1>4. Kept /\ Ids' = Ids
  BY <1>1 DEF Kept, Ids, SamePrices
<1>5. \A p \in Products : synced'[p].price = read[p]
  BY <1>2 DEF SyncStore
<1>6. StoreFloors'
  <2>1. \A p \in Products : BoundedThen(p, synced'[p].price)
    BY <1>3, <1>4, <1>5, BoundedStays
  <2> QED
    BY <2>1 DEF StoreFloors, Bounded, BoundedThen
<1>7. /\ pc'[Worker] # "store" /\ Turn(Worker)
      /\ \A it \in loc'[Worker].todo : IntentSafe(it)
  <2>1. CASE Return(Worker)
    <3>1. Goto(Worker, "idle", Idle)
      BY <2>1 DEF Return
    <3> QED
      BY <1>1, <3>1, GotoTurn, IdleFields
  <2>2. CASE ~Return(Worker)
    <3>1. PICK S \in SUBSET Products, econ \in EconomicsRead, blind \in BOOLEAN :
             \E todo \in StrategyIntents(read, S, econ, blind) :
                Goto(Worker, "enqueue", [Idle EXCEPT !.job = "reprice", !.todo = todo])
      BY <1>2, <2>2 DEF SyncStore
    <3>2. PICK todo \in StrategyIntents(read, S, econ, blind) :
             Goto(Worker, "enqueue", [Idle EXCEPT !.job = "reprice", !.todo = todo])
      BY <3>1
    <3>3. PICK new : new = [Idle EXCEPT !.job = "reprice", !.todo = todo]
      OBVIOUS
    <3>4. pc'[Worker] = "enqueue" /\ loc'[Worker] = new /\ Turn(Worker)
      BY <1>1, <3>2, <3>3, GotoTurn
    <3>5. new.todo = todo
      BY <3>3, IdleFields
    <3>6. ASSUME NEW it \in todo
          PROVE  IntentSafe(it)
      <4>1. it \in SafeIntent /\ KeepsFloor(it) /\ it.old = read[it.prod] /\ it.undo = 0
        BY StrategyIntentsKept, StrategyFields
      <4>2. it.prod \in Products
        BY <4>1 DEF SafeIntent
      <4> QED
        BY <1>3, <4>1, <4>2 DEF IntentSafe
    <3> QED
      BY <3>4, <3>5, <3>6
  <2> QED
    BY <2>1, <2>2
<1>8. RowFloors' /\ SiteFloors' /\ TodoFloors' /\ ReadFloors'
  BY <1>1, <1>4, <1>7, RowFloorsStay, BoundsStay, TodoFloorsStay, ReadFloorsStay DEF FloorInv
<1> QED
  BY <1>6, <1>8 DEF FloorInv

\* A job that fails an entry, or takes the next.
LEMMA SaveEntryFloors ==
    ASSUME IInv, FloorInv, UNCHANGED <<changes, wb, wbPrice, synced>>, NEW e, NEW T,
           \A it \in T : IntentSafe(it), SaveEntry(e, T)
    PROVE  FloorInv'
<1>1. Kept /\ Ids' = Ids /\ Worker \in Procs
  BY DEF Kept, Ids, SamePrices, Procs
<1>2. CASE T = {}
  <2>1. NextEntry({})
    BY <1>2 DEF SaveEntry, FailEntry
  <2> QED
    BY <1>1, <2>1, NextEntryFloors
<1>3. CASE T # {}
  <2>1. PICK new : new = [loc[Worker] EXCEPT !.todo = T]
    OBVIOUS
  <2>2. Goto(Worker, "enqueue", new) /\ new.todo = T
    BY <1>1, <1>3, <2>1, TodoFields DEF SaveEntry
  <2>3. pc'[Worker] = "enqueue" /\ loc'[Worker] = new /\ Turn(Worker)
    BY <1>1, <2>2, GotoTurn
  <2> QED
    BY <1>1, <2>2, <2>3, TurnFloors
<1> QED
  BY <1>2, <1>3

\* A revert goes back to a price that no floor it has read forbids.
LEMMA RevertsSafe ==
    ASSUME IInv, FloorInv, NEW e \in Entries, NEW floors \in MarginFloors, CanRevert(RevertOf[e], floors)
    PROVE  \A it \in RevertIntents(e, floors) : IntentSafe(it)
<1> SUFFICES ASSUME NEW i \in Ids, changes[i].entry = RevertOf[e],
                    NEW it, it = Intent(changes[i].prod, changes[i].new, changes[i].old, e, 0,
                                        floors[changes[i].prod])
             PROVE  IntentSafe(it)
  BY DEF RevertIntents
<1>1. floors[changes[i].prod] # Missing => Effective(changes[i].old) >= floors[changes[i].prod]
  BY DEF CanRevert
<1>2. RowSafe(changes[i]) /\ changes[i] \in SafeChange
  BY SavedRows DEF FloorInv, RowFloors, IInv
<1>3. /\ it.prod = changes[i].prod /\ it.old = changes[i].new /\ it.new = changes[i].old
      /\ it.undo = 0 /\ it.floor = floors[changes[i].prod]
  BY DEF Intent
<1>4. Effective(changes[i].old) \in Nat
  BY <1>2, EffectiveOfPrice DEF SafeChange, Prices
<1>5. Effective(it.new) >= it.floor
  BY <1>1, <1>3, <1>4 DEF Missing
<1> QED
  BY <1>2, <1>3, <1>5 DEF IntentSafe, RowSafe, KeepsFloor

LEMMA ExecuteFloors ==
    ASSUME IInv, FloorInv, Execute
    PROVE  FloorInv'
<1>1. UNCHANGED <<changes, wb, wbPrice, synced>> /\ pc[Worker] = "execute" /\ Worker \in Procs
  BY DEF Execute, site, store, Procs
<1>2. PICK e \in Entries : e = loc[Worker].entry
  BY <1>1, LocalsFit DEF Fits
<1>3. ExecuteCase(e)
  BY <1>2, ExecuteCases
<1>4. Kept /\ Ids' = Ids
  BY <1>1 DEF Kept, Ids, SamePrices
<1>5. ASSUME NEW D, NextEntry(D)
      PROVE  FloorInv'
  BY <1>1, <1>4, <1>5, NextEntryFloors
<1>6. ASSUME NEW floors \in MarginFloors, NEW S \in SUBSET Products, NEW v \in Targets,
             SaveEntry(e, RequestIntents(S, v, e, floors))
      PROVE  FloorInv'
  BY <1>1, <1>6, RequestsSafe, SaveEntryFloors
<1>7. ASSUME NEW floors \in MarginFloors, CanRevert(RevertOf[e], floors),
             SaveEntry(e, RevertIntents(e, floors))
      PROVE  FloorInv'
  BY <1>1, <1>7, RevertsSafe, SaveEntryFloors
<1>8. CASE SaveEntry(e, {})
  BY <1>1, <1>8, SaveEntryFloors
<1> QED
  BY <1>3, <1>5, <1>6, <1>7, <1>8 DEF ExecuteCase, FailEntry

-----------------------------------------------------------------------------
(* The queue and WB.                                                       *)

LEMMA EnqueueFloors ==
    ASSUME IInv, FloorInv, NEW pr \in Procs, Enqueue(pr)
    PROVE  FloorInv'
<1>1. UNCHANGED <<wb, wbPrice, synced>>
  BY DEF Enqueue, site, store
<1>2. PICK it \in loc[pr].todo :
         \/ /\ Goto(pr, "enqueue", [loc[pr] EXCEPT !.todo = loc[pr].todo \ {it}])
            /\ UNCHANGED changes
         \/ /\ changes' = Saved(it)
            /\ Goto(pr, "enqueue", [loc[pr] EXCEPT !.todo = loc[pr].todo \ {it}, !.accepted = TRUE])
  BY DEF Enqueue
<1>3. PICK T : T = loc[pr].todo \ {it}
  OBVIOUS
<1>4. /\ pc'[pr] = "enqueue" /\ loc'[pr].todo = T /\ Turn(pr)
  <2>1. PICK new : /\ new = [loc[pr] EXCEPT !.todo = T] \/ new = [loc[pr] EXCEPT !.todo = T, !.accepted = TRUE]
                   /\ Goto(pr, "enqueue", new)
    BY <1>2, <1>3
  <2>2. /\ [loc[pr] EXCEPT !.todo = T].todo = T
        /\ [loc[pr] EXCEPT !.todo = T, !.accepted = TRUE].todo = T
    BY TodoFields
  <2>3. new.todo = T
    BY <2>1, <2>2
  <2> QED
    BY <2>1, <2>3, GotoTurn
<1>5. CASE UNCHANGED changes
  <2>1. Kept /\ Ids' = Ids
    BY <1>5 DEF Kept, Ids, SamePrices
  <2> QED
    BY <1>1, <1>3, <1>4, <2>1, TurnFloors
<1>6. CASE changes' = Saved(it)
  <2>1. IntentSafe(it) /\ it \in SafeIntent
    <3>1. loc[pr] \in Local
      BY LocalsFit
    <3> QED
      BY <3>1 DEF FloorInv, TodoFloors, Local
  <2>2. PICK n \in Nat : n \notin Ids /\ Ids' = Ids \cup {n} /\ Kept /\ SamePrices(it, changes'[n])
    BY <1>6, <2>1, SavedKeeps
  <2>3. /\ it.prod \in Products /\ it.old \in Nat /\ it.new \in Nat /\ it.floor \in Nat
        /\ Effective(it.old) \in Nat /\ Effective(it.new) \in Nat
    BY <2>1, EffectiveOfPrice DEF SafeIntent, Prices
  <2>4. PICK p \in Products, v \in Nat, w \in Nat : p = it.prod /\ v = it.old /\ w = it.new
    BY <2>3
  <2>5. BoundedThen(p, v)
    BY <2>1, <2>2, <2>4, BoundedStays DEF IntentSafe
  <2>6. BoundedThen(p, w)
    <3>1. CASE it.undo # 0
      BY <2>1, <2>2, <2>4, <3>1, BoundedStays DEF IntentSafe
    <3>2. CASE it.undo = 0 /\ Effective(w) >= it.floor
      BY <2>2, <2>4, <3>2 DEF BoundedThen, SamePrices
    <3>3. CASE it.undo = 0 /\ Effective(w) > Effective(v)
      <4>1. Bounded(p, v) /\ Effective(w) >= Effective(v)
        BY <2>1, <2>3, <2>4, <3>3 DEF IntentSafe
      <4>2. Bounded(p, w)
        BY <4>1, HigherIsBounded
      <4> QED
        BY <2>2, <4>2, BoundedStays
    <3> QED
      BY <2>1, <2>4, <3>1, <3>2, <3>3 DEF IntentSafe, KeepsFloor
  <2>7. ASSUME NEW i \in Ids' \ Ids
        PROVE  /\ BoundedThen(changes'[i].prod, changes'[i].old)
               /\ BoundedThen(changes'[i].prod, changes'[i].new)
               /\ changes'[i].undo = 0 => KeepsFloor(changes'[i])
    <3>1. i = n /\ SamePrices(it, changes'[i])
      BY <2>2
    <3>2. changes'[i].prod = p /\ changes'[i].old = v /\ changes'[i].new = w
      BY <2>4, <3>1 DEF SamePrices
    <3>3. changes'[i].undo = 0 => KeepsFloor(changes'[i])
      BY <2>1, <3>1 DEF SamePrices, IntentSafe, KeepsFloor
    <3> QED
      BY <2>5, <2>6, <3>2, <3>3
  <2>8. RowFloors'
    BY <2>2, <2>7, RowFloorsStay DEF FloorInv
  <2> QED
    BY <1>1, <1>3, <1>4, <2>2, <2>8, BoundsStay, TodoFloorsStay, ReadFloorsStay DEF FloorInv
<1> QED
  BY <1>2, <1>5, <1>6

\* Claims, marks and results: the changes keep their prices.
LEMMA ClaimsFloors ==
    ASSUME IInv, FloorInv, NEW pr \in Procs, ClaimUnknown(pr) \/ ClaimPending(pr)
    PROVE  FloorInv'
<1>1. UNCHANGED <<wb, wbPrice, synced>>
  BY DEF ClaimUnknown, ClaimPending, site, store
<1>2. Kept /\ Ids' = Ids
  <2>1. CASE ClaimUnknown(pr)
    <3>1. PICK S : SetStatus(S, "submitting")
      BY <2>1 DEF ClaimUnknown
    <3> QED
      BY <3>1, SetStatusKeeps
  <2>2. CASE ClaimPending(pr)
    BY <2>2, ClaimPendingKeeps
  <2> QED
    BY <2>1, <2>2
<1>3. PICK S, r : Goto(pr, "upload", [loc[pr] EXCEPT !.batch = S, !.retry = r])
  BY DEF ClaimUnknown, ClaimPending
<1>4. PICK new : new = [loc[pr] EXCEPT !.batch = S, !.retry = r]
  OBVIOUS
<1>5. Goto(pr, "upload", new) /\ new.todo = loc[pr].todo
  BY <1>3, <1>4, TodoFields
<1> QED
  BY <1>1, <1>2, <1>5, NoIntentFloors

LEMMA EndsFloors ==
    ASSUME IInv, FloorInv, NEW pr \in Procs,
           ClaimNothing(pr) \/ UploadRefused(pr) \/ MarkUnknown(pr) \/ MarkFails(pr) \/ Crash(pr)
    PROVE  FloorInv'
<1>1. UNCHANGED <<wb, wbPrice, synced>>
  BY DEF ClaimNothing, UploadRefused, MarkUnknown, MarkFails, Crash, site, store
<1>2. Kept /\ Ids' = Ids
  <2>1. CASE UNCHANGED changes
    BY <2>1 DEF Kept, Ids, SamePrices
  <2>2. ASSUME NEW S, NEW st, SetStatus(S, st)
        PROVE  Kept /\ Ids' = Ids
    BY <2>2, SetStatusKeeps
  <2>3. \/ UNCHANGED changes
        \/ SetStatus(Submitting(pr), "failed")
        \/ SetStatus(Submitting(pr), "submit_unknown")
    BY DEF ClaimNothing, UploadRefused, MarkUnknown, MarkFails, Crash, rows
  <2> QED
    BY <2>1, <2>2, <2>3
<1>3. DrainEnd(pr) \/ Return(pr)
  BY DEF ClaimNothing, UploadRefused, MarkUnknown, MarkFails, Crash
<1> QED
  BY <1>1, <1>2, <1>3, DrainEndFloors, ReturnFloors

LEMMA LinkFloors ==
    ASSUME IInv, FloorInv, NEW pr \in Procs, Link(pr)
    PROVE  FloorInv'
<1>1. UNCHANGED <<wb, wbPrice, synced>>
  BY DEF Link, site, store
<1>2. Kept /\ Ids' = Ids
  BY LinkKeeps
<1>3. PICK new : new = [loc[pr] EXCEPT !.batch = {}, !.task = 0, !.retry = FALSE]
  OBVIOUS
<1>4. new.todo = loc[pr].todo
  BY <1>3, TodoFields
<1>5. DrainEnd(pr) \/ Goto(pr, "drain", new)
  BY <1>3 DEF Link
<1> QED
  BY <1>1, <1>2, <1>4, <1>5, DrainEndFloors, NoIntentFloors

LEMMA PollFloors ==
    ASSUME IInv, FloorInv, PollStart \/ \E t \in DOMAIN tasks : Poll(t)
    PROVE  FloorInv'
<1>1. UNCHANGED <<wb, wbPrice, synced>> /\ Worker \in Procs
  BY DEF PollStart, Poll, site, store, Procs
<1>2. Kept /\ Ids' = Ids
  BY PollKeeps, SetStatusKeeps DEF PollStart
<1>3. PICK T : Polling(T)
  BY DEF PollStart, Poll
<1>4. pc'[Worker] # "store" /\ Turn(Worker) /\ loc'[Worker].todo = {}
  BY <1>3, PollingTurn
<1> QED
  BY <1>1, <1>2, <1>4, TurnFloors

\* An upload sends the prices of its changes.
LEMMA UploadFloors ==
    ASSUME IInv, FloorInv, NEW pr \in Procs, Upload(pr)
    PROVE  FloorInv'
<1>1. UNCHANGED <<changes, wbPrice, synced>> /\ Kept /\ Ids' = Ids
  BY DEF Upload, store, Kept, Ids, SamePrices
<1>2. PICK S \in SUBSET Ids : S = loc[pr].batch
  BY Lengths, LocalsFit DEF Fits
<1>3. SiteFloors'
  <2>1. CASE UNCHANGED wb
    BY <1>1, <2>1, BoundsStay DEF FloorInv
  <2>2. CASE WBAccepts(S)
    <3>1. PICK n : Accepted(S, n)
      BY <1>1, <2>2, WBAcceptsTask
    <3>2. ASSUME NEW p \in DOMAIN Payload(S)
          PROVE  Bounded(p, Payload(S)[p])
      <4>1. \E i \in S : changes[i].prod = p
        BY DEF Payload
      <4>2. PICK i \in S : i = (CHOOSE j \in S : changes[j].prod = p) /\ changes[i].prod = p
        BY <4>1
      <4>3. Payload(S)[p] = changes[i].new
        BY <4>2 DEF Payload
      <4>4. RowSafe(changes[i])
        BY DEF FloorInv, RowFloors
      <4> QED
        BY <4>2, <4>3, <4>4 DEF RowSafe
    <3>3. ASSUME NEW t \in DOMAIN wb', NEW p \in DOMAIN wb'[t].items
          PROVE  BoundedThen(p, wb'[t].items[p])
      <4>1. CASE t = n
        <5>1. wb'[t].items = Payload(S)
          BY <3>1, <4>1 DEF Accepted
        <5> QED
          BY <1>1, <3>2, <5>1, BoundedStays
      <4>2. CASE t # n
        <5>1. t \in DOMAIN wb /\ wb'[t] = wb[t]
          BY <3>1, <4>2 DEF Accepted
        <5> QED
          BY <1>1, <5>1, BoundedStays DEF FloorInv, SiteFloors
      <4> QED
        BY <4>1, <4>2
    <3>4. \A p \in Products : BoundedThen(p, wbPrice'[p])
      BY <1>1, BoundedStays DEF FloorInv, SiteFloors
    <3> QED
      BY <3>3, <3>4 DEF SiteFloors, Bounded, BoundedThen
  <2> QED
    BY <1>2, <2>1, <2>2 DEF Upload
<1>4. PICK l, t : /\ l # "store"
                  /\ Goto(pr, l, loc[pr]) \/ Goto(pr, l, [loc[pr] EXCEPT !.task = t])
  BY DEF Upload
<1>5. PICK new : new = [loc[pr] EXCEPT !.task = t]
  OBVIOUS
<1>6. pc'[pr] = l /\ loc'[pr].todo = loc[pr].todo /\ Turn(pr)
  <2>1. new.todo = loc[pr].todo
    BY <1>5, TodoFields
  <2>2. CASE Goto(pr, l, loc[pr])
    BY <2>2, GotoTurn
  <2>3. CASE Goto(pr, l, new)
    BY <2>1, <2>3, GotoTurn
  <2> QED
    BY <1>4, <1>5, <2>2, <2>3
<1> QED
  BY <1>1, <1>3, <1>4, <1>6, RowFloorsStay, BoundsStay, TodoFloorsStay, ReadFloorsStay DEF FloorInv

\* WB sets prices that were sent.
LEMMA WBProcessFloors ==
    ASSUME IInv, FloorInv, NEW t \in DOMAIN wb, WBProcess(t)
    PROVE  FloorInv'
<1>1. PICK bad \in SUBSET DOMAIN wb[t].items : Processed(t, bad)
  BY WBProcesses
<1>2. UNCHANGED <<changes, synced, pc, loc>>
  BY DEF WBProcess, rows, store
<1>3. Kept /\ Ids' = Ids
  BY <1>2 DEF Kept, Ids, SamePrices
<1>4. \A u \in DOMAIN wb' : \A p \in DOMAIN wb'[u].items : BoundedThen(p, wb'[u].items[p])
  BY <1>1, <1>3, BoundedStays DEF Processed, FloorInv, SiteFloors
<1>5. \A p \in Products : BoundedThen(p, wbPrice'[p])
  <2>1. ASSUME NEW p \in Products
        PROVE  Bounded(p, wbPrice'[p])
    <3>1. wbPrice'[p] = IF p \in DOMAIN wb[t].items \ bad THEN wb[t].items[p] ELSE wbPrice[p]
      BY <1>1 DEF Processed
    <3>2. Bounded(p, wbPrice[p]) /\ (p \in DOMAIN wb[t].items => Bounded(p, wb[t].items[p]))
      BY DEF FloorInv, SiteFloors
    <3> QED
      BY <3>1, <3>2
  <2> QED
    BY <1>3, <2>1, BoundedStays
<1>6. SiteFloors'
  BY <1>4, <1>5 DEF SiteFloors, Bounded, BoundedThen
<1>7. Worker \in Procs /\ Turn(Worker) /\ loc'[Worker].todo = loc[Worker].todo
  BY <1>2 DEF Procs, Turn
<1>8. RowFloors' /\ StoreFloors' /\ TodoFloors'
  BY <1>2, <1>3, <1>7, RowFloorsStay, BoundsStay, TodoFloorsStay DEF FloorInv
<1>9. ReadFloors'
  BY <1>2, <1>3, BoundedStays DEF FloorInv, ReadFloors, Bounded, BoundedThen
<1> QED
  BY <1>6, <1>8, <1>9 DEF FloorInv

-----------------------------------------------------------------------------

LEMMA FloorsAtFirst == Init => FloorInv
<1> SUFFICES ASSUME Init PROVE FloorInv
  OBVIOUS
<1>1. /\ Ids = {} /\ DOMAIN wb = {} /\ \A pr \in Procs : pc[pr] = "idle" /\ loc[pr] = Idle
      /\ \A p \in Products : wbPrice[p] = StartPrice /\ synced[p].price = StartPrice
  BY DEF Init, Ids
<1>2. Idle.todo = {} /\ Worker \in Procs
  BY IdleFields DEF Procs
<1>3. Effective(StartPrice) \in Nat
  BY EffectiveOfPrice, PriceAssumption
<1>4. \A p : Bounded(p, StartPrice)
  BY <1>3 DEF Bounded
<1> QED
  BY <1>1, <1>2, <1>4 DEF FloorInv, RowFloors, SiteFloors, StoreFloors, TodoFloors, ReadFloors

\* Steps of entries and jobs that bring no intent, and of the rest of the world.
LEMMA OthersFloors ==
    ASSUME IInv, FloorInv,
           \/ \E a \in Apis : CancelWrite(a)
           \/ \E e \in Entries : CreateSchedule(e) \/ ClaimDue(e)
           \/ ScheduleEnd \/ EntryEnd
           \/ \E pr \in Procs : EnqueueEnd(pr)
           \/ CooldownEnds \/ Freeze \/ Unfreeze \/ UNCHANGED vars
    PROVE  FloorInv'
<1>1. UNCHANGED <<changes, wb, wbPrice, synced>>
  BY DEF CancelWrite, CreateSchedule, ClaimDue, ScheduleEnd, EntryEnd, EnqueueEnd, CooldownEnds,
         Freeze, Unfreeze, vars, rows, site, store
<1>2. Kept /\ Ids' = Ids /\ Worker \in Procs /\ \A a \in Apis : a \in Procs
  BY <1>1 DEF Kept, Ids, SamePrices, Procs
<1>3. CASE \E e \in Entries : ClaimDue(e)
  <2>1. PICK e \in Entries : ClaimDue(e)
    BY <1>3
  <2>2. PICK new : new = [loc[Worker] EXCEPT !.job = "schedule", !.entry = e]
    OBVIOUS
  <2>3. new.todo = loc[Worker].todo
    BY <1>2, <2>2, TodoFields
  <2>4. Goto(Worker, "execute", new)
    BY <2>1, <2>2 DEF ClaimDue
  <2> QED
    BY <1>1, <1>2, <2>3, <2>4, NoIntentFloors
<1>4. ASSUME NEW pr \in Procs, EnqueueEnd(pr)
      PROVE  FloorInv'
  <2>1. PICK new : new = [loc[pr] EXCEPT !.accepted = FALSE]
    OBVIOUS
  <2>2. new.todo = loc[pr].todo
    BY <2>1, TodoFields
  <2>3. Goto(pr, "drain", new) \/ NextEntry({}) \/ Return(pr)
    BY <1>4, <2>1 DEF EnqueueEnd, FailEntry
  <2> QED
    BY <1>1, <1>2, <2>2, <2>3, NoIntentFloors, NextEntryFloors, ReturnFloors
<1>5. CASE (\E a \in Apis : CancelWrite(a)) \/ ScheduleEnd \/ EntryEnd
  BY <1>1, <1>2, <1>5, ReturnFloors, NextEntryFloors DEF CancelWrite, ScheduleEnd, EntryEnd
<1>6. CASE (\E e \in Entries : CreateSchedule(e)) \/ CooldownEnds \/ Freeze \/ Unfreeze \/ UNCHANGED vars
  <2>1. UNCHANGED <<pc, loc>>
    BY <1>6 DEF CreateSchedule, CooldownEnds, Freeze, Unfreeze, vars
  <2> QED
    BY <1>1, <2>1, StillFloors
<1> QED
  BY <1>3, <1>4, <1>5, <1>6

LEMMA ApplyFloors ==
    ASSUME IInv, FloorInv, NEW pr \in Procs, Apply(pr)
    PROVE  FloorInv'
  BY EnqueueFloors, OthersFloors, ClaimsFloors, EndsFloors, UploadFloors, LinkFloors DEF Apply

LEMMA FloorsNext == IInv /\ FloorInv /\ [Next]_vars => FloorInv'
<1> SUFFICES ASSUME IInv, FloorInv, [Next]_vars PROVE FloorInv'
  OBVIOUS
<1>1. Worker \in Procs /\ \A a \in Apis : a \in Procs
  BY DEF Procs
<1>2. ASSUME NEW a \in Apis, Bulk(a) \/ Rollback(a) \/ ApiStep(a)
      PROVE  FloorInv'
  BY <1>1, <1>2, RequestsKeepFloors, OthersFloors, ApplyFloors DEF ApiStep
<1>3. ASSUME NEW a \in Apis, NEW e \in Entries, CancelRead(a, e)
      PROVE  FloorInv'
  BY <1>3, RequestsKeepFloors
<1>4. ASSUME NEW e \in Entries, CreateSchedule(e) \/ ClaimDue(e)
      PROVE  FloorInv'
  BY <1>4, OthersFloors
<1>5. CASE WorkerStep
  BY <1>1, <1>5, SyncStoreFloors, ExecuteFloors, OthersFloors, PollFloors, ApplyFloors DEF WorkerStep
<1>6. CASE SyncRead \/ PollStart
  BY <1>6, SyncReadFloors, PollFloors
<1>7. ASSUME NEW t \in DOMAIN wb, WBProcess(t)
      PROVE  FloorInv'
  BY <1>7, WBProcessFloors
<1>8. ASSUME NEW pr \in Procs, Crash(pr)
      PROVE  FloorInv'
  BY <1>8, EndsFloors
<1>9. CASE CooldownEnds \/ Freeze \/ Unfreeze \/ UNCHANGED vars
  BY <1>9, OthersFloors
<1> QED
  BY <1>2, <1>3, <1>4, <1>5, <1>6, <1>7, <1>8, <1>9 DEF Next

LEMMA FloorsHold == IInv /\ FloorInv => MarginKept
  BY DEF FloorInv, RowFloors, RowSafe, SiteFloors, MarginKept

-----------------------------------------------------------------------------
(* Results.                                                                *)

LEMMA TypeFollows == IInv => TypeOK
<1> SUFFICES ASSUME IInv PROVE TypeOK
  OBVIOUS
<1>1. changes \in Seq(Change) /\ Len(changes) <= MaxChanges
  <2>1. SafeChange \subseteq Change
    BY DEF SafeChange, Change, Prices, ChangeStatus
  <2> QED
    BY <2>1 DEF IInv, RowsInv
<1>2. /\ entries \in [Entries -> [status : Ended \cup {"none", "planned", "executing"},
                                  tasks : SUBSET DOMAIN tasks]]
      /\ tasks \in Seq({"none", "uploaded", "applied", "partial", "failed"})
  BY Lengths DEF IInv, RowsInv, EntryStatus, TaskStatus
<1>3. Len(tasks) = Len(wb) /\ wbPrice \in [Products -> Nat]
  BY DEF IInv, SiteInv, Prices
<1>4. synced \in [Products -> [price : Nat, at : Nat]] /\ syncs \in 0 .. MaxSyncs
  BY DEF IInv, StoreInv, Prices
<1>5. {cooling, paused} \subseteq BOOLEAN /\ mishaps \in 0 .. MaxMishaps
  BY DEF IInv, FlagsInv
<1>6. \A pr \in Procs : loc[pr].batch \subseteq Ids
  BY Lengths, LocalsFit DEF Fits
<1> QED
  BY <1>1, <1>2, <1>3, <1>4, <1>5, <1>6 DEF TypeOK

\* Every row, task and local keeps its type, for any number of requests,
\* entries, lost answers and deaths: no sequence of statements leaves a change
\* or an entry in a status that its table does not know, and an entry only ever
\* names tasks that WB has returned.
THEOREM TypeCorrect == Spec => []TypeOK
<1> QED
  BY InitHolds, NextKept, TypeFollows, PTL DEF Spec

\* Every request, schedule, revert and strategy keeps the floor it has read, or
\* raises the price; and no interleaving of them with costs that change, economics
\* that cannot be read, rollbacks that look at no floor, lost answers and deaths
\* makes WB sell a product below the lowest floor that a decision about it has
\* read, unless it started there.  For any economics, discount, targets and
\* strategy parameters (clampToMarginFloor, resolveFloor, buildExactScheduleRevert,
\* Rollback, enqueueAndApplyIntents, the decisions of the price engine).  A floor
\* that could not be read is none: marginFloors swallows the error.
THEOREM MarginAlwaysKept == Spec => []MarginKept
<1>1. IInv /\ FloorInv /\ [Next]_vars => (IInv /\ FloorInv)'
  BY NextKept, FloorsNext
<1> QED
  BY <1>1, InitHolds, FloorsAtFirst, FloorsHold, PTL DEF Spec

\* WB's open uploads are always covered by a lock: for any number of products,
\* requests, lost answers and deaths, a product that WB may still write has a
\* change in transport with the price that WB will write, so that no other
\* upload of it can be claimed meanwhile (ClaimPendingPriceChanges).  RejectRetries
\* is FALSE: WB recognizes the retry of an upload that it has accepted.
THEOREM WritesAreLocked ==
    ASSUME RejectRetries = FALSE
    PROVE  Spec => []LockCoversWrites
<1>1. IInv /\ LockInv /\ [Next]_vars => (IInv /\ LockInv)'
  BY NextKept, LocksNext
<1> QED
  BY <1>1, InitHolds, LocksAtFirst, LocksCover, PTL DEF Spec

\* When nothing of a product is in transport, WB shows what price_changes reports
\* as applied last: no lost answer, retry, reused task or late poll makes the
\* report and WB disagree (pollOneTask, CreatePriceUploadTaskAndLinkChanges).
THEOREM LastAppliedKept ==
    ASSUME RejectRetries = FALSE
    PROVE  Spec => []LastAppliedWins
<1>1. IInv /\ LockInv /\ [Next]_vars => (IInv /\ LockInv)'
  BY NextKept, LocksNext
<1> QED
  BY <1>1, InitHolds, LocksAtFirst, LocksOrder, PTL DEF Spec

\* However often an entry is deferred, claimed again after its executor died, or
\* cancelled in between, it saves at most one change for a product
\* (ClaimDuePriceScheduleEntry, enqueueScheduleIntents, RecoverStaleRepricerState).
THEOREM ScheduledOnce ==
    ASSUME RejectRetries = FALSE
    PROVE  Spec => []ScheduleOnce
<1>1. EntryInv => ScheduleOnce
  BY DEF EntryInv
<1> QED
  BY <1>1, RowsTogether, PTL

\* An entry that aggregatePriceSchedules reports as done has all its changes
\* applied by WB; the one exception are changes that were saved after WB had
\* answered an earlier change of the entry with a task it had made before.
THEOREM DoneIsApplied ==
    ASSUME RejectRetries = FALSE
    PROVE  Spec => []DoneMeansApplied
<1>1. EntryInv => DoneMeansApplied
  BY DEF EntryInv
<1> QED
  BY <1>1, RowsTogether, PTL

=============================================================================
