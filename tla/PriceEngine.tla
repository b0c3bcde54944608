---------------------------- MODULE PriceEngine ----------------------------
(***************************************************************************)
(* The arithmetic of the WB repricer: the margin floor, the conversions    *)
(* between a base price and the effective (discounted) price, the guards   *)
(* every change passes and the decisions of the five price strategies.     *)
(*                                                                         *)
(* Prices are whole rubles.  Percentages are whole too, so that            *)
(* math.Round(x * p / 100) and math.Ceil(x * 100 / p) are exact.           *)
(***************************************************************************)
EXTENDS Integers

RoundPercent(x, p) == (x * p + 50) \div 100

CeilPercent(x, p) == (x * 100 + p - 1) \div p

\* A value that is not there (a nil pointer); a price of 0 is none either.
Missing == 0

clampDiscount(d) == IF d < 0 THEN 0 ELSE IF d > 95 THEN 95 ELSE d

effectiveOf(base, discount) == RoundPercent(base, 100 - clampDiscount(discount))

basePriceForTarget(target, discount) == CeilPercent(target, 100 - clampDiscount(discount))

-----------------------------------------------------------------------------
(* The guards of a change.                                                 *)

\* checkQuarantineRisk: WB would park the change in price quarantine.
QuarantineRisk(old, new) == new > 0 /\ old >= new * 3

\* checkRaiseAnomaly, of which a strategy is exempt.
RaiseAnomaly(old, new) == old > 0 /\ new >= old * 3

quarantineSafeTarget(old, target) ==
    IF QuarantineRisk(old, target) THEN old \div 3 + 1 ELSE target

\* The base price a request for newBase may set, 0 when it is to be skipped.
clampToMarginFloor(curBase, curDiscount, newBase, newDiscount, floor) ==
    LET old == effectiveOf(curBase, curDiscount)
        new == effectiveOf(newBase, newDiscount)
    IN  CASE new >= floor -> newBase
          [] new < floor /\ old >= floor -> basePriceForTarget(floor, newDiscount)
          [] new < floor /\ old < floor /\ new > old -> newBase
          [] OTHER -> 0

\* Slip: the floor is not looked at.
RequestedUnclamped(curBase, discount, target, floor) ==
    LET step == quarantineSafeTarget(effectiveOf(curBase, discount),
                                     effectiveOf(target, discount))
    IN  IF step = effectiveOf(target, discount) THEN target
        ELSE basePriceForTarget(step, discount)

\* What a manual or scheduled request for the base price target becomes: kept
\* at the floor (unless there is none), then cut to a quarantine-safe step.
\* 0 when nothing is to be sent.
Requested(curBase, discount, target, floor) ==
    LET kept == IF floor = Missing THEN target
                ELSE clampToMarginFloor(curBase, discount, target, discount, floor)
        goal == effectiveOf(kept, discount)
        step == quarantineSafeTarget(effectiveOf(curBase, discount), goal)
    IN  IF kept <= 0 THEN 0
        ELSE IF step = goal THEN kept ELSE basePriceForTarget(step, discount)

-----------------------------------------------------------------------------
(* The floor of a product.  econ.known: cost and commission are there, and *)
(* cost is not negative; econ.percent adds commission, tax and margin.     *)

HasMarginFloor(econ) == econ.known /\ 100 - econ.percent >= 5

ComputeMinEffectivePrice(econ) == CeilPercent(econ.cost, 100 - econ.percent)

\* resolveFloor of a strategy that applies its decisions itself: there is no
\* relative floor to fall back on.
HasFloor(econ, minPrice) == HasMarginFloor(econ) \/ minPrice > 0

resolveFloor(econ, minPrice) ==
    IF HasMarginFloor(econ) /\ ComputeMinEffectivePrice(econ) >= minPrice
    THEN ComputeMinEffectivePrice(econ)
    ELSE minPrice

-----------------------------------------------------------------------------
(* The decisions.  cur is the effective price; each returns the effective  *)
(* target, or cur itself for every reason to leave the price alone.  They  *)
(* are taken only when cur > 0 and there is a floor.                       *)

AtLeast(x, floor) == IF x < floor THEN floor ELSE x

AtMost(x, ceiling) == IF x > ceiling THEN ceiling ELSE x

\* A floor three times the price is taken for corrupted economics.
DecideMarginFloor(cur, floor) ==
    IF cur >= floor \/ floor >= cur * 3 THEN cur ELSE floor

\* Down on overstock, up (to maxPrice, without which not at all) on low stock.
DecideInventoryDemand(cur, floor, step, overstock, lowStock, maxPrice) ==
    LET down == AtLeast(RoundPercent(cur, 100 - step), floor)
        up   == AtMost(RoundPercent(cur, 100 + step), maxPrice)
    IN  CASE overstock /\ down < cur -> down
          [] ~overstock /\ lowStock /\ maxPrice # Missing /\ up > cur -> up
          [] OTHER -> cur

DecideAdLinked(cur, floor, step, drrExceeded) ==
    LET down == AtLeast(RoundPercent(cur, 100 - step), floor)
    IN  IF drrExceeded /\ down < cur THEN down ELSE cur

\* The move of one run is capped; a fall never passes the floor.
CappedMove(cur, target, floor, step) ==
    CASE target > cur -> AtMost(target, RoundPercent(cur, 100 + step))
      [] target < cur -> AtLeast(AtLeast(target, RoundPercent(cur, 100 - step)), floor)
      [] OTHER -> cur

\* Nudges below one per cent, or below one ruble, are not worth a change.
DeadBand(cur, target) ==
    LET diff == IF target > cur THEN target - cur ELSE cur - target
    IN  IF diff * 100 < cur THEN cur ELSE target

\* intensity is a percentage.  A price is raised only up to maxPrice.
DecidePeakHours(cur, floor, step, uplift, dead, intensity, maxPrice) ==
    LET raw    == (cur * (10000 + uplift * intensity - dead * (100 - intensity)) + 5000) \div 10000
        band   == AtLeast(AtMost(raw, RoundPercent(cur, 100 + uplift)), floor)
        target == IF band > cur THEN AtMost(band, maxPrice) ELSE band
    IN  IF band > cur /\ maxPrice = Missing THEN cur
        ELSE DeadBand(cur, CappedMove(cur, target, floor, step))

DecideCompetitorFollow(cur, floor, step, competitor, undercut) ==
    LET target == AtLeast(RoundPercent(competitor, 100 - undercut), floor)
    IN  IF competitor <= 0 THEN cur
        ELSE DeadBand(cur, CappedMove(cur, target, floor, step))

=============================================================================
