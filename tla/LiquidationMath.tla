-------------------------- MODULE LiquidationMath --------------------------
(***************************************************************************)
(* Planning a liquidation: controller/src/positions/liquidation/curve.rs,  *)
(* math.rs and plan.rs.  All of it is arithmetic over one snapshot of the  *)
(* account; the tokens move later, in apply.rs.                            *)
(*                                                                         *)
(* Payments and repayments are sequences, because an excess is trimmed     *)
(* from the last leg backward.  Seizures are a function of the supply      *)
(* asset: each leg is sized independently of the others.                   *)
(***************************************************************************)
EXTENDS RiskMath, Sequences, SequencesExt

CONSTANT BadDebtThreshold   \* BAD_DEBT_USD_THRESHOLD, WAD USD

-----------------------------------------------------------------------------
(* payments.rs: one leg per asset, in the order the assets are first seen.  *)

PaymentsAllowed(payments, zero_means_all) ==
  /\ payments # <<>>
  /\ \A i \in DOMAIN payments : payments[i].amount > 0 \/ zero_means_all
  /\ \A i, j \in DOMAIN payments :
       payments[i].asset = payments[j].asset => (payments[i].amount = 0) = (payments[j].amount = 0)

PaidIn(payments, asset) ==
  MapThenSumSet(LAMBDA i : payments[i].amount, {i \in DOMAIN payments : payments[i].asset = asset})

FirstSeen(payments) ==
  FoldLeft(LAMBDA seen, p : IF p.asset \in ToSet(seen) THEN seen ELSE Append(seen, p.asset),
           <<>>, payments)

AggregatePayments(payments) ==
  LET order == FirstSeen(payments)
  IN  [i \in DOMAIN order |-> [asset |-> order[i], amount |-> PaidIn(payments, order[i])]]

-----------------------------------------------------------------------------
(* curve.rs                                                                 *)

\* Debt above collateral, and collateral no larger than the dust threshold.
IsSocializable(debt, collateral) == debt > collateral /\ collateral <= BadDebtThreshold

\* (1 + bonus) * proportion = 1, on the proportion rounded up to a basis point.
MaxBonusForThreshold(proportion) ==
  LET thr == Least(Greatest(MulDivCeil(proportion, Bps, Wad), 1), Bps)
  IN  IF proportion <= 0 THEN 0 ELSE (Bps * (Bps - thr)) \div thr

BonusScale(curve, hf, target) ==
  IF target <= curve.hf_for_max_bonus
    THEN Wad
    ELSE Least(WadDiv(target - hf, target - curve.hf_for_max_bonus), Wad)

LinearBonus(hf, base, max, curve, target) ==
  IF hf >= target
    THEN base
    ELSE base + BpsOf(curve.bonus_factor, WadMul(max - base, BonusScale(curve, hf, target)))

\* max_hf_preserving_bonus_bps: 1 + bonus <= hf / proportion, where it applies.
BonusIsCapped(snap) == snap.proportion > 0 /\ snap.hf < Wad
BonusCap(snap)      == (snap.hf * Bps) \div snap.proportion - Bps

AtTarget(snap, target, one_plus_bonus, d_max, denom_term, target_debt) ==
  IF target <= denom_term \/ target_debt <= snap.weighted
    THEN Least(d_max, snap.debt)
    ELSE Least(Least(WadDiv(target_debt - snap.weighted, target - denom_term), d_max), snap.debt)

LiquidationAtTarget(snap, bonus, target) ==
  LET one_plus_bonus == Wad + BpsToWad(bonus)
  IN  AtTarget(snap, target, one_plus_bonus, WadDiv(snap.collateral, one_plus_bonus),
               WadMul(snap.proportion, one_plus_bonus), WadMul(target, snap.debt))

\* A quote that would strand dust debt becomes the whole debt.
WithoutDust(snap, ideal, bonus) ==
  IF snap.debt - ideal > 0 /\ snap.debt - ideal < BadDebtThreshold
    THEN [usd |-> snap.debt, bonus |-> bonus]
    ELSE [usd |-> ideal, bonus |-> bonus]

\* Mutant: the curve's bonus is paid whatever the collateral can bear.
UncappedBonus(snap, bonus) == bonus

\* The bonus of a solvent account, held to what leaves the health factor no worse.
CappedBonus(snap, bonus) ==
  IF BonusIsCapped(snap) THEN Least(bonus, BonusCap(snap)) ELSE bonus

EstimateLiquidationAmount(snap, bounds, curve) ==
  IF BonusIsCapped(snap) /\ snap.collateral < snap.debt
    THEN [usd |-> Least(WadDivFloor(snap.collateral, Wad + BpsToWad(bounds.base)), snap.debt),
          bonus |-> bounds.base]
  ELSE IF BonusIsCapped(snap) /\ BonusCap(snap) < bounds.base
    THEN [usd |-> snap.debt, bonus |-> Greatest(BonusCap(snap), 0)]
  ELSE LET bonus == CappedBonus(snap, LinearBonus(snap.hf, bounds.base, bounds.max, curve, curve.target_hf))
       IN  WithoutDust(snap, LiquidationAtTarget(snap, bonus, curve.target_hf), bonus)

-----------------------------------------------------------------------------
(* math.rs: the account's bonus bounds.                                     *)

BoundsOf(weighted_bonus, max) == [base |-> Least(weighted_bonus, max), max |-> max]

AccountBonusParams(sup, mk, collateral, proportion) ==
  IF collateral = 0
    THEN BoundsOf(0, MaxBonusForThreshold(proportion))
    ELSE BoundsOf(DivByIntHalfUp(MapThenSumSet(LAMBDA a : LegValue(sup[a], mk[a]) * sup[a].bonus, DOMAIN sup),
                                 collateral),
                  MaxBonusForThreshold(proportion))

SnapshotOf(totals) ==
  [debt |-> totals.total_debt, collateral |-> totals.total_collateral,
   weighted |-> totals.weighted_collateral, hf |-> totals.health_factor,
   proportion |-> IF totals.total_collateral > 0
                    THEN WadDiv(totals.weighted_collateral, totals.total_collateral) ELSE 0]

-----------------------------------------------------------------------------
(* math.rs: sizing the repayment.                                           *)

\* A leg paid at its ceiling-rounded balance is credited the floor value of
\* the debt it clears, not the rounded-up token amount.
RepayLegFor(payment, scaled, m, owed) ==
  LET amount == Least(payment.amount, owed)
  IN  [asset |-> payment.asset, amount |-> amount,
       usd |-> IF amount = owed THEN PositionValueFloor(scaled, m.borrow_index, m.price)
                                ELSE UsdValue(amount, m)]

Owed(debt, mk, a) == UnscaleBorrowCeil(debt[a], mk[a].borrow_index, mk[a].unit)

RepaymentLegs(merged, debt, mk) ==
  [i \in DOMAIN merged |->
     RepayLegFor(merged[i], debt[merged[i].asset], mk[merged[i].asset], Owed(debt, mk, merged[i].asset))]

SumUsd(legs) == MapThenSumSet(LAMBDA i : legs[i].usd, DOMAIN legs)

\* The amount of a partly kept leg: floored under an insolvent quote, so that it
\* stays within the quote; otherwise what remains after a floored removal.
KeptAmount(leg, m, excess, keep_within_quote) ==
  IF keep_within_quote
    THEN Least(ToTokenFloor(WadDivFloor(leg.usd - excess, m.price), m.unit), leg.amount)
    ELSE leg.amount - ToTokenFloor(WadMulFloor(FromToken(leg.amount, m.unit), WadDivFloor(excess, leg.usd)), m.unit)

AfterPartialKeep(leg, m, acc, keep_within_quote, amount, usd) ==
  [legs   |-> IF amount = 0 THEN acc.legs
                            ELSE <<[asset |-> leg.asset, amount |-> amount, usd |-> usd]>> \o acc.legs,
   excess |-> IF keep_within_quote THEN Greatest(acc.excess - (leg.usd - usd), 0) ELSE 0]

TrimLeg(leg, m, acc, keep_within_quote) ==
  IF acc.excess = 0 \/ leg.amount <= 0 \/ leg.usd = 0
    THEN [acc EXCEPT !.legs = <<leg>> \o @]
  ELSE IF leg.usd > acc.excess
    THEN LET amount == KeptAmount(leg, m, acc.excess, keep_within_quote)
         IN  AfterPartialKeep(leg, m, acc, keep_within_quote, amount,
                              Least(UsdValue(amount, m), leg.usd))
    ELSE [acc EXCEPT !.excess = @ - leg.usd]

\* process_excess_payment: from the last repayment backward.
ProcessExcess(legs, mk, excess, keep_within_quote) ==
  FoldRight(LAMBDA leg, acc : TrimLeg(leg, mk[leg.asset], acc, keep_within_quote),
            legs, [legs |-> <<>>, excess |-> excess]).legs

OneUnitUsd(assets, mk) == MapThenSumSet(LAMBDA a : UsdValue(1, mk[a]), assets)

LegAssets(legs) == {legs[i].asset : i \in DOMAIN legs}

RepaysEveryLeg(legs, debt, mk) ==
  /\ Len(legs) = Cardinality(DOMAIN debt)
  /\ \A i \in DOMAIN legs : legs[i].amount >= Owed(debt, mk, legs[i].asset)

WithUnitMargin(unit_usd) == unit_usd + Greatest(unit_usd \div 1000000, 1)

\* Raising a quote below one whole unit of the only collateral leg.
UnitRepayment(quote, total_debt, one_plus_bonus, unit_usd, ceiling) ==
  IF WadMul(quote, one_plus_bonus) >= WithUnitMargin(unit_usd)
    THEN quote
  ELSE IF MulDivFloor(unit_usd, Wad, one_plus_bonus) >= ceiling
    THEN total_debt
  ELSE LET repayment == MulDivCeil(WithUnitMargin(unit_usd), Wad, one_plus_bonus)
       IN  IF repayment >= total_debt THEN quote ELSE repayment

WholeUnitRepayment(sup, debt, mk, snap, quote, bonus) ==
  LET a == CHOOSE x \in DOMAIN sup : TRUE
  IN  IF Cardinality(DOMAIN sup) # 1 \/ ~WholeUnit(mk[a]) \/ HeldUnits(sup[a], mk[a]) < 1
        THEN quote
        ELSE UnitRepayment(quote, snap.debt, Wad + BpsToWad(bonus), UsdValue(1, mk[a]),
                           snap.debt + OneUnitUsd(DOMAIN debt, mk))

IdealRepayment(sup, debt, mk, snap, quote) ==
  IF snap.collateral < snap.debt \/ quote.usd >= snap.debt
    THEN quote.usd
    ELSE WholeUnitRepayment(sup, debt, mk, snap, quote.usd, quote.bonus)

TrimToIdeal(legs, mk, ideal, full_close, insolvent) ==
  IF ~full_close /\ SumUsd(legs) > ideal
    THEN ProcessExcess(legs, mk, SumUsd(legs) - ideal, insolvent)
    ELSE legs

\* Mutant: any repayment of an insolvent account takes all its collateral.
PlanSeizesAll(legs, debt, mk, ideal, bonus, full_close, insolvent) ==
  [repaid |-> legs, repay_usd |-> SumUsd(legs), bonus |-> bonus, full_close |-> full_close,
   seize_all |-> insolvent /\ SumUsd(legs) > 0,
   repays_all_debt |-> full_close /\ RepaysEveryLeg(legs, debt, mk)]

PlanOf(legs, debt, mk, ideal, bonus, full_close, insolvent) ==
  [repaid |-> legs, repay_usd |-> SumUsd(legs), bonus |-> bonus, full_close |-> full_close,
   seize_all |-> /\ insolvent
                 /\ SumUsd(legs) > 0
                 /\ SumUsd(legs) + OneUnitUsd(LegAssets(legs), mk) >= ideal,
   repays_all_debt |-> full_close /\ RepaysEveryLeg(legs, debt, mk)]

PlanFor(sup, debt, mk, snap, offered, ideal, bonus) ==
  PlanOf(TrimToIdeal(offered, mk, ideal, ideal >= snap.debt, snap.collateral < snap.debt),
         debt, mk, ideal, bonus, ideal >= snap.debt, snap.collateral < snap.debt)

\* normalize_repayment_plan
NormalizeRepaymentPlan(sup, debt, mk, snap, merged, quote) ==
  PlanFor(sup, debt, mk, snap, RepaymentLegs(merged, debt, mk),
          IdealRepayment(sup, debt, mk, snap, quote), quote.bonus)

-----------------------------------------------------------------------------
(* math.rs: sizing the seizure.                                             *)

\* A partial seizure of a whole-unit leg: up when the plan repays all debt,
\* down otherwise.
InWholeUnits(request, actual, m, plan) ==
  IF plan.seize_all \/ ~WholeUnit(m) \/ request >= actual
    THEN request
  ELSE IF plan.repays_all_debt
    THEN Least(FromAsset(ToAssetCeil(request, m.unit), m.unit), actual)
    ELSE FromAsset(ToAssetFloor(request, m.unit), m.unit)

\* Repayment value the fraction dropped from a whole-unit leg no longer backs.
DroppedUsd(usd, request, seizure, actual, m, plan) ==
  IF plan.seize_all \/ ~WholeUnit(m) \/ request >= actual \/ plan.repays_all_debt
    THEN 0
    ELSE Greatest(usd - WadMul(ToWad(seizure), m.price), 0)

BonusPart(capped, base) == IF capped > base THEN capped - base ELSE 0

\* The fee floors to token units with a minimum of one, and never exceeds the
\* whole units the pool pays above the repayment's share.
ProtocolFeeOf(fee_ray, gross, base, m) ==
  Least(IF fee_ray > 0 /\ ToAssetFloor(fee_ray, m.unit) = 0 THEN 1 ELSE ToAssetFloor(fee_ray, m.unit),
        ToAssetFloor(BonusPart(FromAsset(gross, m.unit), base), m.unit))

SeizeEntryOf(leg, m, capped, actual, base, bonus, amount) ==
  LET shares == IF capped = actual THEN leg.scaled ELSE RayDivFloor(capped, m.supply_index)
  IN  [amount |-> amount,
       protocol_fee |-> ProtocolFeeOf(BpsOf(leg.fees, bonus),
                                      ResolveWithdrawal(amount, leg.scaled, m.supply_index, m.unit).gross,
                                      base, m),
       scaled |-> shares,
       bonus_scaled |-> Least(RayDivFloor(bonus, m.supply_index), shares),
       fees |-> leg.fees]

CappedAmount(capped, actual, m) ==
  IF capped = actual THEN ToAsset(capped, m.unit) ELSE ToAssetFloor(capped, m.unit)

\* The principal is derived before the cap: dividing the capped seizure would
\* invent a fee-bearing bonus.
SeizeLegOf(leg, m, plan, one_plus_bonus, seizure, actual) ==
  LET capped == IF plan.seize_all THEN actual ELSE Least(seizure, actual)
      base   == RayDivFloor(seizure, ToRay(one_plus_bonus))
  IN  SeizeEntryOf(leg, m, capped, actual, base, BonusPart(capped, base), CappedAmount(capped, actual, m))

SeizureOf(leg, m, plan, one_plus_bonus, usd, request, actual) ==
  LET seizure == InWholeUnits(request, actual, m, plan)
  IN  [entry   |-> SeizeLegOf(leg, m, plan, one_plus_bonus, seizure, actual),
       kept    |-> seizure > 0,
       dropped |-> DroppedUsd(usd, request, seizure, actual, m, plan)]

SeizureUsd(leg, m, collateral, total) == WadMul(total, WadDiv(LegValue(leg, m), collateral))

SeizureFor(leg, m, plan, one_plus_bonus, usd) ==
  SeizureOf(leg, m, plan, one_plus_bonus, usd,
            Least(ToRay(WadDiv(usd, m.price)), MaxI128), RayMul(leg.scaled, m.supply_index))

\* calculate_seized_collateral: legs that round to no shares or no tokens are skipped.
SeizuresOf(per_leg, one_plus_bonus) ==
  LET seized == {a \in DOMAIN per_leg :
                   per_leg[a].kept /\ per_leg[a].entry.scaled > 0 /\ per_leg[a].entry.amount > 0}
  IN  [seized   |-> [a \in seized |-> per_leg[a].entry],
       unbacked |-> WadDivFloor(MapThenSumSet(LAMBDA a : per_leg[a].dropped, DOMAIN per_leg), one_plus_bonus)]

CalculateSeizedCollateral(sup, mk, collateral, plan) ==
  LET one_plus_bonus == Wad + BpsToWad(plan.bonus)
      total == WadMul(plan.repay_usd, one_plus_bonus)
  IN  IF collateral <= 0
        THEN [seized |-> <<>>, unbacked |-> 0]
        ELSE SeizuresOf([a \in DOMAIN sup |->
                           SeizureFor(sup[a], mk[a], plan, one_plus_bonus,
                                      SeizureUsd(sup[a], mk[a], collateral, total))],
                        one_plus_bonus)

\* release_unbacked_repayment
ReleaseUnbacked(plan, mk, excess) ==
  LET legs == ProcessExcess(plan.repaid, mk, excess, FALSE)
  IN  IF excess <= 0 THEN plan
      ELSE [plan EXCEPT !.repaid = legs, !.repay_usd = SumUsd(legs),
                        !.full_close = FALSE, !.repays_all_debt = FALSE]

-----------------------------------------------------------------------------
(* plan.rs: build_liquidation_plan, after its flag checks.                  *)

Released(plan, mk, seized) ==
  LET once == ReleaseUnbacked(plan, mk, seized.unbacked)
  IN  IF seized.unbacked > 0 /\ DOMAIN seized.seized = {}
        THEN ReleaseUnbacked(once, mk, once.repay_usd) ELSE once

WithSeizures(plan, mk, seized) ==
  [repayment |-> Released(plan, mk, seized), seized |-> seized.seized]

SeizeFor(sup, mk, collateral, plan) ==
  WithSeizures(plan, mk, CalculateSeizedCollateral(sup, mk, collateral, plan))

PlanAt(sup, debt, mk, snap, merged, curve) ==
  SeizeFor(sup, mk, snap.collateral,
           NormalizeRepaymentPlan(sup, debt, mk, snap, merged,
             EstimateLiquidationAmount(snap, AccountBonusParams(sup, mk, snap.collateral, snap.proportion), curve)))

BuildLiquidationPlan(sup, debt, mk, merged, curve) ==
  PlanAt(sup, debt, mk, SnapshotOf(RiskTotals(sup, debt, mk)), merged, curve)

\* LiquidationPlan::validate; a plan that fails it traps.
PlanValid(plan) ==
  /\ SumUsd(plan.repayment.repaid) = plan.repayment.repay_usd
  /\ \A a \in DOMAIN plan.seized :
       LET e == plan.seized[a]
       IN  /\ e.amount > 0 /\ e.protocol_fee \in 0..e.amount
           /\ e.scaled > 0 /\ e.bonus_scaled \in 0..e.scaled /\ e.fees < Bps

-----------------------------------------------------------------------------
(* math.rs: after the transfers.                                            *)

\* scale_seizures_to_received: short receipts shrink both representations.
ScaledEntry(e, m, num, den) ==
  LET shares == MulDivFloor(e.scaled, num, den)
      amount == Least(MulDivFloor(e.amount, num, den), UnscaleSupplyFloor(shares, m.supply_index, m.unit))
  IN  [amount |-> amount,
       protocol_fee |-> Least(MulDivFloor(e.protocol_fee, num, den), amount),
       scaled |-> shares,
       bonus_scaled |-> MulDivFloor(e.bonus_scaled, num, den), fees |-> e.fees]

ScaleAllowed(seized, mk, received, planned) ==
  planned <= 0 \/ received >= planned \/ \A a \in DOMAIN seized : ~WholeUnit(mk[a])

ScaleSeizures(seized, mk, received, planned) ==
  IF planned <= 0 \/ received >= planned THEN seized
  ELSE [a \in DOMAIN seized |-> ScaledEntry(seized[a], mk[a], received, planned)]

\* split_seized_shares: the fee rounds up and the liquidator takes the rest.
FeeShares(e)    == MulDivCeil(e.bonus_scaled, e.fees, Bps)
CreditShares(e) == e.scaled - FeeShares(e)

\* apply_liquidation_repayments: the value credited to a leg that delivered less.
ReceivedUsd(leg, received) ==
  IF received >= leg.amount THEN leg.usd ELSE MulDivFloor(leg.usd, received, leg.amount)
=============================================================================
