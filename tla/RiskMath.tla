------------------------------ MODULE RiskMath ------------------------------
(***************************************************************************)
(* What an account is worth: common/src/rates/value.rs, the Wad half of    *)
(* common/src/math/fp.rs, and the controller's risk totals, parameter      *)
(* refresh and risk gates (controller/src/risk).                           *)
(*                                                                         *)
(* A supply leg is [scaled, ltv, thr, bonus, fees], the raw share balance  *)
(* and the risk tuple stamped on it; a debt leg is its scaled balance.     *)
(* `mk' is what the transaction's Context has cached of every asset:       *)
(* [price, unit, supply_index, borrow_index].                              *)
(***************************************************************************)
EXTENDS Rates, FiniteSets, FiniteSetsExt, TLC

CONSTANTS
  MinWholeUnits,       \* MIN_WHOLE_UNIT_COLLATERAL
  ThresholdUpdateMinHf \* THRESHOLD_UPDATE_MIN_HF_RAW, 1.05 in WAD

\* Ray and Wad differ by a power of ten: WadUnit Ray make one Wad digit.
Wad == Ray \div WadUnit

WadMul(a, b)      == MulDivHalfUp(a, b, Wad)
WadMulFloor(a, b) == MulDivFloor(a, b, Wad)
WadMulCeil(a, b)  == MulDivCeil(a, b, Wad)
WadDiv(a, b)      == MulDivHalfUp(a, Wad, b)
WadDivFloor(a, b) == MulDivFloor(a, Wad, b)

\* Rescaling between Ray, Wad and the token units of an asset.  Asset decimals
\* never exceed those of WAD, so a token amount always rescales up exactly.
ToWad(ray)            == DivByIntHalfUp(ray, WadUnit)
ToWadFloor(ray)       == ray \div WadUnit
ToWadCeil(ray)        == ToAssetCeil(ray, WadUnit)
ToRay(wad)            == wad * WadUnit
FromToken(amount, u)  == amount * (u \div WadUnit)
ToTokenFloor(wad, u)  == wad \div (u \div WadUnit)
BpsToWad(rate)        == MulDivHalfUp(rate, Wad, Bps)
ApplyToWadFloor(rate, value) == WadMulFloor(value, BpsToWad(rate))

\* An asset below MIN_BORROWABLE_ASSET_DECIMALS: collateral in whole units only.
WholeUnit(m) == m.unit > BorrowableUnit

-----------------------------------------------------------------------------
(* common/src/rates/value.rs: the same product in three roundings.          *)

PositionValue(scaled, index, price) ==
  WadMul(ToWad(RayMul(scaled, index)), price)
PositionValueFloor(scaled, index, price) ==
  WadMulFloor(ToWadFloor(RayMulFloor(scaled, index)), price)
PositionValueCeil(scaled, index, price) ==
  WadMulCeil(ToWadCeil(RayMulCeil(scaled, index)), price)

UsdValue(amount, m) == WadMul(FromToken(amount, m.unit), m.price)

-----------------------------------------------------------------------------
(* risk/totals.rs                                                           *)

EffectiveLtv(leg) == Least(leg.ltv, leg.thr)

LegValue(leg, m) == PositionValue(leg.scaled, m.supply_index, m.price)
GateValue(leg, m) == PositionValueFloor(leg.scaled, m.supply_index, m.price)

TotalCollateral(sup, mk) ==
  MapThenSumSet(LAMBDA a : LegValue(sup[a], mk[a]), DOMAIN sup)
LtvCollateral(sup, mk) ==
  MapThenSumSet(LAMBDA a : ApplyToWadFloor(EffectiveLtv(sup[a]), GateValue(sup[a], mk[a])), DOMAIN sup)
WeightedCollateral(sup, mk) ==
  MapThenSumSet(LAMBDA a : ApplyToWadFloor(sup[a].thr, GateValue(sup[a], mk[a])), DOMAIN sup)
TotalDebt(debt, mk) ==
  MapThenSumSet(LAMBDA a : PositionValueCeil(debt[a], mk[a].borrow_index, mk[a].price), DOMAIN debt)

\* Rounded down and saturated; a debt-free account has the greatest factor.
HealthFactor(weighted, debt) ==
  IF debt = 0 THEN MaxI128 ELSE Least(WadDivFloor(weighted, debt), MaxI128)

TotalsOf(collateral, ltv, weighted, debt) ==
  [total_collateral |-> collateral, ltv_collateral |-> ltv, weighted_collateral |-> weighted,
   total_debt |-> debt, health_factor |-> HealthFactor(weighted, debt)]

RiskTotals(sup, debt, mk) ==
  TotalsOf(TotalCollateral(sup, mk), LtvCollateral(sup, mk),
           WeightedCollateral(sup, mk), TotalDebt(debt, mk))

-----------------------------------------------------------------------------
(* risk/validation.rs                                                       *)

HeldUnits(leg, m) == ToAssetFloor(RayMul(leg.scaled, m.supply_index), m.unit)

WholeUnitFloorMet(sup, mk) ==
  \A a \in DOMAIN sup : WholeUnit(mk[a]) => HeldUnits(sup[a], mk[a]) >= MinWholeUnits

TotalsClearGates(totals, floor) ==
  /\ totals.ltv_collateral >= totals.total_debt
  /\ totals.health_factor >= Wad
  /\ totals.ltv_collateral >= floor

\* require_post_pool_risk_gates, with the debt-free early return.
PostPoolRiskGates(sup, debt, mk, floor) ==
  \/ DOMAIN debt = {}
  \/ TotalsClearGates(RiskTotals(sup, debt, mk), floor) /\ WholeUnitFloorMet(sup, mk)

\* Only a new slot is counted: lowering the limit leaves old positions usable.
WithinPositionLimit(held, added, limit) ==
  added \ held = {} \/ Cardinality(held \cup added) <= limit

\* A whole-unit asset is the only supply leg of its account.
WholeUnitIsolated(held, added, mk) ==
  \/ added \ held = {}
  \/ Cardinality(held \cup added) <= 1
  \/ \A a \in (added \ held) \cup (IF Cardinality(held) = 1 THEN held ELSE {}) : ~WholeUnit(mk[a])

-----------------------------------------------------------------------------
(* risk/params.rs: refreshing the stamped tuple from the current listing.   *)

FavorsLiquidator(leg, cfg) ==
  cfg.thr < leg.thr \/ cfg.bonus > leg.bonus \/ cfg.fees < leg.fees

ClearsMinHf(sup, debt, mk, a, thr) ==
  RiskTotals([sup EXCEPT ![a].thr = thr], debt, mk).health_factor >= ThresholdUpdateMinHf

\* Any gate a liquidator gains by waits for the health factor of 1.05.
UngatedLiquidationParams(sup, debt, mk, a, leg, cfg) ==
  [leg EXCEPT !.thr = cfg.thr, !.bonus = cfg.bonus, !.fees = cfg.fees]

\* apply_gated_liquidation_params: `sup' is the account before this leg's change.
GatedLiquidationParams(sup, debt, mk, a, leg, cfg) ==
  IF FavorsLiquidator(leg, cfg) /\ DOMAIN debt # {}
       /\ ~ClearsMinHf((a :> leg) @@ sup, debt, mk, a, cfg.thr)
    THEN leg
    ELSE [leg EXCEPT !.thr = cfg.thr, !.bonus = cfg.bonus, !.fees = cfg.fees]

RefreshLeg(sup, debt, mk, a, leg, cfg, full) ==
  IF full
    THEN GatedLiquidationParams(sup, debt, mk, a, [leg EXCEPT !.ltv = cfg.ltv], cfg)
    ELSE [leg EXCEPT !.ltv = cfg.ltv]

\* restamp_listed_supply_ltv: every listed supply leg takes the listed LTV.
RestampListedLtv(sup, listing) ==
  [a \in DOMAIN sup |->
     IF a \in DOMAIN listing THEN [sup[a] EXCEPT !.ltv = listing[a].ltv] ELSE sup[a]]
=============================================================================
