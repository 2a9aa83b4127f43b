------------------------------- MODULE Rates -------------------------------
(***************************************************************************)
(* Interest: common/src/rates.  The three-segment borrow curve, the eight  *)
(* term Taylor factor, the index updates, the share of the protocol, and   *)
(* the conversions between token amounts and index-scaled shares.          *)
(*                                                                         *)
(* A market m is the record the pool stores (PoolStateRaw), p its          *)
(* parameters (MarketParams).  `unit' stands for asset_decimals.           *)
(***************************************************************************)
EXTENDS FixedPoint

CONSTANTS
  MsPerYear,          \* MILLISECONDS_PER_YEAR, also MAX_COMPOUND_DELTA_MS
  MaxIndex,           \* MAX_BORROW_INDEX_RAY = MAX_SUPPLY_INDEX_RAY
  SupplyIndexFloor,   \* SUPPLY_INDEX_FLOOR_RAW
  MaxBorrowRate,      \* MAX_BORROW_RATE_RAY
  MaxFlashFee,        \* MAX_FLASHLOAN_FEE_BPS
  WadUnit,            \* Ray per base unit of an 18-decimal token
  BorrowableUnit      \* Ray per base unit of a 3-decimal token

ASSUME YearAssumption  == MsPerYear \in Nat \ {0}
ASSUME IndexAssumption == /\ MaxIndex \in Nat /\ Ray <= MaxIndex
                          /\ MaxIndex <= MaxI128
                          /\ SupplyIndexFloor \in 1..Ray
ASSUME RateAssumption  == MaxBorrowRate \in Nat /\ MaxFlashFee \in 0..Bps
ASSUME UnitAssumption  == WadUnit \in Nat \ {0} /\ BorrowableUnit \in Nat \ {0}

\* PoolStateRaw.
MarketState ==
  [supplied : 0..MaxI128, borrowed : 0..MaxI128, revenue : 0..MaxI128,
   borrow_index : Ray..MaxIndex, supply_index : SupplyIndexFloor..MaxIndex,
   last_timestamp : Nat, cash : 0..MaxI128]

\* MarketParamsRaw, without the asset address (the market key holds it).
MarketParams ==
  [max_borrow_rate : Nat, base_borrow_rate : Nat, slope1 : Nat, slope2 : Nat,
   slope3 : Nat, mid_utilization : Nat, optimal_utilization : Nat,
   max_utilization : Nat, reserve_factor : Nat, is_flashloanable : BOOLEAN,
   flashloan_fee : Nat, unit : Nat \ {0}]

\* MarketParamsRaw::verify and InterestRateModel::verify.
Verify(p) ==
  /\ p.unit >= WadUnit
  /\ p.is_flashloanable => p.unit <= BorrowableUnit
  /\ p.base_borrow_rate <= p.slope1
  /\ p.slope1 <= p.slope2
  /\ p.slope2 <= p.slope3
  /\ p.slope3 <= p.max_borrow_rate
  /\ p.base_borrow_rate < p.max_borrow_rate
  /\ p.max_borrow_rate <= MaxBorrowRate
  /\ 0 < p.mid_utilization
  /\ p.mid_utilization < p.optimal_utilization
  /\ p.optimal_utilization < Ray
  /\ p.optimal_utilization <= p.max_utilization
  /\ p.max_utilization <= Ray
  /\ p.reserve_factor < Bps
  /\ p.flashloan_fee <= MaxFlashFee

-----------------------------------------------------------------------------
(* curve.rs, compound.rs                                                    *)

Utilization(borrowed, supplied) ==
  IF supplied = 0 THEN 0 ELSE RayDiv(borrowed, supplied)

\* base + slopes of the segments below + the share of the current segment.
AnnualBorrowRate(util, p) ==
  LET u == Least(util, Ray)
      Ramp(from, to, slope) == RayDiv(RayMul(u - from, slope), to - from)
      rate == IF u < p.mid_utilization
                THEN p.base_borrow_rate + Ramp(0, p.mid_utilization, p.slope1)
              ELSE IF u < p.optimal_utilization
                THEN p.base_borrow_rate + p.slope1
                     + Ramp(p.mid_utilization, p.optimal_utilization, p.slope2)
              ELSE p.base_borrow_rate + p.slope1 + p.slope2
                   + Ramp(p.optimal_utilization, Ray, p.slope3)
  IN  Least(rate, p.max_borrow_rate)

BorrowRate(util, p) == DivByIntHalfUp(AnnualBorrowRate(util, p), MsPerYear)

\* e^(rate * delta) through the eighth-order Taylor term.
CompoundInterest(rate, delta) ==
  LET x  == rate * delta
      x2 == RayMul(x, x)
      x3 == RayMul(x2, x)
      x4 == RayMul(x3, x)
      x5 == RayMul(x4, x)
      x6 == RayMul(x5, x)
      x7 == RayMul(x6, x)
      x8 == RayMul(x7, x)
  IN  IF delta = 0 THEN Ray
      ELSE Ray + x + DivByIntHalfUp(x2, 2) + DivByIntHalfUp(x3, 6)
           + DivByIntHalfUp(x4, 24) + DivByIntHalfUp(x5, 120)
           + DivByIntHalfUp(x6, 720) + DivByIntHalfUp(x7, 5040)
           + DivByIntHalfUp(x8, 40320)

-----------------------------------------------------------------------------
(* index.rs                                                                 *)

UpdateBorrowIndex(old, factor) == Least(RayMul(old, factor), MaxIndex)

\* Mutant: the index is rounded in favour of the suppliers.
UpdateSupplyIndexCeil(supplied, old, rewards) ==
  IF supplied = 0 \/ rewards = 0 THEN old
  ELSE Least(RayDivCeil(RayMul(supplied, old) + rewards, supplied), MaxIndex)

\* Spreads the rewards over the supplied value; never lowers the index.
UpdateSupplyIndex(supplied, old, rewards) ==
  LET value == RayMul(supplied, old)
      grown == Least(RayDivFloor(value + rewards, supplied), MaxI128)
  IN  IF supplied = 0 \/ rewards = 0 \/ value = 0 THEN old
      ELSE Greatest(Least(grown, MaxIndex), Least(old, MaxIndex))

\* Interest of the step, and the protocol's part of it.
AccruedInterest(borrowed, new, old) == RayMul(borrowed, new) - RayMul(borrowed, old)
ProtocolFee(p, interest) == BpsOf(p.reserve_factor, interest)

\* Value the supply index moved; what it could not absorb goes to the protocol.
Distributed(supplied, old, new) == RayMul(supplied, new) - RayMul(supplied, old)

\* Floored shares, capped so that minting them cannot overflow the total.
ProtocolFeeShares(fee, supply_index, supplied) ==
  Least(Least(RayDivFloor(fee, supply_index), MaxI128), MaxI128 - supplied)

-----------------------------------------------------------------------------
(* simulate.rs: one compounding step.  `ok' is FALSE where the code traps:  *)
(* a negative checked_sub or a value beyond i128.                           *)

\* The borrow index after `delta' milliseconds at the rate of the snapshot.
CompoundedBorrowIndex(p, borrowed, supplied, borrow_index, supply_index, delta) ==
  LET util == Utilization(RayMul(borrowed, borrow_index), RayMul(supplied, supply_index))
  IN  UpdateBorrowIndex(borrow_index, CompoundInterest(BorrowRate(util, p), delta))

\* What the supply index cannot absorb of the rewards goes to the protocol.
AccrualStep(borrowed, supplied, borrow_index, supply_index, interest, fee, new_bi, new_si) ==
  LET debt    == RayMul(borrowed, borrow_index)
      claims  == RayMul(supplied, supply_index)
      rewards == interest - fee
      moved   == Distributed(supplied, supply_index, new_si)
      reward  == fee + (rewards - moved)
  IN  [ok |-> /\ Fits(debt) /\ Fits(claims) /\ Fits(Utilization(debt, claims))
              /\ Fits(RayMul(borrowed, new_bi))
              /\ Fits(claims + rewards)
              /\ 0 <= interest /\ fee <= interest
              /\ 0 <= moved /\ moved <= rewards,
       borrow_index   |-> new_bi,
       supply_index   |-> new_si,
       revenue_shares |-> IF reward = 0 THEN 0
                          ELSE ProtocolFeeShares(reward, new_si, supplied)]

\* calculate_supplier_rewards, then the step that hands the rewards out.
AccrueInterest(p, borrowed, supplied, borrow_index, supply_index, new_bi) ==
  LET interest == AccruedInterest(borrowed, new_bi, borrow_index)
      fee      == ProtocolFee(p, interest)
  IN  AccrualStep(borrowed, supplied, borrow_index, supply_index, interest, fee, new_bi,
                  UpdateSupplyIndex(supplied, supply_index, interest - fee))

AccrueStep(p, borrowed, supplied, borrow_index, supply_index, delta) ==
  AccrueInterest(p, borrowed, supplied, borrow_index, supply_index,
                 CompoundedBorrowIndex(p, borrowed, supplied, borrow_index, supply_index, delta))

\* The interval is cut into chunks of at most MsPerYear: their number, and
\* the length of the k-th one.
ChunkCount(elapsed) == (elapsed + (MsPerYear - 1)) \div MsPerYear
Chunk(elapsed, k)   == Least(MsPerYear, elapsed - (k - 1) * MsPerYear)

\* simulate_update_indexes: the view.  It tracks only the running supply.
IndexesAfter(indexes, step) ==
  [supplied     |-> indexes.supplied + step.revenue_shares,
   borrow_index |-> step.borrow_index,
   supply_index |-> step.supply_index]

SimulateUpdateIndexes(p, m, now) ==
  LET elapsed == Greatest(now - m.last_timestamp, 0)
      after[k \in 0..ChunkCount(elapsed)] ==
        IF k = 0
          THEN [supplied |-> m.supplied, borrow_index |-> m.borrow_index,
                supply_index |-> m.supply_index]
          ELSE IndexesAfter(after[k-1],
                 AccrueStep(p, m.borrowed, after[k-1].supplied, after[k-1].borrow_index,
                            after[k-1].supply_index, Chunk(elapsed, k)))
  IN  after[ChunkCount(elapsed)]

-----------------------------------------------------------------------------
(* scaling.rs: shares and token amounts.                                    *)

\* Mutant: deposits are rounded up.
CalculateScaledSupplyUp(amount, unit, index) == RayDivCeil(FromAsset(amount, unit), index)

CalculateScaledSupply(amount, unit, index)      == RayDivFloor(FromAsset(amount, unit), index)
CalculateScaledSupplyCeil(amount, unit, index)  == RayDivCeil(FromAsset(amount, unit), index)
CalculateScaledBorrow(amount, unit, index)      == RayDivCeil(FromAsset(amount, unit), index)
CalculateScaledBorrowFloor(amount, unit, index) == RayDivFloor(FromAsset(amount, unit), index)

UnscaleSupply(scaled, index, unit)      == ToAsset(RayMul(scaled, index), unit)
UnscaleSupplyFloor(scaled, index, unit) == ToAssetFloor(RayMulFloor(scaled, index), unit)
UnscaleBorrowCeil(scaled, index, unit)  == ToAssetCeil(RayMulCeil(scaled, index), unit)

\* Shares burned and tokens paid for a withdrawal of `amount'.
ResolveWithdrawal(amount, scaled, index, unit) ==
  IF amount >= UnscaleSupply(scaled, index, unit)
    THEN [burned |-> scaled, gross |-> UnscaleSupplyFloor(scaled, index, unit)]
    ELSE [burned |-> CalculateScaledSupplyCeil(amount, unit, index), gross |-> amount]

\* Shares burned and the part of `amount' handed back.
ResolveRepay(amount, scaled, index, unit) ==
  LET debt == UnscaleBorrowCeil(scaled, index, unit)
  IN  IF amount >= debt
        THEN [burned |-> scaled, overpayment |-> amount - debt]
        ELSE [burned |-> CalculateScaledBorrowFloor(amount, unit, index), overpayment |-> 0]

\* Same-market offset of a supply position against a debt position.
ResolveNetSettle(amount, supply, debt, supply_index, borrow_index, unit) ==
  LET supply_floor == UnscaleSupplyFloor(supply, supply_index, unit)
      debt_ceil    == UnscaleBorrowCeil(debt, borrow_index, unit)
      settle       == Least(Least(amount, supply_floor), debt_ceil)
      part_supply  == CalculateScaledSupplyCeil(settle, unit, supply_index)
      part_debt    == CalculateScaledBorrowFloor(settle, unit, borrow_index)
  IN  IF settle = 0
        THEN [supply |-> 0, debt |-> 0, settled |-> 0]
        ELSE [supply  |-> IF settle = supply_floor THEN supply ELSE Least(part_supply, supply),
              debt    |-> IF settle = debt_ceil THEN debt ELSE Least(part_debt, debt),
              settled |-> settle]
=============================================================================
