--------------------------- MODULE PoolLegsProofs ---------------------------
(***************************************************************************)
(* What the rounding operators of FixedPoint and the accrual step of Rates *)
(* guarantee, and what accrual and every leg of the pool do to a market,   *)
(* for all values of the constants: they keep it well formed, and they     *)
(* move shares, debt and cash by exactly what they report to the           *)
(* controller, and take no value out of it but by rounding.  At the end,   *)
(* what a sum over accounts or markets becomes when some of its terms      *)
(* change, and what a sync of any number of chunks does.                   *)
(***************************************************************************)
EXTENDS PoolLaws, FiniteSets, Functions, FiniteSetTheorems, WellFoundedInduction, TLAPS

-----------------------------------------------------------------------------
(* Integer division.                                                        *)

\* What integer division by a positive number guarantees.
LEMMA DivBounds ==
  ASSUME NEW n \in Nat, NEW d \in Nat \ {0}
  PROVE  /\ n \div d \in Nat
         /\ d * (n \div d) <= n
         /\ n < d * (n \div d) + d
  OBVIOUS

\* Multiplication by a natural is monotone.
LEMMA MulMono ==
  ASSUME NEW a \in Nat, NEW b \in Nat, NEW c \in Nat, a <= b
  PROVE  a * c <= b * c /\ c * a <= c * b /\ a * c \in Nat
  OBVIOUS

\* A lower bound on the dividend bounds the quotient.
LEMMA DivAtLeast ==
  ASSUME NEW n \in Nat, NEW d \in Nat \ {0}, NEW q \in Nat, q * d <= n
  PROVE  q <= n \div d
  OBVIOUS

\* An upper bound on the dividend bounds the quotient.
LEMMA DivAtMost ==
  ASSUME NEW n \in Nat, NEW d \in Nat \ {0}, NEW q \in Nat, n < (q + 1) * d
  PROVE  n \div d <= q
  OBVIOUS
-----------------------------------------------------------------------------
(* The rounding operators.                                                  *)

\* mul_div_half_up is within half a unit of the exact quotient.
LEMMA HalfUp ==
  ASSUME NEW x \in Nat, NEW y \in Nat, NEW d \in Nat \ {0}
  PROVE  /\ MulDivHalfUp(x, y, d) \in Nat
         /\ 2 * d * MulDivHalfUp(x, y, d) <= 2 * x * y + d
         /\ 2 * x * y < 2 * d * MulDivHalfUp(x, y, d) + d + 1
<1> DEFINE h == d \div 2
           n == x * y + h
<1>1. h \in Nat /\ 2 * h <= d /\ d < 2 * h + 2 /\ n \in Nat
  OBVIOUS
<1>2. n \div d \in Nat /\ d * (n \div d) <= n /\ n < d * (n \div d) + d
  BY <1>1, DivBounds
<1> QED
  BY <1>1, <1>2 DEF MulDivHalfUp

\* mul_div_floor rounds down.
LEMMA Floor ==
  ASSUME NEW x \in Nat, NEW y \in Nat, NEW d \in Nat \ {0}
  PROVE  /\ MulDivFloor(x, y, d) \in Nat
         /\ d * MulDivFloor(x, y, d) <= x * y
         /\ x * y < d * MulDivFloor(x, y, d) + d
<1>1. x * y \in Nat
  BY MulMono
<1> QED
  BY <1>1, DivBounds DEF MulDivFloor

\* mul_div_ceil rounds up.
LEMMA Ceil ==
  ASSUME NEW x \in Nat, NEW y \in Nat, NEW d \in Nat \ {0}
  PROVE  /\ MulDivCeil(x, y, d) \in Nat
         /\ x * y <= d * MulDivCeil(x, y, d)
         /\ d * MulDivCeil(x, y, d) < x * y + d
<1> DEFINE n == x * y + (d - 1)
<1>1. n \in Nat /\ x * y \in Nat
  BY MulMono
<1>2. n \div d \in Nat /\ d * (n \div d) <= n /\ n < d * (n \div d) + d
  BY <1>1, DivBounds
<1> QED
  BY <1>1, <1>2 DEF MulDivCeil

\* mul_div_half_up is monotone in the factor.
LEMMA HalfUpMono ==
  ASSUME NEW x \in Nat, NEW y \in Nat, NEW z \in Nat, NEW d \in Nat \ {0}, y <= z
  PROVE  MulDivHalfUp(x, y, d) <= MulDivHalfUp(x, z, d)
<1>1. x * y <= x * z /\ x * y \in Nat /\ x * z \in Nat
  BY MulMono
<1> QED
  BY <1>1, DivBounds DEF MulDivHalfUp

\* div_by_int_half_up stays in the naturals.
LEMMA ByInt ==
  ASSUME NEW a \in Nat, NEW n \in Nat \ {0}
  PROVE  DivByIntHalfUp(a, n) \in Nat
  BY DivBounds DEF DivByIntHalfUp

\* The Ray products are naturals.
LEMMA RayType ==
  ASSUME NEW a \in Nat, NEW b \in Nat
  PROVE  RayMul(a, b) \in Nat /\ RayMulFloor(a, b) \in Nat /\ RayMulCeil(a, b) \in Nat
  BY RayAssumption, HalfUp, Floor, Ceil DEF RayMul, RayMulFloor, RayMulCeil

\* The Ray quotients are naturals.
LEMMA RayDivType ==
  ASSUME NEW a \in Nat, NEW b \in Nat \ {0}
  PROVE  RayDiv(a, b) \in Nat /\ RayDivFloor(a, b) \in Nat /\ RayDivCeil(a, b) \in Nat
  BY RayAssumption, HalfUp, Floor, Ceil DEF RayDiv, RayDivFloor, RayDivCeil

\* Conversions between asset units and Ray are naturals.
LEMMA AssetType ==
  ASSUME NEW a \in Nat, NEW unit \in Nat \ {0}
  PROVE  /\ FromAsset(a, unit) \in Nat /\ ToAsset(a, unit) \in Nat
         /\ ToAssetFloor(a, unit) \in Nat /\ ToAssetCeil(a, unit) \in Nat
<1>1. FromAsset(a, unit) \in Nat
  BY MulMono DEF FromAsset
<1>2. ToAsset(a, unit) \in Nat
  BY ByInt DEF ToAsset
<1>3. a \div unit \in Nat
  BY DivBounds
<1> QED
  BY <1>1, <1>2, <1>3 DEF ToAssetFloor, ToAssetCeil
-----------------------------------------------------------------------------
(* The interest curve and its compounding.                                  *)

\* Utilization is a natural, also of an empty market.
LEMMA UtilizationType ==
  ASSUME NEW b \in Nat, NEW s \in Nat
  PROVE  Utilization(b, s) \in Nat
  BY RayDivType DEF Utilization

\* The borrow rate of a verified model is a natural.
LEMMA RateType ==
  ASSUME NEW p \in MarketParams, Verify(p), NEW util \in Nat
  PROVE  /\ AnnualBorrowRate(util, p) \in 0..p.max_borrow_rate
         /\ BorrowRate(util, p) \in Nat
<1> DEFINE u == Least(util, Ray)
           Ramp(from, to, slope) == RayDiv(RayMul(u - from, slope), to - from)
<1>1. u \in Nat /\ u <= Ray
  BY RayAssumption DEF Least
<1>2. /\ p.max_borrow_rate \in Nat /\ p.base_borrow_rate \in Nat
      /\ p.slope1 \in Nat /\ p.slope2 \in Nat /\ p.slope3 \in Nat
      /\ p.mid_utilization \in Nat /\ p.optimal_utilization \in Nat
  BY DEF MarketParams
<1>3. /\ 0 < p.mid_utilization /\ p.mid_utilization < p.optimal_utilization
      /\ p.optimal_utilization < Ray
  BY DEF Verify
<1>4. ASSUME NEW from \in Nat, NEW to \in Nat, NEW slope \in Nat, from <= u, from < to
      PROVE  Ramp(from, to, slope) \in Nat
  <2>1. u - from \in Nat /\ to - from \in Nat \ {0}
    BY <1>1, <1>4
  <2>2. RayMul(u - from, slope) \in Nat
    BY <2>1, RayType, ZenonT(20)
  <2> QED
    BY <2>1, <2>2, RayDivType
<1> HIDE DEF u
<1>5. u < p.mid_utilization => Ramp(0, p.mid_utilization, p.slope1) \in Nat
  BY <1>1, <1>2, <1>3, <1>4
<1>6. ~(u < p.mid_utilization) =>
        Ramp(p.mid_utilization, p.optimal_utilization, p.slope2) \in Nat
  BY <1>1, <1>2, <1>3, <1>4
<1>7. ~(u < p.optimal_utilization) => Ramp(p.optimal_utilization, Ray, p.slope3) \in Nat
  BY <1>1, <1>2, <1>3, <1>4, RayAssumption
<1>8. AnnualBorrowRate(util, p) \in 0..p.max_borrow_rate
  <2> DEFINE rate == IF u < p.mid_utilization
                THEN p.base_borrow_rate + Ramp(0, p.mid_utilization, p.slope1)
              ELSE IF u < p.optimal_utilization
                THEN p.base_borrow_rate + p.slope1
                     + Ramp(p.mid_utilization, p.optimal_utilization, p.slope2)
              ELSE p.base_borrow_rate + p.slope1 + p.slope2
                   + Ramp(p.optimal_utilization, Ray, p.slope3)
  <2>1. rate \in Nat
    <3> HIDE DEF Ramp
    <3> QED
      BY <1>1, <1>2, <1>5, <1>6, <1>7
  <2>2. AnnualBorrowRate(util, p) = Least(rate, p.max_borrow_rate)
    BY DEF AnnualBorrowRate, u
  <2> HIDE DEF rate
  <2> QED
    BY <1>2, <2>1, <2>2 DEF Least
<1>9. BorrowRate(util, p) \in Nat
  BY <1>2, <1>8, YearAssumption, ByInt DEF BorrowRate
<1> QED
  BY <1>8, <1>9

\* The growth factor of a step is at least one.
LEMMA CompoundAtLeastOne ==
  ASSUME NEW rate \in Nat, NEW delta \in Nat
  PROVE  CompoundInterest(rate, delta) \in Nat /\ CompoundInterest(rate, delta) >= Ray
<1> DEFINE x  == rate * delta
           x2 == RayMul(x, x)
           x3 == RayMul(x2, x)
           x4 == RayMul(x3, x)
           x5 == RayMul(x4, x)
           x6 == RayMul(x5, x)
           x7 == RayMul(x6, x)
           x8 == RayMul(x7, x)
           sum == Ray + x + DivByIntHalfUp(x2, 2) + DivByIntHalfUp(x3, 6)
                  + DivByIntHalfUp(x4, 24) + DivByIntHalfUp(x5, 120)
                  + DivByIntHalfUp(x6, 720) + DivByIntHalfUp(x7, 5040)
                  + DivByIntHalfUp(x8, 40320)
<1>1. x \in Nat
  BY MulMono
<1>2. CompoundInterest(rate, delta) = IF delta = 0 THEN Ray ELSE sum
  BY DEF CompoundInterest
<1> HIDE DEF x
<1>3. x2 \in Nat
  BY <1>1, RayType
<1> HIDE DEF x2
<1>4. x3 \in Nat
  BY <1>1, <1>3, RayType
<1> HIDE DEF x3
<1>5. x4 \in Nat
  BY <1>1, <1>4, RayType
<1> HIDE DEF x4
<1>6. x5 \in Nat
  BY <1>1, <1>5, RayType
<1> HIDE DEF x5
<1>7. x6 \in Nat
  BY <1>1, <1>6, RayType
<1> HIDE DEF x6
<1>8. x7 \in Nat
  BY <1>1, <1>7, RayType
<1> HIDE DEF x7
<1>9. x8 \in Nat
  BY <1>1, <1>8, RayType
<1> HIDE DEF x8
<1>10. /\ DivByIntHalfUp(x2, 2) \in Nat /\ DivByIntHalfUp(x3, 6) \in Nat
       /\ DivByIntHalfUp(x4, 24) \in Nat /\ DivByIntHalfUp(x5, 120) \in Nat
       /\ DivByIntHalfUp(x6, 720) \in Nat /\ DivByIntHalfUp(x7, 5040) \in Nat
       /\ DivByIntHalfUp(x8, 40320) \in Nat
  <2>1. \A a \in Nat, n \in Nat \ {0} : DivByIntHalfUp(a, n) \in Nat
    BY ByInt
  <2>2. DivByIntHalfUp(x2, 2) \in Nat
    BY <1>3, <2>1
  <2>3. DivByIntHalfUp(x3, 6) \in Nat
    BY <1>4, <2>1
  <2>4. DivByIntHalfUp(x4, 24) \in Nat
    BY <1>5, <2>1
  <2>5. DivByIntHalfUp(x5, 120) \in Nat
    BY <1>6, <2>1
  <2>6. DivByIntHalfUp(x6, 720) \in Nat
    BY <1>7, <2>1
  <2>7. DivByIntHalfUp(x7, 5040) \in Nat
    BY <1>8, <2>1
  <2>8. DivByIntHalfUp(x8, 40320) \in Nat
    BY <1>9, <2>1
  <2> QED
    BY <2>2, <2>3, <2>4, <2>5, <2>6, <2>7, <2>8
<1>11. sum \in Nat /\ sum >= Ray
  BY <1>1, <1>10, RayAssumption
<1> QED
  BY <1>2, <1>11, RayAssumption
-----------------------------------------------------------------------------
(* The index updates.                                                       *)

\* Compounding never lowers the borrow index (update_borrow_index).
LEMMA BorrowIndexGrows ==
  ASSUME NEW old \in Ray..MaxIndex, NEW factor \in Nat, factor >= Ray
  PROVE  UpdateBorrowIndex(old, factor) \in old..MaxIndex
<1>1. old \in Nat /\ Ray \in Nat \ {0} /\ MaxIndex \in Nat
  BY RayAssumption, IndexAssumption
<1>2. old * Ray <= old * factor /\ old * factor \in Nat /\ old * Ray \in Nat
  BY <1>1, MulMono
<1>3. RayMul(old, factor) \in Nat /\ old <= RayMul(old, factor)
  <2> DEFINE n == old * factor + Ray \div 2
  <2>1. n \in Nat /\ old * Ray <= n
    BY <1>1, <1>2
  <2>2. old <= n \div Ray /\ n \div Ray \in Nat
    BY <1>1, <2>1, DivAtLeast, DivBounds
  <2> QED
    BY <2>2 DEF RayMul, MulDivHalfUp
<1> QED
  BY <1>1, <1>3 DEF UpdateBorrowIndex, Least

\* Distributing rewards never lowers the supply index (update_supply_index).
LEMMA SupplyIndexGrows ==
  ASSUME NEW supplied \in Nat, NEW old \in SupplyIndexFloor..MaxIndex, NEW rewards \in Nat
  PROVE  UpdateSupplyIndex(supplied, old, rewards) \in old..MaxIndex
<1> DEFINE value == RayMul(supplied, old)
           grown == Least(RayDivFloor(value + rewards, supplied), MaxI128)
<1>1. old \in Nat /\ MaxIndex \in Nat /\ MaxI128 \in Nat
  BY RayAssumption, IndexAssumption, I128Assumption
<1>2. value \in Nat
  BY <1>1, RayType, ZenonT(20)
<1> HIDE DEF value
<1>3. supplied # 0 => grown \in Nat
  <2>0. value + rewards \in Nat
    BY <1>2
  <2>1. supplied # 0 => RayDivFloor(value + rewards, supplied) \in Nat
    BY <2>0, RayDivType
  <2> QED
    BY <1>1, <2>1 DEF Least
<1> HIDE DEF grown
<1>4. UpdateSupplyIndex(supplied, old, rewards) =
        IF supplied = 0 \/ rewards = 0 \/ value = 0 THEN old
        ELSE Greatest(Least(grown, MaxIndex), Least(old, MaxIndex))
  BY DEF UpdateSupplyIndex, value, grown
<1> QED
  BY <1>1, <1>3, <1>4 DEF Greatest, Least

\* The value an index move hands to the suppliers never exceeds the rewards it
\* was computed from: flooring the index outweighs rounding the value half up.
LEMMA DistributedWithinRewards ==
  ASSUME NEW supplied \in Nat, NEW old \in SupplyIndexFloor..MaxIndex, NEW rewards \in Nat
  PROVE  Distributed(supplied, old, UpdateSupplyIndex(supplied, old, rewards)) \in 0..rewards
<1> DEFINE value == RayMul(supplied, old)
           raw   == RayDivFloor(value + rewards, supplied)
           new   == UpdateSupplyIndex(supplied, old, rewards)
<1>1. old \in Nat /\ Ray \in Nat \ {0} /\ MaxIndex \in Nat /\ MaxI128 \in Nat
  BY RayAssumption, IndexAssumption, I128Assumption
<1>2. value \in Nat
  BY <1>1, RayType, ZenonT(20)
<1>3. new \in Nat /\ old <= new
  BY <1>1, SupplyIndexGrows
<1>4. RayMul(supplied, new) \in Nat /\ value <= RayMul(supplied, new)
  BY <1>1, <1>3, HalfUpMono, RayType DEF RayMul
<1>5. CASE new = old
  BY <1>2, <1>5 DEF Distributed
<1>6. CASE new # old
  <2>1. supplied # 0
    BY <1>6 DEF UpdateSupplyIndex
  <2>2. raw \in Nat /\ supplied * raw <= (value + rewards) * Ray
    <3>1. value + rewards \in Nat
      BY <1>2
    <3> HIDE DEF value
    <3> QED
      BY <1>1, <2>1, <3>1, Floor DEF RayDivFloor
  <2>3. new <= raw
    BY <1>1, <1>6, <2>2 DEF UpdateSupplyIndex, Greatest, Least
  <2>4. supplied * new <= (value + rewards) * Ray
    <3>1. supplied * new <= supplied * raw
      BY <1>3, <2>2, <2>3, MulMono
    <3> HIDE DEF value, raw, new
    <3> QED
      BY <1>1, <1>2, <1>3, <2>2, <3>1
  <2>5. RayMul(supplied, new) <= value + rewards
    <3> DEFINE q == value + rewards
               n == supplied * new + Ray \div 2
    <3>1. q \in Nat /\ n \in Nat
      <4>1. supplied * new \in Nat
        BY <1>3, MulMono
      <4> QED
        BY <1>1, <1>2, <4>1, DivBounds
    <3>2. n < (q + 1) * Ray
      <4> HIDE DEF value, new
      <4> QED
        BY <1>1, <1>2, <1>3, <2>4
    <3>3. n \div Ray <= q
      <4> HIDE DEF n, q
      <4> QED
        BY <1>1, <3>1, <3>2, DivAtMost
    <3> QED
      BY <3>3 DEF RayMul, MulDivHalfUp
  <2> HIDE DEF new
  <2> QED
    BY <1>2, <1>4, <2>5 DEF Distributed, new
<1> QED
  BY <1>5, <1>6
\* The fee shares fit in the supply that is left below the i128 limit.
LEMMA FeeShares ==
  ASSUME NEW fee \in Nat, NEW si \in SupplyIndexFloor..MaxIndex, NEW supplied \in 0..MaxI128
  PROVE  ProtocolFeeShares(fee, si, supplied) \in 0..(MaxI128 - supplied)
<1>1. si \in Nat \ {0} /\ MaxI128 \in Nat
  BY IndexAssumption, RayAssumption, I128Assumption
<1>2. RayDivFloor(fee, si) \in Nat
  BY <1>1, RayDivType
<1> QED
  BY <1>1, <1>2 DEF ProtocolFeeShares, Least

-----------------------------------------------------------------------------
(* One accrual step: the indexes only grow and stay below their cap, the    *)
(* minted revenue fits, and none of the checked subtractions of the code    *)
(* can go negative, so that the step traps on an i128 overflow only.        *)

\* One accrual step keeps both indexes in range and moves neither down.
LEMMA AccrueStepSound ==
  ASSUME NEW p \in MarketParams, Verify(p),
         NEW borrowed \in 0..MaxI128, NEW supplied \in 0..MaxI128,
         NEW bi \in Ray..MaxIndex, NEW si \in SupplyIndexFloor..MaxIndex,
         NEW delta \in Nat
  PROVE  LET step == AccrueStep(p, borrowed, supplied, bi, si, delta)
         IN  /\ step.ok \in BOOLEAN
             /\ step.borrow_index \in bi..MaxIndex
             /\ step.supply_index \in si..MaxIndex
             /\ step.revenue_shares \in 0..(MaxI128 - supplied)
             /\ LET interest == AccruedInterest(borrowed, step.borrow_index, bi)
                    fee      == ProtocolFee(p, interest)
                    moved    == Distributed(supplied, si, step.supply_index)
                IN  /\ 0 <= interest /\ fee \in 0..interest
                    /\ moved \in 0..(interest - fee)
<1> DEFINE debt     == RayMul(borrowed, bi)
           claims   == RayMul(supplied, si)
           util     == Utilization(debt, claims)
           factor   == CompoundInterest(BorrowRate(util, p), delta)
           new_bi   == UpdateBorrowIndex(bi, factor)
           interest == AccruedInterest(borrowed, new_bi, bi)
           fee      == ProtocolFee(p, interest)
           rewards  == interest - fee
           new_si   == UpdateSupplyIndex(supplied, si, rewards)
           moved    == Distributed(supplied, si, new_si)
           reward   == fee + (rewards - moved)
<1>1. /\ Ray \in Nat \ {0} /\ MaxI128 \in Nat /\ MaxIndex \in Nat
      /\ bi \in Nat /\ si \in Nat /\ borrowed \in Nat /\ supplied \in Nat
  BY RayAssumption, I128Assumption, IndexAssumption
<1>2. debt \in Nat /\ claims \in Nat
  BY <1>1, RayType, ZenonT(20)
<1>3. util \in Nat
  BY <1>2, UtilizationType
<1>4. factor \in Nat /\ factor >= Ray
  BY <1>3, RateType, CompoundAtLeastOne, ZenonT(20)
<1>5. new_bi \in bi..MaxIndex
  BY <1>4, BorrowIndexGrows
<1>6. interest \in Nat
  <2> HIDE DEF new_bi
  <2>1. new_bi \in Nat /\ bi <= new_bi
    BY <1>1, <1>5
  <2>2. RayMul(borrowed, bi) \in Nat /\ RayMul(borrowed, new_bi) \in Nat
    BY <1>1, <2>1, RayType, ZenonT(20)
  <2>3. RayMul(borrowed, bi) <= RayMul(borrowed, new_bi)
    BY <1>1, <2>1, HalfUpMono DEF RayMul
  <2> QED
    BY <2>2, <2>3 DEF AccruedInterest
<1>7. fee \in 0..interest
  <2> HIDE DEF interest
  <2>1. p.reserve_factor \in Nat /\ p.reserve_factor < Bps /\ Bps \in Nat \ {0}
    BY BpsAssumption DEF MarketParams, Verify
  <2> DEFINE n == interest * p.reserve_factor + Bps \div 2
  <2>2. interest * p.reserve_factor <= interest * Bps /\ interest * p.reserve_factor \in Nat
    BY <1>6, <2>1, MulMono
  <2>3. n \in Nat /\ n < (interest + 1) * Bps
    BY <1>6, <2>1, <2>2
  <2>4. n \div Bps \in Nat /\ n \div Bps <= interest
    <3> HIDE DEF n
    <3> QED
      BY <1>6, <2>1, <2>3, DivAtMost, DivBounds
  <2> QED
    BY <1>6, <2>4 DEF ProtocolFee, BpsOf, MulDivHalfUp
<1>8. rewards \in Nat /\ fee \in Nat
  <2> HIDE DEF interest, fee
  <2> QED
    BY <1>6, <1>7
<1>9. new_si \in si..MaxIndex /\ moved \in 0..rewards
  BY <1>1, <1>8, SupplyIndexGrows, DistributedWithinRewards
<1>10. reward \in Nat
  <2> HIDE DEF fee, rewards, moved
  <2> QED
    BY <1>8, <1>9
<1>11. ProtocolFeeShares(reward, new_si, supplied) \in 0..(MaxI128 - supplied)
  <2> HIDE DEF reward, new_si
  <2>1. new_si \in SupplyIndexFloor..MaxIndex
    BY <1>1, <1>9, IndexAssumption
  <2> QED
    BY <1>10, <2>1, FeeShares
<1> DEFINE step == AccrueStep(p, borrowed, supplied, bi, si, delta)
<1>12. /\ step.borrow_index = new_bi /\ step.supply_index = new_si
       /\ step.revenue_shares = IF reward = 0 THEN 0
                                ELSE ProtocolFeeShares(reward, new_si, supplied)
       /\ step.ok \in BOOLEAN
  BY ZenonT(20) DEF AccrueStep, CompoundedBorrowIndex, AccrueInterest, AccrualStep
<1> HIDE DEF step, reward, moved, rewards, fee, interest, new_si, new_bi
<1>13. step.revenue_shares \in 0..(MaxI128 - supplied)
  BY <1>1, <1>11, <1>12
<1>14. AccruedInterest(borrowed, step.borrow_index, bi) = interest
  BY <1>12 DEF interest
<1>15. ProtocolFee(p, interest) = fee /\ Distributed(supplied, si, step.supply_index) = moved
  BY <1>12 DEF fee, moved
<1>16. moved \in 0..(interest - fee)
  BY <1>9 DEF rewards
<1> QED
  BY <1>5, <1>6, <1>7, <1>9, <1>12, <1>13, <1>14, <1>15, <1>16 DEF step

-----------------------------------------------------------------------------
(* The market record.                                                       *)

\* Each field of a market is an integer in its range.
LEMMA Fields ==
  ASSUME NEW m \in MarketState
  PROVE  /\ m.supplied \in 0..MaxI128 /\ m.borrowed \in 0..MaxI128 /\ m.revenue \in 0..MaxI128
         /\ m.cash \in 0..MaxI128 /\ m.last_timestamp \in Nat
         /\ m.borrow_index \in Ray..MaxIndex /\ m.supply_index \in SupplyIndexFloor..MaxIndex
  BY DEF MarketState

\* The ranges are not empty and hold naturals.
LEMMA Ranges ==
  /\ MaxI128 \in Nat /\ Ray \in Nat \ {0} /\ MaxIndex \in Nat /\ SupplyIndexFloor \in Nat \ {0}
  /\ SupplyIndexFloor <= Ray /\ Ray <= MaxIndex /\ MaxIndex <= MaxI128
  BY RayAssumption, IndexAssumption, I128Assumption

-----------------------------------------------------------------------------
(* Accrual.                                                                 *)

\* The market record, field by field.
Mk(s, b, r, bi, si, t, c) ==
  [supplied |-> s, borrowed |-> b, revenue |-> r, borrow_index |-> bi,
   supply_index |-> si, last_timestamp |-> t, cash |-> c]

\* The record of values in range is a market.
LEMMA MkType ==
  ASSUME NEW s \in 0..MaxI128, NEW b \in 0..MaxI128, NEW r \in 0..MaxI128,
         NEW bi \in Ray..MaxIndex, NEW si \in SupplyIndexFloor..MaxIndex,
         NEW t \in Nat, NEW c \in 0..MaxI128
  PROVE  Mk(s, b, r, bi, si, t, c) \in MarketState
  BY DEF Mk, MarketState

\* accrue_revenue mints the same shares into supply and revenue.
LEMMA AccrueRevenueIs ==
  ASSUME NEW m \in MarketState, NEW s
  PROVE  AccrueRevenue(m, s) = Mk(m.supplied + s, m.borrowed, m.revenue + s, m.borrow_index,
                                  m.supply_index, m.last_timestamp, m.cash)
<1>1. PICK n : n = AccrueRevenue(m, s)
  OBVIOUS
<1>2. n = [m EXCEPT !.revenue = m.revenue + s, !.supplied = m.supplied + s]
  BY <1>1 DEF AccrueRevenue
<1>3. m = Mk(m.supplied, m.borrowed, m.revenue, m.borrow_index, m.supply_index,
             m.last_timestamp, m.cash)
  BY DEF MarketState, Mk
<1>4. n = Mk(m.supplied + s, m.borrowed, m.revenue + s, m.borrow_index,
             m.supply_index, m.last_timestamp, m.cash)
  BY <1>2, <1>3, ZenonT(20) DEF Mk
<1> QED
  BY <1>1, <1>4

\* One chunk only adds interest, and leaves the clock to the caller.
LEMMA AccrueChunkSound ==
  ASSUME NEW p \in MarketParams, Verify(p), NEW m, Sound(m), NEW delta \in Nat
  PROVE  LET c == AccrueChunk(p, m, delta)
         IN  c.ok \in BOOLEAN /\ Accrued(m, c.m) /\ c.m.last_timestamp = m.last_timestamp
<1> DEFINE step == AccrueStep(p, m.borrowed, m.supplied, m.borrow_index, m.supply_index, delta)
           c == AccrueChunk(p, m, delta)
<1>1. m \in MarketState /\ m.revenue <= m.supplied
  BY DEF Sound
<1>a. /\ m.supplied \in 0..MaxI128 /\ m.borrowed \in 0..MaxI128 /\ m.revenue \in 0..MaxI128
      /\ m.cash \in 0..MaxI128 /\ m.last_timestamp \in Nat
      /\ m.borrow_index \in Ray..MaxIndex /\ m.supply_index \in SupplyIndexFloor..MaxIndex
  BY <1>1, Fields
<1>2. /\ step.ok \in BOOLEAN
      /\ step.borrow_index \in m.borrow_index..MaxIndex
      /\ step.supply_index \in m.supply_index..MaxIndex
      /\ step.revenue_shares \in 0..(MaxI128 - m.supplied)
  BY <1>a, AccrueStepSound, ZenonT(20)
<1>3. PICK moved : moved = [m EXCEPT !.borrow_index = step.borrow_index,
                                     !.supply_index = step.supply_index]
  OBVIOUS
<1>4. c.ok = step.ok /\ c.m = AccrueRevenue(moved, step.revenue_shares)
  BY <1>3 DEF AccrueChunk, ApplyStep
<1> HIDE DEF step, c
<1>5. moved = Mk(m.supplied, m.borrowed, m.revenue, step.borrow_index, step.supply_index,
                 m.last_timestamp, m.cash)
  BY <1>1, <1>3, ZenonT(20) DEF MarketState, Mk
<1> DEFINE shares == step.revenue_shares
           bi == step.borrow_index
           si == step.supply_index
<1>b. /\ m.supplied + shares \in 0..MaxI128 /\ m.revenue + shares \in 0..MaxI128
      /\ bi \in Ray..MaxIndex /\ si \in SupplyIndexFloor..MaxIndex
      /\ shares \in Nat /\ m.borrow_index <= bi /\ m.supply_index <= si
  BY <1>a, <1>1, <1>2, Ranges
<1> HIDE DEF shares, bi, si
<1>6. moved \in MarketState
  BY <1>5, <1>a, <1>b, MkType, ZenonT(20) DEF bi, si
<1>7. c.m = Mk(m.supplied + shares, m.borrowed, m.revenue + shares, bi, si, m.last_timestamp, m.cash)
  BY <1>4, <1>5, <1>6, AccrueRevenueIs DEF Mk, shares, bi, si
<1>8. c.m \in MarketState
  <2>1. PICK s \in 0..MaxI128, r \in 0..MaxI128 : s = m.supplied + shares /\ r = m.revenue + shares
    BY <1>b
  <2>2. Mk(s, m.borrowed, r, bi, si, m.last_timestamp, m.cash) \in MarketState
    BY <1>a, <1>b, MkType, ZenonT(20)
  <2> QED
    BY <1>7, <2>1, <2>2
<1>9. Accrued(m, c.m) /\ c.m.last_timestamp = m.last_timestamp
  BY <1>1, <1>7, <1>8, <1>a, <1>b, Ranges DEF Accrued, Sound, Mk
<1> QED
  BY <1>2, <1>4, <1>9 DEF c

-----------------------------------------------------------------------------
\* The chunks of an interval have positive lengths.
LEMMA ChunkType ==
  ASSUME NEW elapsed \in Nat, NEW k \in 1..ChunkCount(elapsed)
  PROVE  ChunkCount(elapsed) \in Nat /\ Chunk(elapsed, k) \in Nat
<1>1. MsPerYear \in Nat \ {0} /\ elapsed + (MsPerYear - 1) \in Nat
  BY YearAssumption
<1>2. ChunkCount(elapsed) \in Nat /\ MsPerYear * ChunkCount(elapsed) <= elapsed + (MsPerYear - 1)
  BY <1>1, DivBounds DEF ChunkCount
<1>3. k \in Nat /\ k - 1 \in Nat /\ k <= ChunkCount(elapsed)
  BY <1>2
<1>4. k * MsPerYear <= ChunkCount(elapsed) * MsPerYear
  BY <1>1, <1>2, <1>3, MulMono
<1>5. (k - 1) * MsPerYear = k * MsPerYear - MsPerYear
  BY <1>1, <1>3
<1>6. MsPerYear * ChunkCount(elapsed) = ChunkCount(elapsed) * MsPerYear
  BY <1>1, <1>2
<1>7. (k - 1) * MsPerYear \in Nat /\ (k - 1) * MsPerYear <= elapsed
  BY <1>1, <1>2, <1>3, <1>4, <1>5, <1>6
<1> QED
  BY <1>1, <1>2, <1>7 DEF Chunk, Least

\* An elapsed time has a number of chunks, none when it is zero.
LEMMA ChunkCountType ==
  ASSUME NEW elapsed \in Nat
  PROVE  ChunkCount(elapsed) \in Nat
<1>1. MsPerYear \in Nat \ {0} /\ elapsed + (MsPerYear - 1) \in Nat
  BY YearAssumption
<1> QED
  BY <1>1, DivBounds DEF ChunkCount

\* Accruing twice is accruing.
LEMMA AccruedTwice ==
  ASSUME NEW m, Sound(m), NEW n, Accrued(m, n), NEW o, Accrued(n, o)
  PROVE  Accrued(m, o)
<1>1. m \in MarketState /\ n \in MarketState /\ o \in MarketState
  BY DEF Sound, Accrued
<1>2. /\ m.supplied \in Nat /\ m.borrow_index \in Nat /\ m.supply_index \in Nat
      /\ n.supplied \in Nat /\ n.borrow_index \in Nat /\ n.supply_index \in Nat
      /\ o.supplied \in Nat /\ o.borrow_index \in Nat /\ o.supply_index \in Nat
  BY <1>1, Fields, Ranges
<1> QED
  BY <1>2 DEF Accrued

\* A market that accrues nothing counts as accrued.
LEMMA AccruedNot ==
  ASSUME NEW m, Sound(m)
  PROVE  Accrued(m, m)
<1>1. /\ m.supplied \in Nat /\ m.borrow_index \in Nat /\ m.supply_index \in Nat
  BY Fields, Ranges DEF Sound
<1> QED
  BY <1>1 DEF Accrued

-----------------------------------------------------------------------------
(* Conversions.                                                             *)

\* Amounts convert to naturals of shares.
LEMMA ScaledType ==
  ASSUME NEW amount \in Nat, NEW unit \in Nat \ {0}, NEW index \in Nat \ {0}
  PROVE  /\ CalculateScaledSupply(amount, unit, index) \in Nat
         /\ CalculateScaledSupplyCeil(amount, unit, index) \in Nat
         /\ CalculateScaledBorrow(amount, unit, index) \in Nat
         /\ CalculateScaledBorrowFloor(amount, unit, index) \in Nat
<1>1. FromAsset(amount, unit) \in Nat
  BY AssetType
<1> QED
  BY <1>1, RayDivType DEF CalculateScaledSupply, CalculateScaledSupplyCeil,
                          CalculateScaledBorrow, CalculateScaledBorrowFloor

\* Shares convert to naturals of tokens.
LEMMA UnscaledType ==
  ASSUME NEW scaled \in Nat, NEW unit \in Nat \ {0}, NEW index \in Nat
  PROVE  /\ UnscaleSupply(scaled, index, unit) \in Nat
         /\ UnscaleSupplyFloor(scaled, index, unit) \in Nat
         /\ UnscaleBorrowCeil(scaled, index, unit) \in Nat
<1>1. RayMul(scaled, index) \in Nat /\ RayMulFloor(scaled, index) \in Nat /\ RayMulCeil(scaled, index) \in Nat
  BY RayType
<1> QED
  BY <1>1, AssetType DEF UnscaleSupply, UnscaleSupplyFloor, UnscaleBorrowCeil

\* A withdrawal burns and pays naturals, a repayment returns at most what came.
LEMMA WithdrawalType ==
  ASSUME NEW amount \in Nat, NEW scaled \in Nat, NEW unit \in Nat \ {0}, NEW index \in Nat \ {0}
  PROVE  LET r == ResolveWithdrawal(amount, scaled, index, unit)
         IN  r.burned \in Nat /\ r.gross \in Nat
  BY ScaledType, UnscaledType DEF ResolveWithdrawal

\* resolve_repay burns at most the position and returns the overpayment.
LEMMA RepayType ==
  ASSUME NEW amount \in Nat, NEW scaled \in Nat, NEW unit \in Nat \ {0}, NEW index \in Nat \ {0}
  PROVE  LET r == ResolveRepay(amount, scaled, index, unit)
         IN  r.burned \in Nat /\ r.overpayment \in 0..amount
<1> DEFINE debt == UnscaleBorrowCeil(scaled, index, unit)
           part == CalculateScaledBorrowFloor(amount, unit, index)
<1>1. debt \in Nat /\ part \in Nat
  BY ScaledType, UnscaledType, ZenonT(20)
<1>2. ResolveRepay(amount, scaled, index, unit) =
        IF amount >= debt THEN [burned |-> scaled, overpayment |-> amount - debt]
        ELSE [burned |-> part, overpayment |-> 0]
  BY DEF ResolveRepay
<1> HIDE DEF debt, part
<1> QED
  BY <1>1, <1>2

\* A settlement never takes more shares than a position has.
LEMMA NetSettleType ==
  ASSUME NEW amount \in Nat, NEW supply \in Nat, NEW debt \in Nat, NEW unit \in Nat \ {0},
         NEW si \in Nat \ {0}, NEW bi \in Nat \ {0}
  PROVE  LET r == ResolveNetSettle(amount, supply, debt, si, bi, unit)
         IN  r.supply \in 0..supply /\ r.debt \in 0..debt
<1> DEFINE floor == UnscaleSupplyFloor(supply, si, unit)
           ceil  == UnscaleBorrowCeil(debt, bi, unit)
           settle == Least(Least(amount, floor), ceil)
           ps == CalculateScaledSupplyCeil(settle, unit, si)
           pd == CalculateScaledBorrowFloor(settle, unit, bi)
           r == ResolveNetSettle(amount, supply, debt, si, bi, unit)
<1>1. floor \in Nat /\ ceil \in Nat
  BY UnscaledType, ZenonT(20)
<1>2. settle \in Nat
  BY <1>1 DEF Least
<1>3. ps \in Nat /\ pd \in Nat
  BY <1>2, ScaledType, SMTT(30)
<1>4. /\ r.supply = IF settle = 0 THEN 0 ELSE IF settle = floor THEN supply ELSE Least(ps, supply)
      /\ r.debt = IF settle = 0 THEN 0 ELSE IF settle = ceil THEN debt ELSE Least(pd, debt)
  BY DEF ResolveNetSettle
<1> HIDE DEF floor, ceil, settle, ps, pd, r
<1>5. r.supply \in 0..supply /\ r.debt \in 0..debt
  BY <1>3, <1>4 DEF Least
<1> QED
  BY <1>5 DEF r

\* The flash-loan fee is a natural.
LEMMA FlashFeeType ==
  ASSUME NEW rate \in Nat, NEW amount \in Nat
  PROVE  FlashLoanFeeOn(rate, amount) \in Nat
  BY BpsAssumption, HalfUp DEF FlashLoanFeeOn, BpsOf

-----------------------------------------------------------------------------
(* Fees.                                                                    *)

\* n is m with shares added that belong to the protocol.
FeeBooked(m, n) ==
  /\ Sound(n)
  /\ n.borrowed = m.borrowed /\ n.cash = m.cash /\ n.last_timestamp = m.last_timestamp
  /\ n.borrow_index = m.borrow_index /\ n.supply_index = m.supply_index
  /\ n.supplied - n.revenue = m.supplied - m.revenue
  /\ n.supplied >= m.supplied

\* add_protocol_revenue keeps a market sound and its user shares.
LEMMA FeeBookedSound ==
  ASSUME NEW m, Sound(m), NEW fee \in Nat
  PROVE  FeeBooked(m, AddProtocolRevenue(m, fee))
<1> DEFINE n == AddProtocolRevenue(m, fee)
           shares == ProtocolFeeShares(fee, m.supply_index, m.supplied)
<1>1. m \in MarketState /\ m.revenue <= m.supplied
  BY DEF Sound
<1>2. /\ m.supplied \in 0..MaxI128 /\ m.borrowed \in 0..MaxI128 /\ m.revenue \in 0..MaxI128
      /\ m.cash \in 0..MaxI128 /\ m.last_timestamp \in Nat
      /\ m.borrow_index \in Ray..MaxIndex /\ m.supply_index \in SupplyIndexFloor..MaxIndex
  BY <1>1, Fields, SMTT(30)
<1>3. CASE fee = 0
  BY <1>1, <1>2, <1>3, Ranges DEF AddProtocolRevenue, FeeBooked, Sound
<1>4. CASE fee # 0
  <2>1. n = AccrueRevenue(m, shares)
    BY <1>4 DEF AddProtocolRevenue
  <2>2. shares \in 0..(MaxI128 - m.supplied)
    BY <1>2, FeeShares
  <2> HIDE DEF shares
  <2>3. n = Mk(m.supplied + shares, m.borrowed, m.revenue + shares, m.borrow_index,
               m.supply_index, m.last_timestamp, m.cash)
    BY <1>1, <2>1, AccrueRevenueIs
  <2>4. PICK s \in 0..MaxI128, r \in 0..MaxI128 : s = m.supplied + shares /\ r = m.revenue + shares
    BY <1>1, <1>2, <2>2, Ranges
  <2>a. Mk(s, m.borrowed, r, m.borrow_index, m.supply_index, m.last_timestamp, m.cash) \in MarketState
    BY <1>2, MkType, SMTT(30)
  <2>5. n \in MarketState
    BY <2>3, <2>4, <2>a
  <2> HIDE DEF n
  <2>6. FeeBooked(m, n)
    BY <1>1, <1>2, <2>2, <2>3, <2>5, Ranges DEF FeeBooked, Sound, Mk
  <2> QED
    BY <2>6 DEF n
<1> QED
  BY <1>3, <1>4

-----------------------------------------------------------------------------
(* Legs.                                                                    *)

\* Supply mints what it adds to the position and credits what it takes in.
LEMMA SupplyLegSound ==
  ASSUME NEW p \in MarketParams, NEW m, Sound(m), NEW position \in 0..MaxI128, NEW amount \in Nat,
         SupplyLeg(p, m, position, amount).ok
  PROVE  LET leg == SupplyLeg(p, m, position, amount)
         IN  Settled(m, leg.m, amount, leg.out) /\ DepositMoves(m, leg.m, position, leg.position)
<1> DEFINE minted == CalculateScaledSupply(amount, p.unit, m.supply_index)
           leg == SupplyLeg(p, m, position, amount)
<1>1. m \in MarketState /\ m.revenue <= m.supplied
  BY DEF Sound
<1>2. /\ m.supplied \in 0..MaxI128 /\ m.borrowed \in 0..MaxI128 /\ m.revenue \in 0..MaxI128
      /\ m.cash \in 0..MaxI128 /\ m.supply_index \in Nat \ {0} /\ MaxI128 \in Nat
  BY <1>1, Fields, Ranges
<1>3. p.unit \in Nat \ {0}
  BY DEF MarketParams
<1>4. minted \in Nat
  BY <1>2, <1>3, ScaledType, ZenonT(20)
<1>5. PICK n : n = [m EXCEPT !.supplied = m.supplied + minted, !.cash = m.cash + amount]
  OBVIOUS
<1>6. leg.m = n /\ leg.position = position + minted /\ leg.out = 0
  BY <1>5 DEF SupplyLeg
<1>7. /\ position + minted <= MaxI128 /\ m.supplied + minted <= MaxI128 /\ m.cash + amount <= MaxI128
  BY DEF SupplyLeg, Fits
<1> HIDE DEF minted, leg
<1>8. PICK s \in 0..MaxI128, c \in 0..MaxI128 : s = m.supplied + minted /\ c = m.cash + amount
  BY <1>2, <1>4, <1>7
<1>9. /\ n \in MarketState /\ n.supplied = s /\ n.cash = c
      /\ n.borrowed = m.borrowed /\ n.revenue = m.revenue /\ n.last_timestamp = m.last_timestamp
      /\ n.borrow_index = m.borrow_index /\ n.supply_index = m.supply_index
  BY <1>1, <1>5, <1>8, ZenonT(20) DEF MarketState
<1>10. Settled(m, leg.m, amount, leg.out)
  BY <1>1, <1>2, <1>4, <1>6, <1>8, <1>9 DEF Settled, Sound
<1>11. DepositMoves(m, leg.m, position, leg.position)
  BY <1>2, <1>4, <1>6, <1>7, <1>8, <1>9, SMTT(30) DEF DepositMoves
<1> QED
  BY <1>10, <1>11 DEF leg

\* Minting debt moves the total and the position alike.
LEMMA MintDebtSound ==
  ASSUME NEW p \in MarketParams, NEW m, Sound(m), NEW position \in 0..MaxI128, NEW amount \in Nat,
         MintDebt(p, m, position, amount).ok
  PROVE  LET debt == MintDebt(p, m, position, amount)
         IN  /\ Sound(debt.m) /\ DebtMoves(m, debt.m, position, debt.position)
             /\ amount <= m.cash
             /\ debt.m.cash = m.cash /\ debt.m.last_timestamp = m.last_timestamp
             /\ debt.m.supplied = m.supplied
             /\ debt.m.borrow_index = m.borrow_index /\ debt.m.supply_index = m.supply_index
<1> DEFINE minted == CalculateScaledBorrow(amount, p.unit, m.borrow_index)
           debt == MintDebt(p, m, position, amount)
<1>1. m \in MarketState /\ m.revenue <= m.supplied
  BY DEF Sound
<1>2. /\ m.supplied \in 0..MaxI128 /\ m.borrowed \in 0..MaxI128 /\ m.revenue \in 0..MaxI128
      /\ m.cash \in 0..MaxI128 /\ m.borrow_index \in Nat \ {0} /\ MaxI128 \in Nat
  BY <1>1, Fields, Ranges
<1>3. p.unit \in Nat \ {0}
  BY DEF MarketParams
<1>4. minted \in Nat
  BY <1>2, <1>3, ScaledType, ZenonT(20)
<1>5. PICK n : n = [m EXCEPT !.borrowed = m.borrowed + minted]
  BY ZenonT(20)
<1>6. debt.m = n /\ debt.position = position + minted
  BY <1>5 DEF MintDebt
<1>7. /\ position + minted <= MaxI128 /\ m.borrowed + minted <= MaxI128 /\ amount <= m.cash
  BY <1>2 DEF MintDebt, Fits
<1> HIDE DEF minted, debt
<1>8. PICK b \in 0..MaxI128 : b = m.borrowed + minted
  BY <1>2, <1>4, <1>7
<1>9. /\ n \in MarketState /\ n.borrowed = b /\ n.cash = m.cash
      /\ n.supplied = m.supplied /\ n.revenue = m.revenue /\ n.last_timestamp = m.last_timestamp
      /\ n.borrow_index = m.borrow_index /\ n.supply_index = m.supply_index
  BY <1>1, <1>5, <1>8, SMTT(30) DEF MarketState
<1>10. DebtMoves(m, debt.m, position, debt.position)
  BY <1>2, <1>4, <1>6, <1>7, <1>8, <1>9 DEF DebtMoves
<1>11. Sound(debt.m)
  BY <1>1, <1>6, <1>9 DEF Sound
<1> QED
  BY <1>6, <1>7, <1>9, <1>10, <1>11 DEF debt

\* Only the cash book changes.
LEMMA CashSet ==
  ASSUME NEW m, Sound(m), NEW c \in 0..MaxI128, NEW n, n = [m EXCEPT !.cash = c]
  PROVE  /\ Sound(n) /\ n.cash = c
         /\ n.supplied = m.supplied /\ n.borrowed = m.borrowed /\ n.revenue = m.revenue
         /\ n.last_timestamp = m.last_timestamp
         /\ n.borrow_index = m.borrow_index /\ n.supply_index = m.supply_index
<1>1. m \in MarketState /\ m.revenue <= m.supplied
  BY DEF Sound
<1>2. /\ n \in MarketState /\ n.cash = c
      /\ n.supplied = m.supplied /\ n.borrowed = m.borrowed /\ n.revenue = m.revenue
      /\ n.last_timestamp = m.last_timestamp
      /\ n.borrow_index = m.borrow_index /\ n.supply_index = m.supply_index
  BY <1>1 DEF MarketState
<1> QED
  BY <1>1, <1>2 DEF Sound

\* Borrow mints what it adds to the position and debits what it pays out.
LEMMA BorrowLegSound ==
  ASSUME NEW p \in MarketParams, NEW m, Sound(m), NEW position \in 0..MaxI128, NEW amount \in Nat,
         BorrowLeg(p, m, position, amount).ok
  PROVE  LET leg == BorrowLeg(p, m, position, amount)
         IN  Settled(m, leg.m, 0, leg.out) /\ DebtMoves(m, leg.m, position, leg.position)
<1> DEFINE debt == MintDebt(p, m, position, amount)
           leg == BorrowLeg(p, m, position, amount)
<1>1. debt.ok
  BY SMTT(30) DEF BorrowLeg
<1>2. /\ Sound(debt.m) /\ DebtMoves(m, debt.m, position, debt.position)
      /\ amount <= m.cash
      /\ debt.m.cash = m.cash /\ debt.m.last_timestamp = m.last_timestamp
      /\ debt.m.supplied = m.supplied
      /\ debt.m.borrow_index = m.borrow_index /\ debt.m.supply_index = m.supply_index
  BY <1>1, MintDebtSound
<1>3. PICK d, n : d = debt.m /\ n = [d EXCEPT !.cash = d.cash - amount]
  BY ZenonT(20)
<1>4. leg.m = n /\ leg.position = debt.position /\ leg.out = amount
  BY <1>3 DEF BorrowLeg
<1> HIDE DEF debt, leg
<1>5. PICK c \in 0..MaxI128 : c = d.cash - amount
  BY <1>2, <1>3, Fields, Ranges DEF Sound
<1>6. /\ Sound(n) /\ n.cash = c
      /\ n.supplied = d.supplied /\ n.borrowed = d.borrowed /\ n.revenue = d.revenue
      /\ n.last_timestamp = d.last_timestamp
      /\ n.borrow_index = d.borrow_index /\ n.supply_index = d.supply_index
  BY <1>2, <1>3, <1>5, CashSet
<1>7. m.cash \in Nat
  BY Fields, Ranges DEF Sound
<1>8. Settled(m, leg.m, 0, leg.out)
  BY <1>2, <1>3, <1>4, <1>5, <1>6, <1>7 DEF Settled
<1>9. DebtMoves(m, leg.m, position, leg.position)
  BY <1>2, <1>3, <1>4, <1>6 DEF DebtMoves
<1> QED
  BY <1>8, <1>9 DEF leg

\* create_strategy pays out the amount less its fee, which stays in cash as
\* revenue.
LEMMA StrategyLegSound ==
  ASSUME NEW p \in MarketParams, NEW m, Sound(m), NEW position \in 0..MaxI128, NEW amount \in Nat,
         NEW charge_fee \in BOOLEAN, StrategyLeg(p, m, position, amount, charge_fee).ok
  PROVE  LET leg == StrategyLeg(p, m, position, amount, charge_fee)
         IN  Settled(m, leg.m, 0, leg.out) /\ DebtMoves(m, leg.m, position, leg.position)
<1> DEFINE fee == IF charge_fee THEN FlashLoanFeeOn(p.flashloan_fee, amount) ELSE 0
           debt == MintDebt(p, m, position, amount)
           leg == StrategyLeg(p, m, position, amount, charge_fee)
<1>1. debt.ok /\ fee <= amount
  BY ZenonT(20) DEF StrategyLeg
<1>2. /\ Sound(debt.m) /\ DebtMoves(m, debt.m, position, debt.position)
      /\ amount <= m.cash
      /\ debt.m.cash = m.cash /\ debt.m.last_timestamp = m.last_timestamp
      /\ debt.m.supplied = m.supplied
      /\ debt.m.borrow_index = m.borrow_index /\ debt.m.supply_index = m.supply_index
  BY <1>1, MintDebtSound, SMTT(30)
<1>3. PICK d, booked, n : /\ d = debt.m /\ booked = AddProtocolRevenue(d, FromAsset(fee, p.unit))
                          /\ n = [booked EXCEPT !.cash = booked.cash - (amount - fee)]
  BY ZenonT(20)
<1>4. leg.m = n /\ leg.position = debt.position /\ leg.out = amount - fee
  BY <1>3 DEF StrategyLeg
<1>5. fee \in Nat /\ p.unit \in Nat \ {0}
  BY FlashFeeType, ZenonT(20) DEF MarketParams
<1> HIDE DEF debt, leg, fee
<1>6. FeeBooked(d, booked)
  BY <1>2, <1>3, <1>5, AssetType, FeeBookedSound
<1>7. m.cash \in 0..MaxI128 /\ m.supplied \in Nat /\ booked.supplied \in Nat
  BY <1>6, Fields, Ranges DEF Sound, FeeBooked
<1>8. PICK c \in 0..MaxI128 : c = booked.cash - (amount - fee)
  BY <1>1, <1>2, <1>3, <1>5, <1>6, <1>7, Ranges DEF FeeBooked
<1>9. /\ Sound(n) /\ n.cash = c
      /\ n.supplied = booked.supplied /\ n.borrowed = booked.borrowed /\ n.revenue = booked.revenue
      /\ n.last_timestamp = booked.last_timestamp
      /\ n.borrow_index = booked.borrow_index /\ n.supply_index = booked.supply_index
  BY <1>3, <1>6, <1>8, CashSet DEF FeeBooked
<1>10. Settled(m, leg.m, 0, leg.out)
  BY <1>1, <1>2, <1>3, <1>4, <1>5, <1>6, <1>7, <1>8, <1>9 DEF Settled, FeeBooked
<1>11. DebtMoves(m, leg.m, position, leg.position)
  BY <1>2, <1>3, <1>4, <1>6, <1>9, SMTT(30) DEF DebtMoves, FeeBooked
<1> QED
  BY <1>10, <1>11 DEF leg

\* Withdraw burns what it takes from the position, debits what it pays out,
\* and books a liquidation fee as revenue.
LEMMA WithdrawLegSound ==
  ASSUME NEW p \in MarketParams, NEW m, Sound(m), NEW position \in 0..MaxI128, NEW amount \in Nat,
         NEW is_liquidation \in BOOLEAN, NEW fee \in Nat,
         WithdrawLeg(p, m, position, amount, is_liquidation, fee).ok
  PROVE  LET leg == WithdrawLeg(p, m, position, amount, is_liquidation, fee)
         IN  Settled(m, leg.m, 0, leg.out) /\ DepositMoves(m, leg.m, position, leg.position)
<1> DEFINE r == ResolveWithdrawal(amount, position, m.supply_index, p.unit)
           withheld == IF is_liquidation THEN fee ELSE 0
           net == r.gross - withheld
           leg == WithdrawLeg(p, m, position, amount, is_liquidation, fee)
<1>1. m \in MarketState /\ m.revenue <= m.supplied
  BY DEF Sound
<1>2. /\ m.supplied \in 0..MaxI128 /\ m.borrowed \in 0..MaxI128 /\ m.revenue \in 0..MaxI128
      /\ m.cash \in 0..MaxI128 /\ m.supply_index \in Nat \ {0} /\ MaxI128 \in Nat
  BY <1>1, Fields, Ranges
<1>3. p.unit \in Nat \ {0} /\ withheld \in Nat /\ position \in Nat
  BY <1>2 DEF MarketParams
<1>4. r.burned \in Nat /\ r.gross \in Nat
  BY <1>2, <1>3, WithdrawalType, ZenonT(20)
<1>5. PICK burnt, booked, n :
        /\ burnt = [m EXCEPT !.supplied = m.supplied - r.burned]
        /\ booked = AddProtocolRevenue(burnt, FromAsset(withheld, p.unit))
        /\ n = [booked EXCEPT !.cash = booked.cash - net]
  BY ZenonT(20)
<1>6. leg.m = n /\ leg.position = position - r.burned /\ leg.out = net
  BY <1>5 DEF WithdrawLeg
<1>7. /\ r.burned <= m.supplied /\ m.revenue <= m.supplied - r.burned /\ r.burned <= position
      /\ 0 <= net /\ net <= m.cash /\ SupplyForDebt(booked)
  BY <1>5 DEF WithdrawLeg
<1> HIDE DEF r, withheld, leg
<1>8. net \in Nat
  BY <1>3, <1>4, <1>7
<1> HIDE DEF net
<1>9. PICK s \in 0..MaxI128 : s = m.supplied - r.burned
  BY <1>2, <1>4, <1>7
<1>10. /\ burnt \in MarketState /\ burnt.supplied = s /\ burnt.cash = m.cash
       /\ burnt.borrowed = m.borrowed /\ burnt.revenue = m.revenue
       /\ burnt.last_timestamp = m.last_timestamp
       /\ burnt.borrow_index = m.borrow_index /\ burnt.supply_index = m.supply_index
  BY <1>1, <1>5, <1>9 DEF MarketState
<1>11. FeeBooked(burnt, booked)
  <2>1. Sound(burnt)
    BY <1>7, <1>9, <1>10, SMTT(30) DEF Sound
  <2> QED
    BY <1>3, <1>5, <2>1, AssetType, FeeBookedSound
<1>12. PICK c \in 0..MaxI128 : c = booked.cash - net
  BY <1>2, <1>7, <1>8, <1>10, <1>11 DEF FeeBooked
<1>13. /\ Sound(n) /\ n.cash = c
       /\ n.supplied = booked.supplied /\ n.borrowed = booked.borrowed /\ n.revenue = booked.revenue
       /\ n.last_timestamp = booked.last_timestamp
       /\ n.borrow_index = booked.borrow_index /\ n.supply_index = booked.supply_index
  BY <1>5, <1>11, <1>12, CashSet, SMTT(30) DEF FeeBooked
<1>14. Settled(m, leg.m, 0, leg.out)
  BY <1>2, <1>6, <1>7, <1>8, <1>10, <1>11, <1>12, <1>13, SMTT(30) DEF Settled, FeeBooked, SupplyForDebt
<1>15. DepositMoves(m, leg.m, position, leg.position)
  <2>1. n.borrowed = m.borrowed /\ n.supplied - n.revenue = s - m.revenue
    BY <1>10, <1>11, <1>13 DEF FeeBooked
  <2> QED
    BY <1>2, <1>4, <1>6, <1>7, <1>9, <2>1, SMTT(30) DEF DepositMoves
<1> QED
  BY <1>14, <1>15 DEF leg

\* Repay burns what it takes from the position and credits what it keeps.
LEMMA RepayLegSound ==
  ASSUME NEW p \in MarketParams, NEW m, Sound(m), NEW position \in 0..MaxI128, NEW amount \in Nat,
         RepayLeg(p, m, position, amount).ok
  PROVE  LET leg == RepayLeg(p, m, position, amount)
         IN  Settled(m, leg.m, amount, leg.out) /\ DebtMoves(m, leg.m, position, leg.position)
<1> DEFINE r == ResolveRepay(amount, position, m.borrow_index, p.unit)
           net == amount - r.overpayment
           leg == RepayLeg(p, m, position, amount)
<1>1. m \in MarketState /\ m.revenue <= m.supplied
  BY DEF Sound
<1>2. /\ m.supplied \in 0..MaxI128 /\ m.borrowed \in 0..MaxI128 /\ m.revenue \in 0..MaxI128
      /\ m.cash \in 0..MaxI128 /\ m.borrow_index \in Nat \ {0} /\ MaxI128 \in Nat
  BY <1>1, Fields, Ranges
<1>3. p.unit \in Nat \ {0} /\ position \in Nat
  BY <1>2 DEF MarketParams
<1>4. r.burned \in Nat /\ r.overpayment \in 0..amount
  BY <1>2, <1>3, RepayType, ZenonT(20)
<1>5. PICK n : n = [m EXCEPT !.borrowed = m.borrowed - r.burned, !.cash = m.cash + net]
  OBVIOUS
<1>6. leg.m = n /\ leg.position = position - r.burned /\ leg.out = r.overpayment
  BY <1>5 DEF RepayLeg
<1>7. r.burned <= m.borrowed /\ r.burned <= position /\ m.cash + net <= MaxI128
  BY DEF RepayLeg, Fits
<1> HIDE DEF r, leg
<1>8. PICK b \in 0..MaxI128, c \in 0..MaxI128 : b = m.borrowed - r.burned /\ c = m.cash + net
  BY <1>2, <1>4, <1>7
<1> HIDE DEF net
<1>9. /\ n \in MarketState /\ n.borrowed = b /\ n.cash = c
      /\ n.supplied = m.supplied /\ n.revenue = m.revenue /\ n.last_timestamp = m.last_timestamp
      /\ n.borrow_index = m.borrow_index /\ n.supply_index = m.supply_index
  BY <1>1, <1>5, <1>8, ZenonT(20) DEF MarketState
<1>10. Settled(m, leg.m, amount, leg.out)
  <2>1. leg.out \in Nat /\ n.cash = m.cash + amount - leg.out
    BY <1>2, <1>4, <1>6, <1>8, <1>9, SMTT(30) DEF net
  <2> QED
    BY <1>1, <1>2, <1>6, <1>9, <2>1 DEF Settled, Sound
<1>11. DebtMoves(m, leg.m, position, leg.position)
  BY <1>2, <1>4, <1>6, <1>7, <1>8, <1>9, SMTT(30) DEF DebtMoves
<1> QED
  BY <1>10, <1>11 DEF leg

\* net_settle burns both sides of one market and moves no cash.
LEMMA NetSettleLegSound ==
  ASSUME NEW p \in MarketParams, NEW m, Sound(m), NEW supply \in 0..MaxI128, NEW debt \in 0..MaxI128,
         NEW amount \in Nat, NetSettleLeg(p, m, supply, debt, amount).ok
  PROVE  LET leg == NetSettleLeg(p, m, supply, debt, amount)
         IN  /\ Settled(m, leg.m, 0, 0)
             /\ leg.supply \in 0..MaxI128 /\ leg.debt \in 0..MaxI128
             /\ (leg.m.supplied - leg.m.revenue) - (m.supplied - m.revenue) = leg.supply - supply
             /\ leg.m.borrowed - m.borrowed = leg.debt - debt
<1> DEFINE r == ResolveNetSettle(amount, supply, debt, m.supply_index, m.borrow_index, p.unit)
           leg == NetSettleLeg(p, m, supply, debt, amount)
<1>1. m \in MarketState /\ m.revenue <= m.supplied
  BY DEF Sound
<1>2. /\ m.supplied \in 0..MaxI128 /\ m.borrowed \in 0..MaxI128 /\ m.revenue \in 0..MaxI128
      /\ m.cash \in 0..MaxI128 /\ m.borrow_index \in Nat \ {0} /\ m.supply_index \in Nat \ {0}
      /\ MaxI128 \in Nat
  BY <1>1, Fields, Ranges
<1>3. p.unit \in Nat \ {0} /\ supply \in Nat /\ debt \in Nat
  BY <1>2, SMTT(30) DEF MarketParams
<1>4. r.supply \in 0..supply /\ r.debt \in 0..debt
  BY <1>2, <1>3, NetSettleType, ZenonT(20)
<1>5. PICK n : n = [m EXCEPT !.supplied = m.supplied - r.supply, !.borrowed = m.borrowed - r.debt]
  OBVIOUS
<1>6. leg.m = n /\ leg.supply = supply - r.supply /\ leg.debt = debt - r.debt
  BY <1>5 DEF NetSettleLeg
<1>7. /\ r.supply <= m.supplied /\ m.revenue <= m.supplied - r.supply /\ r.debt <= m.borrowed
      /\ SupplyForDebt(n)
  BY <1>5 DEF NetSettleLeg
<1> HIDE DEF r, leg
<1>8. PICK s \in 0..MaxI128, b \in 0..MaxI128 : s = m.supplied - r.supply /\ b = m.borrowed - r.debt
  BY <1>2, <1>3, <1>4, <1>7
<1>9. /\ n \in MarketState /\ n.borrowed = b /\ n.cash = m.cash
      /\ n.supplied = s /\ n.revenue = m.revenue /\ n.last_timestamp = m.last_timestamp
      /\ n.borrow_index = m.borrow_index /\ n.supply_index = m.supply_index
  BY <1>1, <1>5, <1>8, ZenonT(20) DEF MarketState
<1>10. Settled(m, leg.m, 0, 0)
  BY <1>2, <1>6, <1>7, <1>8, <1>9 DEF Settled, Sound, SupplyForDebt
<1>11. /\ leg.supply \in 0..MaxI128 /\ leg.debt \in 0..MaxI128
       /\ (leg.m.supplied - leg.m.revenue) - (m.supplied - m.revenue) = leg.supply - supply
       /\ leg.m.borrowed - m.borrowed = leg.debt - debt
  BY <1>2, <1>3, <1>4, <1>6, <1>8, <1>9, SMTT(30)
<1> QED
  BY <1>10, <1>11, ZenonT(20) DEF leg

\* Seized deposit shares become revenue: the supply stays.
LEMMA SeizeDepositLegSound ==
  ASSUME NEW m, Sound(m), NEW shares \in Nat, SeizeDepositLeg(m, shares).ok
  PROVE  LET n == SeizeDepositLeg(m, shares).m
         IN  Settled(m, n, 0, 0) /\ n.borrowed = m.borrowed /\ n.supplied = m.supplied
             /\ n.supplied - n.revenue = m.supplied - m.revenue - shares
<1>1. m \in MarketState /\ m.revenue <= m.supplied
  BY DEF Sound
<1>2. /\ m.supplied \in 0..MaxI128 /\ m.borrowed \in 0..MaxI128 /\ m.revenue \in 0..MaxI128
      /\ m.cash \in 0..MaxI128 /\ MaxI128 \in Nat
  BY <1>1, Fields, Ranges
<1>3. m.revenue + shares <= m.supplied
  BY ZenonT(20) DEF SeizeDepositLeg
<1>4. PICK n : n = [m EXCEPT !.revenue = m.revenue + shares]
  BY ZenonT(20)
<1>5. SeizeDepositLeg(m, shares).m = n
  BY <1>4 DEF SeizeDepositLeg
<1>6. PICK r \in 0..MaxI128 : r = m.revenue + shares
  BY <1>2, <1>3
<1>7. /\ n \in MarketState /\ n.borrowed = m.borrowed /\ n.cash = m.cash
      /\ n.supplied = m.supplied /\ n.revenue = r /\ n.last_timestamp = m.last_timestamp
      /\ n.borrow_index = m.borrow_index /\ n.supply_index = m.supply_index
  BY <1>1, <1>4, <1>6 DEF MarketState
<1>8. Settled(m, n, 0, 0)
  BY <1>2, <1>3, <1>6, <1>7, SMTT(30) DEF Settled, Sound
<1>9. n.supplied - n.revenue = m.supplied - m.revenue - shares
  BY <1>2, <1>6, <1>7, SMTT(30)
<1> QED
  BY <1>5, <1>7, <1>8, <1>9

\* A write-off lowers the supply index, and not below its floor.
LEMMA BadDebtSound ==
  ASSUME NEW m, Sound(m), NEW bad \in Nat
  PROVE  LET n == ApplyBadDebtToSupplyIndex(m, bad)
         IN  /\ Sound(n) /\ n.borrowed = m.borrowed /\ n.cash = m.cash
             /\ n.supplied = m.supplied /\ n.revenue = m.revenue
             /\ n.last_timestamp = m.last_timestamp /\ n.borrow_index = m.borrow_index
             /\ n.supply_index <= m.supply_index
<1> DEFINE total == RayMul(m.supplied, m.supply_index)
           remaining == total - Least(bad, total)
           ratio == RayDivFloor(remaining, total)
           reduced == RayMulFloor(m.supply_index, ratio)
<1>1. m \in MarketState /\ m.revenue <= m.supplied
  BY DEF Sound
<1>2. /\ m.supplied \in Nat /\ m.supply_index \in SupplyIndexFloor..MaxIndex
      /\ m.supply_index \in Nat /\ m.revenue \in Nat
  BY <1>1, Fields, Ranges
<1>3. total \in Nat
  BY <1>2, RayType, ZenonT(20)
<1>4. CASE total = 0
  <2>1. ApplyBadDebtToSupplyIndex(m, bad) = m
    BY <1>4 DEF ApplyBadDebtToSupplyIndex
  <2> QED
    BY <1>1, <1>2, <2>1 DEF Sound
<1>5. CASE total # 0
  <2>1. PICK n : n = [m EXCEPT !.supply_index = Greatest(reduced, SupplyIndexFloor)]
    BY ZenonT(20)
  <2>2. ApplyBadDebtToSupplyIndex(m, bad) = n
    BY <1>5, <2>1 DEF ApplyBadDebtToSupplyIndex
  <2> HIDE DEF total
  <2>3. remaining \in Nat /\ remaining <= total
    BY <1>3 DEF Least
  <2> HIDE DEF remaining
  <2>4. ratio \in Nat /\ ratio <= Ray
    <3>1. remaining * Ray \in Nat /\ total * Ray \in Nat /\ remaining * Ray <= total * Ray
      BY <2>3, <1>3, MulMono, Ranges
    <3>2. total * Ray < (Ray + 1) * total
      BY <1>3, <1>5, Ranges
    <3>3. remaining * Ray < (Ray + 1) * total
      BY <3>1, <3>2, <1>3, Ranges
    <3>4. (remaining * Ray) \div total <= Ray
      BY <3>1, <3>3, <1>3, <1>5, DivAtMost, Ranges, Zenon
    <3> QED
      BY <3>1, <3>4, <1>3, <1>5, DivBounds, Zenon DEF RayDivFloor, MulDivFloor
  <2> HIDE DEF ratio
  <2>5. reduced \in Nat /\ reduced <= m.supply_index
    <3>1. m.supply_index * ratio \in Nat /\ m.supply_index * ratio <= m.supply_index * Ray
      BY <2>4, <1>2, MulMono, Ranges
    <3>2. m.supply_index * Ray \in Nat /\ m.supply_index * Ray < (m.supply_index + 1) * Ray
      BY <1>2, Ranges
    <3>3. m.supply_index * ratio < (m.supply_index + 1) * Ray
      BY <3>1, <3>2, <1>2, Ranges
    <3>4. (m.supply_index * ratio) \div Ray <= m.supply_index
      BY <3>1, <3>3, <1>2, DivAtMost, Ranges
    <3> QED
      BY <3>1, <3>4, DivBounds, Ranges DEF RayMulFloor, MulDivFloor
  <2> HIDE DEF reduced
  <2>6. PICK si \in SupplyIndexFloor..MaxIndex :
          si = Greatest(reduced, SupplyIndexFloor) /\ si <= m.supply_index
    BY <2>5, <1>2, Ranges DEF Greatest
  <2>7. /\ n \in MarketState /\ n.borrowed = m.borrowed /\ n.cash = m.cash
        /\ n.supplied = m.supplied /\ n.revenue = m.revenue /\ n.last_timestamp = m.last_timestamp
        /\ n.borrow_index = m.borrow_index /\ n.supply_index = si
    BY <1>1, <2>1, <2>6, Zenon DEF MarketState
  <2> QED
    BY <1>1, <2>2, <2>6, <2>7 DEF Sound
<1> QED
  BY <1>4, <1>5

\* Seized debt leaves the total; only the supply index pays for it.
LEMMA SeizeDebtLegSound ==
  ASSUME NEW m, Sound(m), NEW position \in Nat, SeizeDebtLeg(m, position).ok
  PROVE  LET n == SeizeDebtLeg(m, position).m
         IN  /\ Sound(n) /\ n.borrowed = m.borrowed - position /\ n.cash = m.cash
             /\ n.supplied = m.supplied /\ n.revenue = m.revenue
             /\ n.last_timestamp = m.last_timestamp /\ n.borrow_index = m.borrow_index
<1> DEFINE bad == RayMulCeil(position, m.borrow_index)
<1>1. m \in MarketState
  BY DEF Sound
<1>2. m.borrow_index \in Nat /\ m.borrowed \in 0..MaxI128 /\ MaxI128 \in Nat
  BY <1>1, Fields, Ranges
<1>3. bad \in Nat
  BY <1>2, RayType, ZenonT(20)
<1>4. PICK w, n : w = ApplyBadDebtToSupplyIndex(m, bad) /\ n = [w EXCEPT !.borrowed = w.borrowed - position]
  BY ZenonT(20)
<1>5. SeizeDebtLeg(m, position).m = n /\ position <= m.borrowed
  BY <1>4, ZenonT(20) DEF SeizeDebtLeg
<1> HIDE DEF bad
<1>6. /\ Sound(w) /\ w.borrowed = m.borrowed /\ w.cash = m.cash
      /\ w.supplied = m.supplied /\ w.revenue = m.revenue
      /\ w.last_timestamp = m.last_timestamp /\ w.borrow_index = m.borrow_index
  BY <1>3, <1>4, BadDebtSound
<1>7. PICK b \in 0..MaxI128 : b = w.borrowed - position
  BY <1>2, <1>5, <1>6
<1>8. /\ n \in MarketState /\ n.borrowed = b /\ n.cash = w.cash
      /\ n.supplied = w.supplied /\ n.revenue = w.revenue /\ n.last_timestamp = w.last_timestamp
      /\ n.borrow_index = w.borrow_index
  BY <1>4, <1>6, <1>7 DEF MarketState, Sound
<1> QED
  BY <1>5, <1>6, <1>7, <1>8 DEF Sound

\* One market of a bad-debt cleanup: first the deposit, then the debt.
LEMMA SeizeMarket ==
  ASSUME NEW s, NEW m, m = s.m, Sound(m), NEW d \in Nat, NEW b \in Nat,
         NEW x, x = IF d > 0 THEN SeizeDepositLeg(m, d) ELSE s, x.ok,
         NEW y, y = IF b > 0 THEN SeizeDebtLeg(x.m, b) ELSE x, y.ok
  PROVE  /\ Sound(y.m) /\ y.m.last_timestamp = m.last_timestamp /\ y.m.cash = m.cash
         /\ y.m.borrow_index = m.borrow_index /\ y.m.supplied = m.supplied
         /\ (b = 0 => y.m.supply_index = m.supply_index)
         /\ y.m.supplied - y.m.revenue = m.supplied - m.revenue - d
         /\ y.m.borrowed = m.borrowed - b
<1>0. /\ m.cash \in Int /\ m.supplied \in Int /\ m.revenue \in Int /\ m.borrowed \in Int
  BY Fields, Ranges, SMTT(30) DEF Sound
<1>1. /\ Sound(x.m) /\ x.m.last_timestamp = m.last_timestamp /\ x.m.cash = m.cash
      /\ x.m.borrow_index = m.borrow_index /\ x.m.supplied = m.supplied
      /\ x.m.supply_index = m.supply_index
      /\ x.m.supplied - x.m.revenue = m.supplied - m.revenue - d
      /\ x.m.borrowed = m.borrowed
  <2>1. CASE d > 0
    <3>1. x = SeizeDepositLeg(m, d) /\ SeizeDepositLeg(m, d).ok
      BY <2>1, Zenon
    <3>2. /\ Settled(m, x.m, 0, 0) /\ x.m.borrowed = m.borrowed /\ x.m.supplied = m.supplied
          /\ x.m.supplied - x.m.revenue = m.supplied - m.revenue - d
      BY <3>1, SeizeDepositLegSound, SMTT(30)
    <3> QED
      BY <1>0, <3>2 DEF Settled
  <2>2. CASE d = 0
    BY <1>0, <2>2
  <2>3. d > 0 \/ d = 0
    BY SMTT(30)
  <2> QED
    BY <2>1, <2>2, <2>3, Zenon
<1>2. CASE b > 0
  <2>1. y = SeizeDebtLeg(x.m, b) /\ SeizeDebtLeg(x.m, b).ok
    BY <1>2, Zenon
  <2>2. /\ Sound(y.m) /\ y.m.borrowed = x.m.borrowed - b /\ y.m.cash = x.m.cash
        /\ y.m.supplied = x.m.supplied /\ y.m.revenue = x.m.revenue
        /\ y.m.last_timestamp = x.m.last_timestamp /\ y.m.borrow_index = x.m.borrow_index
    BY <1>1, <2>1, SeizeDebtLegSound, SMTT(30)
  <2> QED
    BY <1>1, <1>2, <2>2
<1>3. CASE b = 0
  BY <1>0, <1>1, <1>3
<1>4. b > 0 \/ b = 0
  OBVIOUS
<1> QED
  BY <1>2, <1>3, <1>4, ZenonT(20)

\* A claim burns revenue shares only and pays out what it debits.
LEMMA ClaimRevenueLegSound ==
  ASSUME NEW p \in MarketParams, NEW m, Sound(m), ClaimRevenueLeg(p, m).ok
  PROVE  LET leg == ClaimRevenueLeg(p, m)
         IN  Settled(m, leg.m, 0, leg.out) /\ BooksKept(m, leg.m)
<1> DEFINE treasury == UnscaleSupplyFloor(m.revenue, m.supply_index, p.unit)
           amount   == Least(m.cash, treasury)
           burned   == IF amount = 0 THEN 0
                       ELSE IF amount = treasury THEN m.revenue
                       ELSE MulDivCeil(m.revenue, amount, treasury)
           leg == ClaimRevenueLeg(p, m)
<1>1. m \in MarketState /\ m.revenue <= m.supplied
  BY DEF Sound
<1>2. /\ m.supplied \in 0..MaxI128 /\ m.borrowed \in 0..MaxI128 /\ m.revenue \in 0..MaxI128
      /\ m.cash \in 0..MaxI128 /\ m.supply_index \in Nat \ {0} /\ MaxI128 \in Nat
  BY <1>1, Fields, Ranges
<1>3. p.unit \in Nat \ {0} /\ m.revenue \in Nat /\ m.cash \in Nat
  BY <1>2 DEF MarketParams
<1>4. treasury \in Nat
  BY <1>2, <1>3, UnscaledType, ZenonT(20)
<1>5. PICK next : next = [m EXCEPT !.revenue = m.revenue - burned, !.supplied = m.supplied - burned]
  OBVIOUS
<1>a. PICK n : n = [next EXCEPT !.cash = next.cash - amount]
  BY ZenonT(20)
<1>6. leg.m = n /\ leg.out = amount
  BY <1>5, <1>a DEF ClaimRevenueLeg
<1>7. burned <= m.revenue /\ burned <= m.supplied /\ SupplyForDebt(next)
  BY <1>5 DEF ClaimRevenueLeg
<1> HIDE DEF treasury, leg
<1>8. amount \in Nat /\ amount <= m.cash /\ amount <= treasury
  BY <1>3, <1>4 DEF Least
<1> HIDE DEF amount
<1>9. burned \in Nat
  <2>1. treasury # 0 => MulDivCeil(m.revenue, amount, treasury) \in Nat
    BY <1>3, <1>4, <1>8, Ceil
  <2>2. treasury = 0 => amount = 0
    BY <1>4, <1>8
  <2> QED
    BY <1>3, <2>1, <2>2
<1> HIDE DEF burned
<1>10. PICK r \in 0..MaxI128, s \in 0..MaxI128 : r = m.revenue - burned /\ s = m.supplied - burned
  BY <1>2, <1>7, <1>9
<1>11. /\ next \in MarketState /\ next.borrowed = m.borrowed /\ next.cash = m.cash
       /\ next.supplied = s /\ next.revenue = r /\ next.last_timestamp = m.last_timestamp
       /\ next.borrow_index = m.borrow_index /\ next.supply_index = m.supply_index
  BY <1>1, <1>5, <1>10, ZenonT(20) DEF MarketState
<1>12. Sound(next)
  BY <1>1, <1>2, <1>9, <1>10, <1>11 DEF Sound
<1>13. PICK c \in 0..MaxI128 : c = next.cash - amount
  BY <1>2, <1>8, <1>11
<1>14. /\ Sound(n) /\ n.cash = c
       /\ n.supplied = next.supplied /\ n.borrowed = next.borrowed /\ n.revenue = next.revenue
       /\ n.last_timestamp = next.last_timestamp
       /\ n.borrow_index = next.borrow_index /\ n.supply_index = next.supply_index
  BY <1>a, <1>12, <1>13, CashSet
<1>15. Settled(m, leg.m, 0, leg.out)
  BY <1>2, <1>6, <1>7, <1>8, <1>11, <1>13, <1>14 DEF Settled, SupplyForDebt
<1>16. BooksKept(m, leg.m)
  BY <1>2, <1>6, <1>9, <1>10, <1>11, <1>14 DEF BooksKept
<1> QED
  BY <1>15, <1>16 DEF leg

\* A recapitalization credits cash and moves no user shares.
LEMMA RecapitalizeLegSound ==
  ASSUME NEW p \in MarketParams, NEW m, Sound(m), NEW amount \in Nat, RecapitalizeLeg(p, m, amount).ok
  PROVE  LET leg == RecapitalizeLeg(p, m, amount)
         IN  Settled(m, leg.m, amount, leg.out) /\ BooksKept(m, leg.m)
<1> DEFINE short == BackingShortfall(p, m)
           applied == Least(amount, short)
           leg == RecapitalizeLeg(p, m, amount)
<1>1. m \in MarketState
  BY DEF Sound
<1>2. /\ m.supplied \in Nat /\ m.borrowed \in Nat /\ m.cash \in Nat
      /\ m.borrow_index \in Nat /\ m.supply_index \in Nat /\ m.revenue \in Nat
  BY <1>1, Fields, Ranges
<1>3. p.unit \in Nat \ {0}
  BY DEF MarketParams
<1>4. short \in Nat
  <2>1. ClaimsFloor(m) \in Nat /\ DebtCeil(m) \in Nat
    BY <1>2, RayType, ZenonT(20) DEF ClaimsFloor, DebtCeil
  <2>2. CASE ClaimsFloor(m) <= DebtCeil(m)
    BY <2>2 DEF BackingShortfall
  <2>3. CASE ~(ClaimsFloor(m) <= DebtCeil(m))
    <3>1. ClaimsFloor(m) - DebtCeil(m) \in Nat
      BY <2>1, <2>3
    <3>2. ToAssetFloor(ClaimsFloor(m) - DebtCeil(m), p.unit) \in Nat
      BY <1>3, <3>1, AssetType, Zenon
    <3> QED
      BY <1>2, <2>3, <3>2 DEF BackingShortfall, Greatest
  <2> QED
    BY <2>2, <2>3
<1>5. PICK n : n = [m EXCEPT !.cash = m.cash + applied]
  BY ZenonT(20)
<1>6. leg.m = n /\ leg.out = amount - applied /\ m.cash + applied <= MaxI128
  BY <1>5, ZenonT(20) DEF RecapitalizeLeg, Fits
<1> HIDE DEF short, leg
<1>7. applied \in 0..amount
  BY <1>4 DEF Least
<1> HIDE DEF applied
<1>8. PICK c \in 0..MaxI128 : c = m.cash + applied
  BY <1>2, <1>6, <1>7, Ranges
<1>9. /\ Sound(n) /\ n.cash = c
      /\ n.supplied = m.supplied /\ n.borrowed = m.borrowed /\ n.revenue = m.revenue
      /\ n.last_timestamp = m.last_timestamp
      /\ n.borrow_index = m.borrow_index /\ n.supply_index = m.supply_index
  BY <1>5, <1>8, CashSet, SMTT(30)
<1>10. Settled(m, leg.m, amount, leg.out)
  BY <1>2, <1>6, <1>7, <1>8, <1>9, SMTT(30) DEF Settled
<1>11. BooksKept(m, leg.m)
  BY <1>6, <1>9, Zenon DEF BooksKept
<1> QED
  BY <1>10, <1>11 DEF leg

\* The flash-loan fee becomes cash and revenue.
LEMMA BookFlashFeeSound ==
  ASSUME NEW p \in MarketParams, NEW m, Sound(m), NEW fee \in Nat, BookFlashFee(p, m, fee).ok
  PROVE  LET n == BookFlashFee(p, m, fee).m
         IN  Settled(m, n, fee, 0) /\ BooksKept(m, n) /\ n.supplied >= m.supplied
<1>1. PICK booked, n : /\ booked = AddProtocolRevenue(m, FromAsset(fee, p.unit))
                       /\ n = [booked EXCEPT !.cash = booked.cash + fee]
  BY ZenonT(20)
<1>2. BookFlashFee(p, m, fee).m = n /\ m.cash + fee <= MaxI128
  BY <1>1, ZenonT(20) DEF BookFlashFee, Fits
<1>3. p.unit \in Nat \ {0}
  BY DEF MarketParams
<1>4. FeeBooked(m, booked)
  BY <1>1, <1>3, AssetType, FeeBookedSound
<1>5. m.cash \in Nat /\ m.supplied \in Nat /\ booked.supplied \in Nat
  BY <1>4, Fields, Ranges DEF Sound, FeeBooked
<1>6. PICK c \in 0..MaxI128 : c = booked.cash + fee
  BY <1>2, <1>4, <1>5, Ranges DEF FeeBooked
<1>7. /\ Sound(n) /\ n.cash = c
      /\ n.supplied = booked.supplied /\ n.borrowed = booked.borrowed /\ n.revenue = booked.revenue
      /\ n.last_timestamp = booked.last_timestamp
      /\ n.borrow_index = booked.borrow_index /\ n.supply_index = booked.supply_index
  BY <1>1, <1>4, <1>6, CashSet DEF FeeBooked
<1>8. Settled(m, n, fee, 0)
  BY <1>4, <1>5, <1>6, <1>7 DEF Settled, FeeBooked
<1>9. BooksKept(m, n) /\ n.supplied >= m.supplied
  BY <1>4, <1>7 DEF BooksKept, FeeBooked
<1> QED
  BY <1>2, <1>8, <1>9

\* A new market is sound.
LEMMA NewMarketSound ==
  ASSUME NEW now \in Nat
  PROVE  Sound(NewMarket(now))
  BY Ranges DEF Sound, NewMarket, MarketState

\* Every leg keeps its law.
LEMMA LegLawsHold == LegLaws
<1>1. SupplyLegLaw
  BY SupplyLegSound DEF SupplyLegLaw
<1>2. BorrowLegLaw
  BY BorrowLegSound DEF BorrowLegLaw
<1>3. StrategyLegLaw
  BY StrategyLegSound, SMTT(30) DEF StrategyLegLaw
<1>4. WithdrawLegLaw
  BY WithdrawLegSound, SMTT(30) DEF WithdrawLegLaw
<1>5. RepayLegLaw
  BY RepayLegSound DEF RepayLegLaw
<1>6. NetSettleLegLaw
  BY NetSettleLegSound, SMTT(30) DEF NetSettleLegLaw
<1>7. SeizeDepositLegLaw
  BY SeizeDepositLegSound, ZenonT(20) DEF SeizeDepositLegLaw
<1>8. SeizeMarketLaw
  BY SeizeMarket DEF SeizeMarketLaw, SeizePath, Seized
<1>9. ClaimRevenueLegLaw
  BY ClaimRevenueLegSound DEF ClaimRevenueLegLaw
<1>10. RecapitalizeLegLaw
  BY RecapitalizeLegSound, Zenon DEF RecapitalizeLegLaw
<1>11. BookFlashFeeLaw
  BY BookFlashFeeSound DEF BookFlashFeeLaw
<1>12. NewMarketLaw
  BY NewMarketSound DEF NewMarketLaw
<1>13. FlashFeeLaw
  BY FlashFeeType DEF FlashFeeLaw
<1> QED
  BY <1>1, <1>2, <1>3, <1>4, <1>5, <1>6, <1>7, <1>8, <1>9, <1>10, <1>11, <1>12, <1>13, Zenon DEF LegLaws

-----------------------------------------------------------------------------
(* Rounding in favour of the pool: what a change of shares does to the      *)
(* value of all of them.                                                    *)

\* A positive factor cancels.
LEMMA Cancel ==
  ASSUME NEW d \in Nat \ {0}, NEW a \in Int, NEW b \in Int, d * a < d * b
  PROVE  a < b
<1>1. SUFFICES ASSUME b <= a PROVE FALSE
  OBVIOUS
<1>2. a - b \in Nat /\ d \in Nat
  BY <1>1
<1>3. d * (a - b) \in Nat
  BY <1>2, MulMono
<1>4. d * (a - b) = d * a - d * b
  OBVIOUS
<1> QED
  BY <1>3, <1>4

\* Shares worth at most v raise the floored value of all shares by at most v.
LEMMA FloorAdd ==
  ASSUME NEW s \in Nat, NEW t \in Nat, NEW i \in Nat, NEW v \in Nat, t * i <= v * Ray
  PROVE  RayMulFloor(s + t, i) <= RayMulFloor(s, i) + v
<1> DEFINE q == RayMulFloor(s, i)
           r == RayMulFloor(s + t, i)
<1>1. Ray \in Nat \ {0} /\ s + t \in Nat
  BY RayAssumption
<1>2. q \in Nat /\ s * i < Ray * q + Ray
  BY <1>1, Floor DEF RayMulFloor
<1>3. r \in Nat /\ Ray * r <= (s + t) * i
  BY <1>1, Floor DEF RayMulFloor
<1>4. (s + t) * i = s * i + t * i /\ s * i \in Int /\ t * i \in Int /\ v * Ray \in Int
  BY <1>1
<1> HIDE DEF q, r
<1>5. Ray * r < Ray * (q + v + 1)
  BY <1>1, <1>2, <1>3, <1>4
<1>6. r < q + v + 1
  BY <1>1, <1>2, <1>3, <1>5, Cancel
<1> QED
  BY <1>2, <1>3, <1>6 DEF q, r

\* Shares worth at least v lower the floored value of all shares by at least v.
LEMMA FloorSub ==
  ASSUME NEW s \in Nat, NEW t \in 0..s, NEW i \in Nat, NEW v \in Nat, v * Ray <= t * i
  PROVE  RayMulFloor(s - t, i) <= RayMulFloor(s, i) - v
<1> DEFINE q == RayMulFloor(s, i)
           r == RayMulFloor(s - t, i)
<1>1. Ray \in Nat \ {0} /\ s - t \in Nat
  BY RayAssumption
<1>2. q \in Nat /\ s * i < Ray * q + Ray
  BY <1>1, Floor DEF RayMulFloor
<1>3. r \in Nat /\ Ray * r <= (s - t) * i
  BY <1>1, Floor DEF RayMulFloor
<1>4. (s - t) * i = s * i - t * i /\ s * i \in Int /\ t * i \in Int /\ v * Ray \in Int
  BY <1>1
<1> HIDE DEF q, r
<1>5. Ray * r < Ray * (q - v + 1)
  BY <1>1, <1>2, <1>3, <1>4
<1>6. r < q - v + 1
  BY <1>1, <1>2, <1>3, <1>5, Cancel
<1> QED
  BY <1>2, <1>3, <1>6 DEF q, r

\* Debt shares worth at least v raise the ceiling of the debt by at least v.
LEMMA CeilAdd ==
  ASSUME NEW s \in Nat, NEW t \in Nat, NEW i \in Nat, NEW v \in Nat, v * Ray <= t * i
  PROVE  RayMulCeil(s, i) + v <= RayMulCeil(s + t, i)
<1> DEFINE q == RayMulCeil(s, i)
           r == RayMulCeil(s + t, i)
<1>1. Ray \in Nat \ {0} /\ s + t \in Nat
  BY RayAssumption
<1>2. q \in Nat /\ Ray * q < s * i + Ray
  BY <1>1, Ceil DEF RayMulCeil
<1>3. r \in Nat /\ (s + t) * i <= Ray * r
  BY <1>1, Ceil DEF RayMulCeil
<1>4. (s + t) * i = s * i + t * i /\ s * i \in Int /\ t * i \in Int /\ v * Ray \in Int
  BY <1>1
<1> HIDE DEF q, r
<1>5. Ray * (q + v) < Ray * (r + 1)
  BY <1>1, <1>2, <1>3, <1>4
<1>6. q + v < r + 1
  BY <1>1, <1>2, <1>3, <1>5, Cancel
<1> QED
  BY <1>2, <1>3, <1>6 DEF q, r

\* Debt shares worth at most v lower the ceiling of the debt by at most v.
LEMMA CeilSub ==
  ASSUME NEW s \in Nat, NEW t \in 0..s, NEW i \in Nat, NEW v \in Nat, t * i <= v * Ray
  PROVE  RayMulCeil(s, i) - v <= RayMulCeil(s - t, i)
<1> DEFINE q == RayMulCeil(s, i)
           r == RayMulCeil(s - t, i)
<1>1. Ray \in Nat \ {0} /\ s - t \in Nat
  BY RayAssumption
<1>2. q \in Nat /\ Ray * q < s * i + Ray
  BY <1>1, Ceil DEF RayMulCeil
<1>3. r \in Nat /\ (s - t) * i <= Ray * r
  BY <1>1, Ceil DEF RayMulCeil
<1>4. (s - t) * i = s * i - t * i /\ s * i \in Int /\ t * i \in Int /\ v * Ray \in Int
  BY <1>1
<1> HIDE DEF q, r
<1>5. Ray * (q - v) < Ray * (r + 1)
  BY <1>1, <1>2, <1>3, <1>4
<1>6. q - v < r + 1
  BY <1>1, <1>2, <1>3, <1>5, Cancel
<1> QED
  BY <1>2, <1>3, <1>6 DEF q, r

\* Rounding half up is within one of rounding down and of rounding up.
LEMMA RoundingSpread ==
  ASSUME NEW a \in Nat, NEW b \in Nat
  PROVE  /\ RayMulFloor(a, b) <= RayMul(a, b) /\ RayMul(a, b) <= RayMulFloor(a, b) + 1
         /\ RayMul(a, b) <= RayMulCeil(a, b) /\ RayMulCeil(a, b) <= RayMul(a, b) + 1
<1> DEFINE f == RayMulFloor(a, b)
           h == RayMul(a, b)
           c == RayMulCeil(a, b)
<1>1. Ray \in Nat \ {0}
  BY RayAssumption
<1>2. PICK x \in Int : x = a * b
  OBVIOUS
<1>3. f \in Nat /\ Ray * f <= x /\ x < Ray * f + Ray
  BY <1>1, <1>2, Floor DEF RayMulFloor
<1>4. c \in Nat /\ x <= Ray * c /\ Ray * c < x + Ray
  BY <1>1, <1>2, Ceil DEF RayMulCeil
<1>5. h \in Nat /\ 2 * Ray * h <= 2 * a * b + Ray /\ 2 * a * b < 2 * Ray * h + Ray + 1
  BY <1>1, HalfUp DEF RayMul
<1> HIDE DEF f, h, c
<1>6. 2 * (Ray * h) <= 2 * x + Ray /\ 2 * x < 2 * (Ray * h) + Ray + 1
  BY <1>1, <1>2, <1>5
<1>7. /\ Ray * f < Ray * (h + 1) /\ Ray * h < Ray * (f + 2)
      /\ Ray * h < Ray * (c + 1) /\ Ray * c < Ray * (h + 2)
  BY <1>1, <1>3, <1>4, <1>5, <1>6
<1>8. f < h + 1 /\ h < f + 2 /\ h < c + 1 /\ c < h + 2
  BY <1>1, <1>3, <1>4, <1>5, <1>7, Cancel
<1> QED
  BY <1>3, <1>4, <1>5, <1>8 DEF f, h, c

-----------------------------------------------------------------------------
(* What shares are worth.                                                   *)

\* Shares minted for a deposit, or burned for a part of a debt, are worth no
\* more than the tokens; shares burned for a withdrawal, or minted for a debt,
\* no less.
LEMMA ScaledValue ==
  ASSUME NEW amount \in Nat, NEW unit \in Nat \ {0}, NEW index \in Nat \ {0}
  PROVE  /\ amount * unit \in Nat
         /\ CalculateScaledSupply(amount, unit, index) * index <= (amount * unit) * Ray
         /\ CalculateScaledBorrowFloor(amount, unit, index) * index <= (amount * unit) * Ray
         /\ (amount * unit) * Ray <= CalculateScaledSupplyCeil(amount, unit, index) * index
         /\ (amount * unit) * Ray <= CalculateScaledBorrow(amount, unit, index) * index
<1> DEFINE v == amount * unit
           f == RayDivFloor(v, index)
           c == RayDivCeil(v, index)
<1>1. v \in Nat /\ Ray \in Nat
  BY MulMono, RayAssumption
<1> HIDE DEF v
<1>2. f \in Nat /\ index * f <= v * Ray
  BY <1>1, Floor DEF RayDivFloor
<1>3. c \in Nat /\ v * Ray <= index * c
  BY <1>1, Ceil DEF RayDivCeil
<1> HIDE DEF f, c
<1>4. f * index <= v * Ray /\ v * Ray <= c * index
  BY <1>1, <1>2, <1>3
<1> QED
  BY <1>1, <1>4 DEF f, c, v, CalculateScaledSupply, CalculateScaledBorrowFloor,
                    CalculateScaledSupplyCeil, CalculateScaledBorrow, FromAsset

\* A supply position is worth at least what it converts to, a debt at most.
LEMMA UnscaledValue ==
  ASSUME NEW scaled \in Nat, NEW unit \in Nat \ {0}, NEW index \in Nat
  PROVE  /\ (UnscaleSupplyFloor(scaled, index, unit) * unit) * Ray <= scaled * index
         /\ scaled * index <= (UnscaleBorrowCeil(scaled, index, unit) * unit) * Ray
<1> DEFINE f == RayMulFloor(scaled, index)
           c == RayMulCeil(scaled, index)
           tf == ToAssetFloor(f, unit)
           tc == ToAssetCeil(c, unit)
<1>1. Ray \in Nat \ {0}
  BY RayAssumption
<1>2. f \in Nat /\ Ray * f <= scaled * index
  BY <1>1, Floor DEF RayMulFloor
<1>3. c \in Nat /\ scaled * index <= Ray * c
  BY <1>1, Ceil DEF RayMulCeil
<1> HIDE DEF f, c
<1>4. tf \in Nat /\ tf * unit <= f
  BY <1>2, DivBounds DEF ToAssetFloor
<1>5. tc \in Nat /\ c <= tc * unit
  <2>1. PICK q : q = c \div unit
    OBVIOUS
  <2>2. q \in Nat /\ c < unit * q + unit
    BY <1>3, <2>1, DivBounds
  <2>3. CASE c % unit # 0
    BY <2>1, <2>2, <2>3, <1>3 DEF ToAssetCeil
  <2>4. CASE c % unit = 0
    <3>1. c = unit * (c \div unit)
      BY <1>3, <2>4
    <3> QED
      BY <2>1, <2>2, <2>4, <3>1, <1>3 DEF ToAssetCeil
  <2> QED
    BY <2>3, <2>4
<1> HIDE DEF tf, tc
<1>6. (tf * unit) * Ray <= f * Ray /\ tf * unit \in Nat /\ tc * unit \in Nat
  BY <1>1, <1>2, <1>4, <1>5, MulMono
<1>7. c * Ray <= (tc * unit) * Ray
  BY <1>1, <1>3, <1>5, <1>6, MulMono
<1>8. (tf * unit) * Ray <= scaled * index /\ scaled * index <= (tc * unit) * Ray
  BY <1>1, <1>2, <1>3, <1>4, <1>5, <1>6, <1>7
<1> QED
  BY <1>8 DEF tf, tc, f, c, UnscaleSupplyFloor, UnscaleBorrowCeil

\* The claims and the debt of a market are numbers.
LEMMA ValueType ==
  ASSUME NEW p \in MarketParams, NEW m, Sound(m)
  PROVE  /\ ClaimsFloor(m) \in Nat /\ DebtCeil(m) \in Nat /\ m.cash \in Nat
         /\ p.unit \in Nat \ {0} /\ m.cash * p.unit \in Nat /\ Uncovered(p, m) \in Int
<1>1. /\ m.supplied \in Nat /\ m.borrowed \in Nat /\ m.cash \in Nat
      /\ m.borrow_index \in Nat /\ m.supply_index \in Nat
  BY Fields, Ranges DEF Sound
<1>2. ClaimsFloor(m) \in Nat /\ DebtCeil(m) \in Nat
  BY <1>1, RayType, Zenon DEF ClaimsFloor, DebtCeil
<1>3. p.unit \in Nat \ {0}
  BY DEF MarketParams
<1>4. m.cash * p.unit \in Nat
  BY <1>1, <1>3, MulMono
<1> QED
  BY <1>1, <1>2, <1>3, <1>4 DEF Uncovered

\* A leg whose cash pays for the change of claims and debt covers.
LEMMA CoveredBy ==
  ASSUME NEW p \in MarketParams, NEW m, Sound(m), NEW n, Sound(n),
         n.last_timestamp = m.last_timestamp,
         NEW x \in Int, NEW y \in Int, NEW z \in Int,
         ClaimsFloor(n) <= ClaimsFloor(m) + x, DebtCeil(m) + y <= DebtCeil(n),
         n.cash = m.cash + z, x - y <= z * p.unit
  PROVE  Covered(p, m, n)
<1>1. /\ ClaimsFloor(m) \in Nat /\ DebtCeil(m) \in Nat /\ m.cash \in Nat
      /\ p.unit \in Nat \ {0} /\ m.cash * p.unit \in Nat /\ Uncovered(p, m) \in Int
  BY ValueType
<1>2. /\ ClaimsFloor(n) \in Nat /\ DebtCeil(n) \in Nat /\ n.cash \in Nat
      /\ n.cash * p.unit \in Nat /\ Uncovered(p, n) \in Int
  BY ValueType
<1>3. n.cash * p.unit = m.cash * p.unit + z * p.unit /\ z * p.unit \in Int
  BY <1>1
<1>4. Uncovered(p, n) <= Uncovered(p, m)
  BY <1>1, <1>2, <1>3 DEF Uncovered
<1> QED
  BY <1>1, <1>2, <1>4 DEF Covered

-----------------------------------------------------------------------------
(* Every leg covers what it does to the claims.                             *)

\* The tokens of a deposit are worth at least the shares it mints.
LEMMA SupplyLegCovered ==
  ASSUME NEW p \in MarketParams, NEW m, Sound(m), NEW position \in 0..MaxI128, NEW amount \in Nat,
         SupplyLeg(p, m, position, amount).ok
  PROVE  Covered(p, m, SupplyLeg(p, m, position, amount).m)
<1> DEFINE minted == CalculateScaledSupply(amount, p.unit, m.supply_index)
           n == SupplyLeg(p, m, position, amount).m
<1>1. Sound(n) /\ n.last_timestamp = m.last_timestamp
  BY SupplyLegSound DEF Settled
<1>2. /\ m.supplied \in Nat /\ m.supply_index \in Nat \ {0} /\ p.unit \in Nat \ {0}
  BY Fields, Ranges DEF Sound, MarketParams
<1>3. n = [m EXCEPT !.supplied = m.supplied + minted, !.cash = m.cash + amount]
  BY DEF SupplyLeg
<1>4. minted \in Nat /\ minted * m.supply_index <= (amount * p.unit) * Ray /\ amount * p.unit \in Nat
  BY <1>2, ScaledType, ScaledValue, Zenon
<1> HIDE DEF minted, n
<1>5. /\ n.supplied = m.supplied + minted /\ n.cash = m.cash + amount /\ n.borrowed = m.borrowed
      /\ n.borrow_index = m.borrow_index /\ n.supply_index = m.supply_index
  BY <1>3 DEF Sound, MarketState
<1>6. ClaimsFloor(n) <= ClaimsFloor(m) + amount * p.unit
  BY <1>2, <1>4, <1>5, FloorAdd DEF ClaimsFloor
<1>7. DebtCeil(m) + 0 <= DebtCeil(n)
  BY <1>1, <1>5, ValueType DEF DebtCeil
<1>8. Covered(p, m, n)
  BY <1>1, <1>4, <1>5, <1>6, <1>7, CoveredBy
<1> QED
  BY <1>8 DEF n

\* A debt is worth at least the tokens it is minted for.
LEMMA MintDebtValue ==
  ASSUME NEW p \in MarketParams, NEW m, Sound(m), NEW position \in 0..MaxI128, NEW amount \in Nat
  PROVE  LET d == MintDebt(p, m, position, amount).m
         IN  /\ DebtCeil(m) + amount * p.unit <= DebtCeil(d) /\ ClaimsFloor(d) = ClaimsFloor(m)
             /\ amount * p.unit \in Nat
<1> DEFINE minted == CalculateScaledBorrow(amount, p.unit, m.borrow_index)
           d == MintDebt(p, m, position, amount).m
<1>1. m.borrowed \in Nat /\ m.borrow_index \in Nat \ {0} /\ p.unit \in Nat \ {0}
  BY Fields, Ranges DEF Sound, MarketParams
<1>2. d = [m EXCEPT !.borrowed = m.borrowed + minted]
  BY DEF MintDebt
<1>3. minted \in Nat /\ (amount * p.unit) * Ray <= minted * m.borrow_index /\ amount * p.unit \in Nat
  BY <1>1, ScaledType, ScaledValue, Zenon
<1> HIDE DEF minted, d
<1>4. /\ d.borrowed = m.borrowed + minted /\ d.supplied = m.supplied
      /\ d.borrow_index = m.borrow_index /\ d.supply_index = m.supply_index
  BY <1>2 DEF Sound, MarketState
<1>5. DebtCeil(m) + amount * p.unit <= DebtCeil(d)
  BY <1>1, <1>3, <1>4, CeilAdd, Zenon DEF DebtCeil
<1> QED
  BY <1>3, <1>4, <1>5 DEF ClaimsFloor, d

\* The shares of a fee are worth at most the fee.
LEMMA FeeValue ==
  ASSUME NEW m, Sound(m), NEW fee \in Nat
  PROVE  LET n == AddProtocolRevenue(m, fee)
         IN  ClaimsFloor(n) <= ClaimsFloor(m) + fee /\ DebtCeil(n) = DebtCeil(m)
<1> DEFINE shares == ProtocolFeeShares(fee, m.supply_index, m.supplied)
           n == AddProtocolRevenue(m, fee)
<1>1. /\ m \in MarketState /\ m.supplied \in 0..MaxI128 /\ m.supplied \in Nat
      /\ m.supply_index \in SupplyIndexFloor..MaxIndex /\ m.supply_index \in Nat \ {0}
  BY Fields, Ranges DEF Sound
<1>2. CASE fee = 0
  <2>1. n = m
    BY <1>2 DEF AddProtocolRevenue
  <2>2. ClaimsFloor(m) \in Nat
    BY <1>1, RayType, Zenon DEF ClaimsFloor
  <2> QED
    BY <1>2, <2>1, <2>2
<1>3. CASE fee # 0
  <2>1. n = AccrueRevenue(m, shares)
    BY <1>3 DEF AddProtocolRevenue
  <2>a. shares \in 0..(MaxI128 - m.supplied)
    BY <1>1, FeeShares, Zenon
  <2>2. shares \in Nat
    BY <1>1, <2>a, I128Assumption
  <2>3. shares <= RayDivFloor(fee, m.supply_index) /\ RayDivFloor(fee, m.supply_index) \in Nat
    <3>1. RayDivFloor(fee, m.supply_index) \in Nat
      BY <1>1, RayDivType
    <3> QED
      BY <1>1, <3>1, Ranges DEF ProtocolFeeShares, Least
  <2>4. CalculateScaledSupply(fee, 1, m.supply_index) * m.supply_index <= (fee * 1) * Ray
    BY <1>1, ScaledValue
  <2>5. RayDivFloor(fee, m.supply_index) * m.supply_index <= fee * Ray
    BY <2>4 DEF CalculateScaledSupply, FromAsset
  <2> HIDE DEF shares
  <2>6. shares * m.supply_index <= fee * Ray
    <3>1. shares * m.supply_index <= RayDivFloor(fee, m.supply_index) * m.supply_index
      BY <1>1, <2>2, <2>3, MulMono
    <3> QED
      BY <1>1, <2>2, <2>3, <2>5, <3>1, RayAssumption
  <2>7. /\ n.supplied = m.supplied + shares /\ n.supply_index = m.supply_index
        /\ n.borrowed = m.borrowed /\ n.borrow_index = m.borrow_index
    BY <1>1, <2>1, AccrueRevenueIs DEF Mk
  <2> HIDE DEF n
  <2>8. ClaimsFloor(n) <= ClaimsFloor(m) + fee
    BY <1>1, <2>2, <2>6, <2>7, FloorAdd DEF ClaimsFloor
  <2> QED
    BY <2>7, <2>8 DEF DebtCeil, n
<1> QED
  BY <1>2, <1>3

\* Moving cash moves no claim and no debt.
LEMMA CashKeepsValue ==
  ASSUME NEW m, Sound(m), NEW c \in 0..MaxI128, NEW n, n = [m EXCEPT !.cash = c]
  PROVE  ClaimsFloor(n) = ClaimsFloor(m) /\ DebtCeil(n) = DebtCeil(m)
  BY CashSet DEF ClaimsFloor, DebtCeil

\* What a borrower takes out is covered by the debt.
LEMMA BorrowLegCovered ==
  ASSUME NEW p \in MarketParams, NEW m, Sound(m), NEW position \in 0..MaxI128, NEW amount \in Nat,
         BorrowLeg(p, m, position, amount).ok
  PROVE  Covered(p, m, BorrowLeg(p, m, position, amount).m)
<1> DEFINE d == MintDebt(p, m, position, amount).m
           n == BorrowLeg(p, m, position, amount).m
<1>1. Settled(m, n, 0, amount)
  <2>1. BorrowLeg(p, m, position, amount).out = amount
    BY DEF BorrowLeg
  <2> QED
    BY <2>1, BorrowLegSound
<1>2. Sound(n) /\ n.last_timestamp = m.last_timestamp /\ n.cash = m.cash + (0 - amount)
  BY <1>1, Fields, Ranges DEF Settled, Sound
<1>3. MintDebt(p, m, position, amount).ok
  BY DEF BorrowLeg
<1>4. Sound(d) /\ d.cash = m.cash
  BY <1>3, MintDebtSound
<1>5. n = [d EXCEPT !.cash = d.cash - amount] /\ n.cash \in 0..MaxI128
  BY <1>2, Fields DEF BorrowLeg, Sound
<1>6. /\ DebtCeil(m) + amount * p.unit <= DebtCeil(d) /\ ClaimsFloor(d) = ClaimsFloor(m)
      /\ amount * p.unit \in Nat
  BY MintDebtValue
<1> HIDE DEF d, n
<1>7. n = [d EXCEPT !.cash = n.cash]
  BY <1>4, <1>5 DEF Sound, MarketState
<1>8. ClaimsFloor(n) = ClaimsFloor(d) /\ DebtCeil(n) = DebtCeil(d)
  BY <1>4, <1>5, <1>7, CashKeepsValue
<1>9. /\ ClaimsFloor(n) <= ClaimsFloor(m) + 0
      /\ 0 - amount * p.unit <= (0 - amount) * p.unit
  BY <1>6, <1>8, ValueType
<1>10. Covered(p, m, n)
  BY <1>2, <1>6, <1>8, <1>9, CoveredBy
<1> QED
  BY <1>10 DEF n

\* So is what a strategy takes out; its fee stays as claims of the protocol.
LEMMA StrategyLegCovered ==
  ASSUME NEW p \in MarketParams, NEW m, Sound(m), NEW position \in 0..MaxI128, NEW amount \in Nat,
         NEW charge_fee \in BOOLEAN, StrategyLeg(p, m, position, amount, charge_fee).ok
  PROVE  Covered(p, m, StrategyLeg(p, m, position, amount, charge_fee).m)
<1> DEFINE fee == IF charge_fee THEN FlashLoanFeeOn(p.flashloan_fee, amount) ELSE 0
           d == MintDebt(p, m, position, amount).m
           b == AddProtocolRevenue(d, FromAsset(fee, p.unit))
           n == StrategyLeg(p, m, position, amount, charge_fee).m
<1>1. Settled(m, n, 0, amount - fee)
  <2>1. StrategyLeg(p, m, position, amount, charge_fee).out = amount - fee
    BY DEF StrategyLeg
  <2> QED
    BY <2>1, StrategyLegSound, Zenon
<1>2. fee \in Nat /\ p.unit \in Nat \ {0}
  BY FlashFeeType, ZenonT(20) DEF MarketParams
<1>3. MintDebt(p, m, position, amount).ok
  BY ZenonT(20) DEF StrategyLeg
<1>4. Sound(d)
  BY <1>3, MintDebtSound, Zenon
<1>5. /\ DebtCeil(m) + amount * p.unit <= DebtCeil(d) /\ ClaimsFloor(d) = ClaimsFloor(m)
      /\ amount * p.unit \in Nat
  BY MintDebtValue, Zenon
<1>6. n = [b EXCEPT !.cash = b.cash - (amount - fee)]
  BY ZenonT(20) DEF StrategyLeg
<1> HIDE DEF d, n, fee
<1>7. FromAsset(fee, p.unit) \in Nat /\ FromAsset(fee, p.unit) = fee * p.unit
  BY <1>2, AssetType DEF FromAsset
<1>8. Sound(b) /\ ClaimsFloor(b) <= ClaimsFloor(d) + fee * p.unit /\ DebtCeil(b) = DebtCeil(d)
  BY <1>4, <1>7, FeeBookedSound, FeeValue, Zenon DEF FeeBooked
<1> HIDE DEF b
<1>9. Sound(n) /\ n.last_timestamp = m.last_timestamp /\ n.cash = m.cash + (fee - amount)
  BY <1>1, <1>2, Fields, Ranges DEF Settled, Sound
<1>10. n.cash \in 0..MaxI128 /\ n = [b EXCEPT !.cash = n.cash]
  BY <1>6, <1>8, <1>9, Fields DEF Sound, MarketState
<1>11. ClaimsFloor(n) = ClaimsFloor(b) /\ DebtCeil(n) = DebtCeil(b)
  BY <1>8, <1>10, CashKeepsValue, Zenon
<1>12. fee * p.unit - amount * p.unit <= (fee - amount) * p.unit /\ fee * p.unit \in Int
  BY <1>2
<1>13. Covered(p, m, n)
  BY <1>2, <1>5, <1>8, <1>9, <1>11, <1>12, CoveredBy
<1> QED
  BY <1>13 DEF n

\* A withdrawal burns shares worth at least what it takes out of the claims.
LEMMA WithdrawalValue ==
  ASSUME NEW amount \in Nat, NEW scaled \in Nat, NEW unit \in Nat \ {0}, NEW index \in Nat \ {0}
  PROVE  LET r == ResolveWithdrawal(amount, scaled, index, unit)
         IN  (r.gross * unit) * Ray <= r.burned * index
  BY ScaledValue, UnscaledValue DEF ResolveWithdrawal

\* So the claims drop by what leaves the market and by the fee that stays.
LEMMA WithdrawLegCovered ==
  ASSUME NEW p \in MarketParams, NEW m, Sound(m), NEW position \in 0..MaxI128, NEW amount \in Nat,
         NEW is_liquidation \in BOOLEAN, NEW fee \in Nat,
         WithdrawLeg(p, m, position, amount, is_liquidation, fee).ok
  PROVE  Covered(p, m, WithdrawLeg(p, m, position, amount, is_liquidation, fee).m)
<1> DEFINE r == ResolveWithdrawal(amount, position, m.supply_index, p.unit)
           withheld == IF is_liquidation THEN fee ELSE 0
           net == r.gross - withheld
           burnt == [m EXCEPT !.supplied = m.supplied - r.burned]
           b == AddProtocolRevenue(burnt, FromAsset(withheld, p.unit))
           n == WithdrawLeg(p, m, position, amount, is_liquidation, fee).m
<1>1. Settled(m, n, 0, net)
  <2>1. WithdrawLeg(p, m, position, amount, is_liquidation, fee).out = net
    BY DEF WithdrawLeg
  <2> QED
    BY <2>1, WithdrawLegSound, Zenon
<1>2. n = [b EXCEPT !.cash = b.cash - net]
  BY DEF WithdrawLeg
<1>3. r.burned <= m.supplied /\ m.revenue <= m.supplied - r.burned
  BY DEF WithdrawLeg
<1>4. /\ m.supplied \in Nat /\ m.supplied \in 0..MaxI128 /\ m.supply_index \in Nat \ {0}
      /\ p.unit \in Nat \ {0} /\ position \in Nat /\ withheld \in Nat
  BY Fields, Ranges DEF Sound, MarketParams
<1>5. r.burned \in Nat /\ r.gross \in Nat /\ (r.gross * p.unit) * Ray <= r.burned * m.supply_index
  BY <1>4, WithdrawalType, WithdrawalValue, ZenonT(20)
<1>6. PICK g \in Nat, t \in 0..m.supplied : g = r.gross /\ t = r.burned
  BY <1>3, <1>4, <1>5
<1> HIDE DEF r, n, withheld
<1>7. PICK s \in 0..MaxI128 : s = m.supplied - t
  BY <1>4, <1>6, I128Assumption
<1>8. /\ Sound(burnt) /\ burnt.supplied = m.supplied - t /\ burnt.borrowed = m.borrowed
      /\ burnt.borrow_index = m.borrow_index /\ burnt.supply_index = m.supply_index
  BY <1>3, <1>6, <1>7 DEF Sound, MarketState
<1>9. g * p.unit \in Nat /\ (g * p.unit) * Ray <= t * m.supply_index
  BY <1>4, <1>5, <1>6, MulMono
<1>10. ClaimsFloor(burnt) <= ClaimsFloor(m) - g * p.unit /\ DebtCeil(burnt) = DebtCeil(m)
  BY <1>4, <1>8, <1>9, FloorSub DEF ClaimsFloor, DebtCeil
<1> HIDE DEF burnt
<1>11. FromAsset(withheld, p.unit) \in Nat /\ FromAsset(withheld, p.unit) = withheld * p.unit
  BY <1>4, AssetType DEF FromAsset
<1>12. Sound(b) /\ ClaimsFloor(b) <= ClaimsFloor(burnt) + withheld * p.unit /\ DebtCeil(b) = DebtCeil(burnt)
  BY <1>8, <1>11, FeeBookedSound, FeeValue, Zenon DEF FeeBooked
<1> HIDE DEF b
<1>13. Sound(n) /\ n.last_timestamp = m.last_timestamp /\ n.cash = m.cash + (withheld - g)
  BY <1>1, <1>4, <1>6, Fields, Ranges DEF Settled, Sound
<1>14. n.cash \in 0..MaxI128 /\ n = [b EXCEPT !.cash = n.cash]
  BY <1>2, <1>12, <1>13, Fields DEF Sound, MarketState
<1>15. ClaimsFloor(n) = ClaimsFloor(b) /\ DebtCeil(n) = DebtCeil(b)
  BY <1>12, <1>14, CashKeepsValue, Zenon
<1>16. PICK x \in Int : x = withheld * p.unit - g * p.unit /\ x - 0 <= (withheld - g) * p.unit
  BY <1>4
<1>17. ClaimsFloor(n) <= ClaimsFloor(m) + x /\ DebtCeil(m) + 0 <= DebtCeil(n)
  <2>1. ClaimsFloor(m) \in Nat /\ DebtCeil(m) \in Nat /\ ClaimsFloor(burnt) \in Nat /\ ClaimsFloor(b) \in Nat
    BY <1>8, <1>12, ValueType, Zenon
  <2> QED
    BY <1>9, <1>10, <1>12, <1>15, <1>16, <1>11, <2>1
<1>18. Covered(p, m, n)
  BY <1>4, <1>13, <1>16, <1>17, CoveredBy
<1> QED
  BY <1>18 DEF n

\* A repayment burns debt worth at most the tokens the pool keeps.
LEMMA RepayValue ==
  ASSUME NEW amount \in Nat, NEW scaled \in Nat, NEW unit \in Nat \ {0}, NEW index \in Nat \ {0}
  PROVE  LET r == ResolveRepay(amount, scaled, index, unit)
         IN  r.burned * index <= ((amount - r.overpayment) * unit) * Ray
<1> DEFINE debt == UnscaleBorrowCeil(scaled, index, unit)
           part == CalculateScaledBorrowFloor(amount, unit, index)
<1>1. debt \in Nat /\ scaled * index <= (debt * unit) * Ray /\ part * index <= (amount * unit) * Ray
  BY UnscaledType, UnscaledValue, ScaledValue, Zenon
<1>2. ResolveRepay(amount, scaled, index, unit) =
        IF amount >= debt THEN [burned |-> scaled, overpayment |-> amount - debt]
        ELSE [burned |-> part, overpayment |-> 0]
  BY DEF ResolveRepay
<1> HIDE DEF debt, part
<1>3. amount - (amount - debt) = debt /\ amount - 0 = amount
  BY <1>1
<1> QED
  BY <1>1, <1>2, <1>3

\* So the debt drops by no more than the cash grows.
LEMMA RepayLegCovered ==
  ASSUME NEW p \in MarketParams, NEW m, Sound(m), NEW position \in 0..MaxI128, NEW amount \in Nat,
         RepayLeg(p, m, position, amount).ok
  PROVE  Covered(p, m, RepayLeg(p, m, position, amount).m)
<1> DEFINE r == ResolveRepay(amount, position, m.borrow_index, p.unit)
           n == RepayLeg(p, m, position, amount).m
<1>1. Settled(m, n, amount, r.overpayment)
  <2>1. RepayLeg(p, m, position, amount).out = r.overpayment
    BY DEF RepayLeg
  <2> QED
    BY <2>1, RepayLegSound, Zenon
<1>2. n = [m EXCEPT !.borrowed = m.borrowed - r.burned, !.cash = m.cash + (amount - r.overpayment)]
  BY DEF RepayLeg
<1>3. r.burned <= m.borrowed
  BY DEF RepayLeg
<1>4. m.borrowed \in Nat /\ m.borrow_index \in Nat \ {0} /\ p.unit \in Nat \ {0} /\ position \in Nat
  BY Fields, Ranges DEF Sound, MarketParams
<1>5. /\ r.burned \in Nat /\ r.overpayment \in 0..amount
      /\ r.burned * m.borrow_index <= ((amount - r.overpayment) * p.unit) * Ray
  BY <1>4, RepayType, RepayValue, ZenonT(20)
<1>6. PICK t \in 0..m.borrowed, z \in Nat : t = r.burned /\ z = amount - r.overpayment
  BY <1>3, <1>4, <1>5
<1> HIDE DEF r, n
<1>7. Sound(n) /\ n.last_timestamp = m.last_timestamp /\ n.cash = m.cash + z
  BY <1>1, <1>5, <1>6, Fields, Ranges DEF Settled, Sound
<1>8. /\ n.supplied = m.supplied /\ n.borrowed = m.borrowed - t
      /\ n.borrow_index = m.borrow_index /\ n.supply_index = m.supply_index
  BY <1>2, <1>6 DEF Sound, MarketState
<1>9. z * p.unit \in Nat /\ t * m.borrow_index <= (z * p.unit) * Ray
  BY <1>4, <1>5, <1>6, MulMono
<1>10. DebtCeil(m) - z * p.unit <= DebtCeil(n) /\ ClaimsFloor(n) = ClaimsFloor(m)
  BY <1>4, <1>8, <1>9, CeilSub DEF ClaimsFloor, DebtCeil
<1>11. PICK y \in Int : y = 0 - z * p.unit /\ 0 - y <= z * p.unit
  BY <1>9
<1>12. ClaimsFloor(n) <= ClaimsFloor(m) + 0 /\ DebtCeil(m) + y <= DebtCeil(n)
  BY <1>9, <1>10, <1>11, ValueType
<1>13. Covered(p, m, n)
  BY <1>7, <1>11, <1>12, CoveredBy
<1> QED
  BY <1>13 DEF n

\* A net settlement burns claims worth at least, and debt worth at most, what
\* it settles.
LEMMA NetSettleValue ==
  ASSUME NEW amount \in Nat, NEW supply \in Nat, NEW debt \in Nat, NEW unit \in Nat \ {0},
         NEW si \in Nat \ {0}, NEW bi \in Nat \ {0}
  PROVE  LET r == ResolveNetSettle(amount, supply, debt, si, bi, unit)
         IN  \E v \in Nat : v * Ray <= r.supply * si /\ r.debt * bi <= v * Ray
<1> DEFINE floor == UnscaleSupplyFloor(supply, si, unit)
           ceil  == UnscaleBorrowCeil(debt, bi, unit)
           settle == Least(Least(amount, floor), ceil)
           ps == CalculateScaledSupplyCeil(settle, unit, si)
           pd == CalculateScaledBorrowFloor(settle, unit, bi)
           r == ResolveNetSettle(amount, supply, debt, si, bi, unit)
           v == settle * unit
<1>1. /\ floor \in Nat /\ ceil \in Nat
      /\ (floor * unit) * Ray <= supply * si /\ debt * bi <= (ceil * unit) * Ray
  BY UnscaledType, UnscaledValue, ZenonT(20)
<1>2. settle \in Nat /\ settle <= floor
  BY <1>1 DEF Least
<1>3. ps \in Nat /\ pd \in Nat /\ v \in Nat /\ v * Ray <= ps * si /\ pd * bi <= v * Ray
  BY <1>2, ScaledType, ScaledValue, Zenon
<1>4. /\ r.supply = IF settle = 0 THEN 0 ELSE IF settle = floor THEN supply ELSE Least(ps, supply)
      /\ r.debt = IF settle = 0 THEN 0 ELSE IF settle = ceil THEN debt ELSE Least(pd, debt)
  BY DEF ResolveNetSettle
<1> HIDE DEF floor, ceil, settle, ps, pd, r
<1>5. Ray \in Nat /\ floor * unit \in Nat /\ v <= floor * unit
  BY <1>1, <1>2, MulMono, RayAssumption
<1>6. v * Ray <= supply * si
  <2>1. v * Ray <= (floor * unit) * Ray
    BY <1>3, <1>5, MulMono
  <2> HIDE DEF v
  <2> QED
    BY <1>1, <1>3, <1>5, <2>1
<1>7. v * Ray <= r.supply * si
  <2>1. settle = 0 => v * Ray <= 0 * si
    BY <1>5
  <2>2. r.supply \in {ps, supply} \/ (settle = 0 /\ r.supply = 0)
    BY <1>4 DEF Least
  <2> QED
    BY <1>3, <1>6, <2>1, <2>2, Zenon
<1>8. r.debt * bi <= v * Ray
  <2>1. settle = 0 => 0 * bi <= v * Ray
    BY <1>5
  <2>2. settle # 0 /\ settle # ceil => r.debt * bi <= v * Ray
    <3>1. Least(pd, debt) \in Nat /\ Least(pd, debt) <= pd
      BY <1>3 DEF Least
    <3>2. Least(pd, debt) * bi <= pd * bi
      BY <1>3, <3>1, MulMono
    <3>3. Least(pd, debt) * bi <= v * Ray
      <4> HIDE DEF v
      <4> QED
        BY <1>3, <1>5, <3>1, <3>2
    <3> QED
      BY <1>4, <3>3, Zenon
  <2>3. settle # 0 /\ settle = ceil => r.debt * bi <= v * Ray
    BY <1>1, <1>4, Zenon
  <2> QED
    BY <1>4, <2>1, <2>2, <2>3, Zenon
<1> HIDE DEF v
<1> QED
  BY <1>3, <1>7, <1>8 DEF r

\* So a net settlement uncovers no claim.
LEMMA NetSettleLegCovered ==
  ASSUME NEW p \in MarketParams, NEW m, Sound(m), NEW supply \in 0..MaxI128, NEW debt \in 0..MaxI128,
         NEW amount \in Nat, NetSettleLeg(p, m, supply, debt, amount).ok
  PROVE  Covered(p, m, NetSettleLeg(p, m, supply, debt, amount).m)
<1> DEFINE r == ResolveNetSettle(amount, supply, debt, m.supply_index, m.borrow_index, p.unit)
           n == NetSettleLeg(p, m, supply, debt, amount).m
<1>1. Settled(m, n, 0, 0)
  BY NetSettleLegSound, Zenon
<1>2. n = [m EXCEPT !.supplied = m.supplied - r.supply, !.borrowed = m.borrowed - r.debt]
  BY DEF NetSettleLeg
<1>3. r.supply <= m.supplied /\ r.debt <= m.borrowed
  BY DEF NetSettleLeg
<1>4. /\ m.supplied \in Nat /\ m.borrowed \in Nat /\ p.unit \in Nat \ {0}
      /\ m.borrow_index \in Nat \ {0} /\ m.supply_index \in Nat \ {0}
      /\ supply \in Nat /\ debt \in Nat
  BY Fields, Ranges DEF Sound, MarketParams
<1>5. r.supply \in 0..supply /\ r.debt \in 0..debt
  BY <1>4, NetSettleType, ZenonT(20)
<1>6. PICK v \in Nat : v * Ray <= r.supply * m.supply_index /\ r.debt * m.borrow_index <= v * Ray
  BY <1>4, NetSettleValue, ZenonT(20)
<1>7. PICK t \in 0..m.supplied, u \in 0..m.borrowed : t = r.supply /\ u = r.debt
  BY <1>3, <1>4, <1>5
<1> HIDE DEF r, n
<1>8. Sound(n) /\ n.last_timestamp = m.last_timestamp /\ n.cash = m.cash + 0
  BY <1>1, Fields, Ranges DEF Settled, Sound
<1>9. /\ n.supplied = m.supplied - t /\ n.borrowed = m.borrowed - u
      /\ n.borrow_index = m.borrow_index /\ n.supply_index = m.supply_index
  BY <1>2, <1>7 DEF Sound, MarketState
<1>10. ClaimsFloor(n) <= ClaimsFloor(m) - v
  BY <1>4, <1>6, <1>7, <1>9, FloorSub DEF ClaimsFloor
<1>11. DebtCeil(m) - v <= DebtCeil(n)
  BY <1>4, <1>6, <1>7, <1>9, CeilSub DEF DebtCeil
<1>12. PICK x \in Int : x = 0 - v /\ x - x <= 0 * p.unit
  BY <1>4
<1>13. ClaimsFloor(n) <= ClaimsFloor(m) + x /\ DebtCeil(m) + x <= DebtCeil(n)
  BY <1>10, <1>11, <1>12, ValueType
<1>14. Covered(p, m, n)
  BY <1>8, <1>12, <1>13, CoveredBy
<1> QED
  BY <1>14 DEF n

\* A seized deposit changes its owner, not the claims.
LEMMA SeizeDepositLegCovered ==
  ASSUME NEW p \in MarketParams, NEW m, Sound(m), NEW shares \in Nat, SeizeDepositLeg(m, shares).ok
  PROVE  Covered(p, m, SeizeDepositLeg(m, shares).m)
<1> DEFINE n == SeizeDepositLeg(m, shares).m
<1>1. Settled(m, n, 0, 0) /\ n.borrowed = m.borrowed /\ n.supplied = m.supplied
  BY SeizeDepositLegSound, Zenon
<1> HIDE DEF n
<1>2. /\ Sound(n) /\ n.last_timestamp = m.last_timestamp /\ n.cash = m.cash + 0
      /\ ClaimsFloor(n) = ClaimsFloor(m) /\ DebtCeil(n) = DebtCeil(m)
  BY <1>1, Fields, Ranges DEF Settled, Sound, ClaimsFloor, DebtCeil
<1>3. ClaimsFloor(n) <= ClaimsFloor(m) + 0 /\ DebtCeil(m) + 0 <= DebtCeil(n) /\ 0 - 0 <= 0 * p.unit
  BY <1>2, ValueType
<1>4. Covered(p, m, n)
  BY <1>2, <1>3, CoveredBy
<1> QED
  BY <1>4 DEF n

\* Scaling the index of s shares by (total - bad) / total, rounded down twice,
\* takes at least bad off their floored value x / Ray.
LEMMA WriteOffValue ==
  ASSUME NEW x \in Nat, NEW y \in Nat, NEW f \in Nat, NEW total \in Nat \ {0}, NEW bad \in Nat,
         bad < total, f <= total, total <= f + 1, x < Ray * f + Ray,
         total * y <= x * (total - bad)
  PROVE  y < Ray * (f + 1 - bad)
<1>1. Ray \in Nat \ {0} /\ total - bad \in Nat /\ total - bad > 0
  BY RayAssumption
<1>2. CASE Ray * total <= x
  <2>1. bad * (Ray * total) <= bad * x /\ Ray * total \in Nat
    BY <1>1, <1>2, MulMono
  <2>2. x * (total - bad) = total * x - bad * x /\ bad * (Ray * total) = total * (Ray * bad)
    BY <1>1
  <2>3. total * y <= total * (x - Ray * bad)
    BY <1>1, <2>1, <2>2
  <2>4. y <= x - Ray * bad
    <3>1. SUFFICES ASSUME x - Ray * bad < y PROVE FALSE
      BY <1>1
    <3>2. x - Ray * bad + 1 <= y /\ x - Ray * bad \in Int
      BY <1>1, <3>1
    <3>3. y - (x - Ray * bad) - 1 \in Nat
      BY <1>1, <3>2
    <3>4. total * (y - (x - Ray * bad) - 1) \in Nat
      BY <3>3, MulMono
    <3> QED
      BY <1>1, <2>3, <3>2, <3>4
  <2>5. x < Ray * (f + 1) /\ Ray * (f + 1 - bad) = Ray * (f + 1) - Ray * bad
    BY <1>1
  <2> QED
    BY <1>1, <2>4, <2>5
<1>3. CASE x < Ray * total
  <2>1. x + 1 <= Ray * total /\ Ray * total \in Nat
    BY <1>1, <1>3, MulMono
  <2>2. (x + 1) * (total - bad) <= (Ray * total) * (total - bad)
    BY <1>1, <2>1, MulMono
  <2>3. (x + 1) * (total - bad) = x * (total - bad) + (total - bad)
    BY <1>1
  <2>4. (Ray * total) * (total - bad) = total * (Ray * (total - bad))
    BY <1>1
  <2>5. x * (total - bad) \in Int /\ total * y \in Int /\ Ray * (total - bad) \in Int
    BY <1>1
  <2>6. total * y < total * (Ray * (total - bad))
    BY <1>1, <2>2, <2>3, <2>4, <2>5
  <2>7. y < Ray * (total - bad)
    BY <2>5, <2>6, Cancel
  <2>8. total - bad <= f + 1 - bad /\ total - bad \in Nat /\ f + 1 - bad \in Nat
    BY <1>1
  <2>9. Ray * (total - bad) <= Ray * (f + 1 - bad)
    BY <1>1, <2>8, MulMono
  <2> QED
    BY <1>1, <2>5, <2>7, <2>8, <2>9
<1> QED
  BY <1>1, <1>2, <1>3

\* A write-off takes the bad debt off the claims, unless it stops at the floor
\* of the index or there are no claims.
LEMMA BadDebtValue ==
  ASSUME NEW m, Sound(m), NEW bad \in Nat
  PROVE  LET n == ApplyBadDebtToSupplyIndex(m, bad)
         IN  \/ ClaimsFloor(n) <= ClaimsFloor(m) - bad
             \/ n.supply_index = SupplyIndexFloor
             \/ ClaimsFloor(n) = 0
<1> DEFINE s == m.supplied
           i == m.supply_index
           f == RayMulFloor(s, i)
           total == RayMul(s, i)
           remaining == total - Least(bad, total)
           ratio == RayDivFloor(remaining, total)
           reduced == RayMulFloor(i, ratio)
           n == ApplyBadDebtToSupplyIndex(m, bad)
<1>1. m \in MarketState /\ s \in Nat /\ i \in Nat /\ Ray \in Nat \ {0} /\ SupplyIndexFloor \in Nat
  BY Fields, Ranges DEF Sound
<1>2. total \in Nat /\ f \in Nat
  BY <1>1, RayType, ZenonT(20)
<1>3. f <= total /\ total <= f + 1
  BY <1>1, RoundingSpread, ZenonT(20)
<1>4. n = IF total = 0 THEN m ELSE [m EXCEPT !.supply_index = Greatest(reduced, SupplyIndexFloor)]
  BY DEF ApplyBadDebtToSupplyIndex
<1>5. PICK x \in Nat : x = s * i
  BY <1>1, MulMono
<1>6. x < Ray * f + Ray
  BY <1>1, <1>5, Floor, Zenon DEF RayMulFloor
<1> HIDE DEF n, total, f
<1>7. CASE total = 0
  <2>1. f = 0 /\ n = m
    BY <1>2, <1>3, <1>4, <1>7
  <2> QED
    BY <2>1 DEF ClaimsFloor, f, n
<1>8. CASE total # 0
  <2>1. remaining \in Nat /\ total \in Nat \ {0}
    BY <1>2, <1>8 DEF Least
  <2>2. ratio \in Nat /\ total * ratio <= remaining * Ray
    <3> HIDE DEF remaining
    <3> QED
      BY <1>1, <2>1, Floor DEF RayDivFloor
  <2>3. reduced \in Nat /\ Ray * reduced <= i * ratio
    <3> HIDE DEF ratio
    <3> QED
      BY <1>1, <2>2, Floor, Zenon DEF RayMulFloor
  <2>4. n.supplied = s /\ n.supply_index = Greatest(reduced, SupplyIndexFloor)
    BY <1>1, <1>4, <1>8 DEF MarketState
  <2> HIDE DEF ratio, reduced
  <2>5. CASE reduced <= SupplyIndexFloor
    BY <1>1, <2>3, <2>4, <2>5 DEF Greatest, n
  <2>6. CASE reduced > SupplyIndexFloor
    <3>1. n.supply_index = reduced
      BY <1>1, <2>3, <2>4, <2>6 DEF Greatest
    <3>2. bad < total
      <4>1. SUFFICES ASSUME total <= bad PROVE FALSE
        BY <1>2
      <4>2. remaining = 0
        BY <1>2, <4>1 DEF Least
      <4>3. total * ratio <= 0
        BY <1>1, <2>2, <4>2
      <4>4. ratio = 0
        BY <2>1, <2>2, <4>3
      <4> QED
        BY <1>1, <2>3, <2>6, <4>4
    <3>3. remaining = total - bad
      BY <1>2, <3>2 DEF Least
    <3> HIDE DEF remaining
    <3>4. PICK y \in Nat : y = s * reduced
      BY <1>1, <2>3, MulMono
    <3>5. total * y <= x * (total - bad)
      <4>1. Ray * y <= x * ratio
        <5>1. s * (Ray * reduced) <= s * (i * ratio)
          BY <1>1, <2>2, <2>3, MulMono
        <5> QED
          BY <1>1, <1>5, <2>2, <2>3, <3>4, <5>1
      <4>2. total * (Ray * y) <= total * (x * ratio)
        BY <1>1, <2>1, <2>2, <4>1, MulMono
      <4>3. x * (total * ratio) <= x * (remaining * Ray)
        BY <1>1, <2>1, <2>2, MulMono
      <4>4. /\ total * (Ray * y) = Ray * (total * y) /\ total * (x * ratio) = x * (total * ratio)
            /\ x * (remaining * Ray) = Ray * (x * remaining)
        BY <1>1, <2>1, <2>2
      <4>5. Ray * (total * y) <= Ray * (x * remaining) /\ total * y \in Int /\ x * remaining \in Int
        BY <1>1, <2>1, <2>2, <4>2, <4>3, <4>4
      <4>6. Ray * (total * y) < Ray * (x * remaining + 1)
        BY <1>1, <4>5
      <4>7. total * y < x * remaining + 1
        BY <1>1, <4>5, <4>6, Cancel
      <4> QED
        BY <3>3, <4>5, <4>7
    <3>6. y < Ray * (f + 1 - bad)
      BY <1>2, <1>3, <1>6, <2>1, <3>2, <3>5, WriteOffValue, Zenon
    <3>7. RayMulFloor(s, reduced) \in Nat /\ Ray * RayMulFloor(s, reduced) <= y
      BY <1>1, <2>3, <3>4, Floor DEF RayMulFloor
    <3>8. PICK g \in Nat : g = RayMulFloor(s, reduced)
      BY <3>7
    <3>9. Ray * g < Ray * (f + 1 - bad)
      BY <1>1, <1>2, <3>6, <3>7, <3>8
    <3>10. g < f + 1 - bad
      BY <1>1, <1>2, <3>9, Cancel
    <3>11. g <= f - bad
      BY <1>2, <3>10
    <3>12. ClaimsFloor(n) <= ClaimsFloor(m) - bad
      BY <2>4, <3>1, <3>8, <3>11 DEF ClaimsFloor, f
    <3> QED
      BY <3>12 DEF n
  <2> QED
    BY <1>1, <2>3, <2>5, <2>6
<1> QED
  BY <1>7, <1>8

\* A rounded-up product covers the exact one.
LEMMA CeilCovers ==
  ASSUME NEW a \in Nat, NEW b \in Nat
  PROVE  RayMulCeil(a, b) \in Nat /\ a * b <= RayMulCeil(a, b) * Ray
<1> DEFINE c == MulDivCeil(a, b, Ray)
<1>1. c \in Nat /\ a * b <= Ray * c /\ Ray \in Nat
  BY RayAssumption, Ceil
<1>2. RayMulCeil(a, b) = c
  BY DEF RayMulCeil
<1> HIDE DEF c
<1> QED
  BY <1>1, <1>2

\* A write-off stopped short: it hit the floor of the index, or no claims were
\* left to cut.
LEMMA SeizeDebtLegCovered ==
  ASSUME NEW p \in MarketParams, NEW m, Sound(m), NEW position \in Nat, SeizeDebtLeg(m, position).ok
  PROVE  LET n == SeizeDebtLeg(m, position).m
         IN  \/ Covered(p, m, n)
             \/ n.supply_index = SupplyIndexFloor
             \/ ClaimsFloor(n) = 0
<1> DEFINE bad == RayMulCeil(position, m.borrow_index)
           w == ApplyBadDebtToSupplyIndex(m, bad)
           n == SeizeDebtLeg(m, position).m
<1>1. /\ Sound(n) /\ n.borrowed = m.borrowed - position /\ n.cash = m.cash
      /\ n.supplied = m.supplied
      /\ n.last_timestamp = m.last_timestamp /\ n.borrow_index = m.borrow_index
  BY SeizeDebtLegSound, Zenon
<1>2. n = [w EXCEPT !.borrowed = w.borrowed - position] /\ position <= m.borrowed
  BY ZenonT(20) DEF SeizeDebtLeg
<1>3. m.borrowed \in Nat /\ m.borrow_index \in Nat /\ m.cash \in Nat /\ Ray \in Nat \ {0}
  BY Fields, Ranges DEF Sound
<1>4. bad \in Nat /\ position * m.borrow_index <= bad * Ray
  BY <1>3, CeilCovers, Zenon
<1>5. Sound(w) /\ w.supplied = m.supplied
  BY <1>4, BadDebtSound, Zenon
<1>6. \/ ClaimsFloor(w) <= ClaimsFloor(m) - bad
      \/ w.supply_index = SupplyIndexFloor
      \/ ClaimsFloor(w) = 0
  BY <1>4, BadDebtValue, Zenon
<1> HIDE DEF w, n, bad
<1>7. n.supply_index = w.supply_index
  BY <1>2, <1>5 DEF Sound, MarketState
<1>8. ClaimsFloor(n) = ClaimsFloor(w)
  BY <1>1, <1>5, <1>7 DEF ClaimsFloor
<1>9. position \in 0..m.borrowed
  BY <1>2, <1>3
<1>10. DebtCeil(m) - bad <= DebtCeil(n)
  BY <1>1, <1>3, <1>4, <1>9, CeilSub DEF DebtCeil
<1>11. ASSUME ClaimsFloor(w) <= ClaimsFloor(m) - bad
       PROVE  Covered(p, m, n)
  <2>1. PICK x \in Int : x = 0 - bad
    BY <1>4
  <2>2. /\ ClaimsFloor(n) <= ClaimsFloor(m) + x /\ DebtCeil(m) + x <= DebtCeil(n)
        /\ x - x <= 0 * p.unit /\ n.cash = m.cash + 0
    BY <1>1, <1>3, <1>4, <1>8, <1>10, <1>11, <2>1, ValueType
  <2> QED
    BY <1>1, <2>1, <2>2, CoveredBy
<1> QED
  BY <1>6, <1>7, <1>8, <1>11, Zenon DEF n

\* Covering is transitive.
LEMMA CoveredTwice ==
  ASSUME NEW p, NEW m, NEW n, NEW o, Covered(p, m, n), Covered(p, n, o)
  PROVE  Covered(p, m, o)
  BY DEF Covered

\* A market that does not change covers.
LEMMA CoveredNot ==
  ASSUME NEW p \in MarketParams, NEW m, Sound(m)
  PROVE  Covered(p, m, m)
<1>1. Uncovered(p, m) \in Int
  BY ValueType
<1> QED
  BY <1>1 DEF Covered

\* One market of a bad-debt cleanup: the claims fall with the debt, unless the
\* write-off stops short.
LEMMA SeizeMarketCovered ==
  ASSUME NEW p \in MarketParams, NEW s, NEW m, NEW x, NEW y, NEW d \in Nat, NEW b \in Nat,
         SeizePath(s, m, x, y, d, b)
  PROVE  \/ Covered(p, m, y.m)
         \/ b > 0 /\ (y.m.supply_index = SupplyIndexFloor \/ ClaimsFloor(y.m) = 0)
<1>1. Sound(m) /\ m = s.m /\ x.ok /\ y.ok
  BY DEF SeizePath
<1>2. Covered(p, m, x.m) /\ Sound(x.m)
  <2>1. CASE d > 0
    <3>1. x = SeizeDepositLeg(m, d) /\ SeizeDepositLeg(m, d).ok
      BY <2>1, <1>1, Zenon DEF SeizePath
    <3> QED
      BY <1>1, <3>1, SeizeDepositLegCovered, SeizeDepositLegSound, Zenon DEF Settled
  <2>2. CASE ~(d > 0)
    BY <1>1, <2>2, CoveredNot, Zenon DEF SeizePath
  <2> QED
    BY <2>1, <2>2, Zenon
<1>3. CASE b > 0
  <2>1. y = SeizeDebtLeg(x.m, b) /\ SeizeDebtLeg(x.m, b).ok
    BY <1>1, <1>3, Zenon DEF SeizePath
  <2>2. \/ Covered(p, x.m, y.m)
        \/ y.m.supply_index = SupplyIndexFloor
        \/ ClaimsFloor(y.m) = 0
    BY <1>2, <2>1, SeizeDebtLegCovered, Zenon
  <2> QED
    BY <1>2, <1>3, <2>2, CoveredTwice, Zenon
<1>4. CASE ~(b > 0)
  BY <1>2, <1>4, Zenon DEF SeizePath
<1> QED
  BY <1>3, <1>4, Zenon

\* A claim burns revenue worth at least what it pays out.
LEMMA ClaimValue ==
  ASSUME NEW revenue \in Nat, NEW amount \in Nat, NEW treasury \in Nat \ {0},
         NEW unit \in Nat \ {0}, NEW si \in Nat \ {0}, (treasury * unit) * Ray <= revenue * si
  PROVE  (amount * unit) * Ray <= MulDivCeil(revenue, amount, treasury) * si
<1> DEFINE b == MulDivCeil(revenue, amount, treasury)
<1>1. b \in Nat /\ revenue * amount <= treasury * b /\ Ray \in Nat
  BY Ceil, RayAssumption
<1> HIDE DEF b
<1>2. (revenue * amount) * si <= (treasury * b) * si
  BY <1>1, MulMono
<1>3. amount * ((treasury * unit) * Ray) <= amount * (revenue * si)
  BY <1>1, MulMono
<1>4. /\ (revenue * amount) * si = amount * (revenue * si)
      /\ (treasury * b) * si = treasury * (b * si)
      /\ amount * ((treasury * unit) * Ray) = treasury * ((amount * unit) * Ray)
  BY <1>1
<1>5. /\ treasury * ((amount * unit) * Ray) <= treasury * (b * si)
      /\ (amount * unit) * Ray \in Int /\ b * si \in Int
  BY <1>1, <1>2, <1>3, <1>4
<1>6. treasury * ((amount * unit) * Ray) < treasury * (b * si + 1)
  BY <1>5
<1>7. (amount * unit) * Ray < b * si + 1
  BY <1>5, <1>6, Cancel
<1> QED
  BY <1>5, <1>7 DEF b

\* A claim takes no more cash than claims.
LEMMA ClaimRevenueLegCovered ==
  ASSUME NEW p \in MarketParams, NEW m, Sound(m), ClaimRevenueLeg(p, m).ok
  PROVE  Covered(p, m, ClaimRevenueLeg(p, m).m)
<1> DEFINE treasury == UnscaleSupplyFloor(m.revenue, m.supply_index, p.unit)
           amount   == Least(m.cash, treasury)
           burned   == IF amount = 0 THEN 0
                       ELSE IF amount = treasury THEN m.revenue
                       ELSE MulDivCeil(m.revenue, amount, treasury)
           next == [m EXCEPT !.revenue = m.revenue - burned, !.supplied = m.supplied - burned]
           n == ClaimRevenueLeg(p, m).m
<1>1. Settled(m, n, 0, amount)
  <2>1. ClaimRevenueLeg(p, m).out = amount
    BY DEF ClaimRevenueLeg
  <2> QED
    BY <2>1, ClaimRevenueLegSound, Zenon
<1>2. n = [next EXCEPT !.cash = next.cash - amount]
  BY DEF ClaimRevenueLeg
<1>3. burned <= m.supplied
  BY DEF ClaimRevenueLeg
<1>4. /\ m \in MarketState /\ m.supplied \in Nat /\ m.revenue \in Nat /\ m.cash \in Nat
      /\ m.supply_index \in Nat \ {0} /\ p.unit \in Nat \ {0}
  BY Fields, Ranges DEF Sound, MarketParams
<1>5. treasury \in Nat /\ (treasury * p.unit) * Ray <= m.revenue * m.supply_index
  BY <1>4, UnscaledType, UnscaledValue, ZenonT(20)
<1> HIDE DEF treasury, n
<1>6. amount \in Nat /\ amount <= treasury
  BY <1>4, <1>5 DEF Least
<1> HIDE DEF amount
<1>7. burned \in Nat /\ (amount * p.unit) * Ray <= burned * m.supply_index
  <2>1. CASE amount = 0
    BY <1>4, <2>1, RayAssumption
  <2>2. CASE amount # 0 /\ amount = treasury
    BY <1>4, <1>5, <2>2
  <2>3. CASE amount # 0 /\ amount # treasury
    <3>1. treasury \in Nat \ {0}
      BY <1>5, <1>6, <2>3
    <3>2. burned = MulDivCeil(m.revenue, amount, treasury)
      BY <2>3
    <3> QED
      BY <1>4, <1>5, <1>6, <3>1, <3>2, Ceil, ClaimValue, ZenonT(20)
  <2> QED
    BY <2>1, <2>2, <2>3
<1>8. PICK t \in 0..m.supplied : t = burned
  BY <1>3, <1>4, <1>7
<1> HIDE DEF burned
<1>9. /\ n.supplied = m.supplied - t /\ n.borrowed = m.borrowed
      /\ n.borrow_index = m.borrow_index /\ n.supply_index = m.supply_index
  BY <1>2, <1>4, <1>8 DEF MarketState
<1> HIDE DEF next
<1>10. amount * p.unit \in Nat /\ (amount * p.unit) * Ray <= t * m.supply_index
  BY <1>4, <1>6, <1>7, <1>8, MulMono
<1>11. ClaimsFloor(n) <= ClaimsFloor(m) - amount * p.unit /\ DebtCeil(n) = DebtCeil(m)
  BY <1>4, <1>9, <1>10, FloorSub DEF ClaimsFloor, DebtCeil
<1>12. Sound(n) /\ n.last_timestamp = m.last_timestamp /\ n.cash = m.cash + (0 - amount)
  BY <1>1, <1>4, <1>6 DEF Settled
<1>13. PICK x \in Int : x = 0 - amount * p.unit /\ x - 0 <= (0 - amount) * p.unit
  BY <1>4, <1>6
<1>14. ClaimsFloor(n) <= ClaimsFloor(m) + x /\ DebtCeil(m) + 0 <= DebtCeil(n)
  BY <1>10, <1>11, <1>13, ValueType
<1>15. Covered(p, m, n)
  BY <1>6, <1>12, <1>13, <1>14, CoveredBy
<1> QED
  BY <1>15 DEF n

\* A recapitalization adds cash only.
LEMMA RecapitalizeLegCovered ==
  ASSUME NEW p \in MarketParams, NEW m, Sound(m), NEW amount \in Nat, RecapitalizeLeg(p, m, amount).ok
  PROVE  Covered(p, m, RecapitalizeLeg(p, m, amount).m)
<1> DEFINE applied == Least(amount, BackingShortfall(p, m))
           n == RecapitalizeLeg(p, m, amount).m
<1>1. Settled(m, n, amount, amount - applied)
  <2>1. RecapitalizeLeg(p, m, amount).out = amount - applied
    BY DEF RecapitalizeLeg
  <2> QED
    BY <2>1, RecapitalizeLegSound, Zenon
<1>2. n = [m EXCEPT !.cash = m.cash + applied]
  BY DEF RecapitalizeLeg
<1>3. BackingShortfall(p, m) \in Nat
  <2>1. ClaimsFloor(m) \in Nat /\ DebtCeil(m) \in Nat /\ m.cash \in Nat /\ p.unit \in Nat \ {0}
    BY ValueType
  <2>2. CASE ClaimsFloor(m) <= DebtCeil(m)
    BY <2>2 DEF BackingShortfall
  <2>3. CASE ~(ClaimsFloor(m) <= DebtCeil(m))
    <3>1. ClaimsFloor(m) - DebtCeil(m) \in Nat
      BY <2>1, <2>3
    <3>2. ToAssetFloor(ClaimsFloor(m) - DebtCeil(m), p.unit) \in Nat
      BY <2>1, <3>1, AssetType, Zenon
    <3> QED
      BY <2>1, <2>3, <3>2 DEF BackingShortfall, Greatest
  <2> QED
    BY <2>2, <2>3
<1>4. applied \in Nat
  BY <1>3 DEF Least
<1> HIDE DEF applied, n
<1>5. m.cash \in 0..MaxI128 /\ m.cash \in Nat /\ m \in MarketState
  BY Fields, Ranges DEF Sound
<1>6. Sound(n) /\ n.last_timestamp = m.last_timestamp /\ n.cash = m.cash + applied /\ n.cash \in 0..MaxI128
  BY <1>1, <1>2, <1>4, <1>5, Fields DEF Settled, Sound, MarketState
<1>7. ClaimsFloor(n) = ClaimsFloor(m) /\ DebtCeil(n) = DebtCeil(m)
  BY <1>2, <1>6, CashKeepsValue
<1>8. /\ ClaimsFloor(n) <= ClaimsFloor(m) + 0 /\ DebtCeil(m) + 0 <= DebtCeil(n)
      /\ 0 - 0 <= applied * p.unit
  BY <1>4, <1>7, ValueType, MulMono
<1>9. Covered(p, m, n)
  BY <1>4, <1>6, <1>8, CoveredBy
<1> QED
  BY <1>9 DEF n

\* The fee of a flash loan pays for the revenue it becomes.
LEMMA BookFlashFeeCovered ==
  ASSUME NEW p \in MarketParams, NEW m, Sound(m), NEW fee \in Nat, BookFlashFee(p, m, fee).ok
  PROVE  Covered(p, m, BookFlashFee(p, m, fee).m)
<1> DEFINE b == AddProtocolRevenue(m, FromAsset(fee, p.unit))
           n == BookFlashFee(p, m, fee).m
<1>1. Settled(m, n, fee, 0)
  BY BookFlashFeeSound, Zenon
<1>2. n = [b EXCEPT !.cash = b.cash + fee]
  BY DEF BookFlashFee
<1>3. p.unit \in Nat \ {0} /\ m.cash \in Nat
  BY Fields, Ranges DEF Sound, MarketParams
<1>4. FromAsset(fee, p.unit) \in Nat /\ FromAsset(fee, p.unit) = fee * p.unit
  BY <1>3, AssetType DEF FromAsset
<1>5. Sound(b) /\ ClaimsFloor(b) <= ClaimsFloor(m) + fee * p.unit /\ DebtCeil(b) = DebtCeil(m)
  BY <1>4, FeeBookedSound, FeeValue, Zenon DEF FeeBooked
<1> HIDE DEF b, n
<1>6. Sound(n) /\ n.last_timestamp = m.last_timestamp /\ n.cash = m.cash + fee
  BY <1>1, <1>3 DEF Settled
<1>7. n.cash \in 0..MaxI128 /\ n = [b EXCEPT !.cash = n.cash]
  BY <1>2, <1>5, <1>6, Fields DEF Sound, MarketState
<1>8. ClaimsFloor(n) = ClaimsFloor(b) /\ DebtCeil(n) = DebtCeil(b)
  BY <1>5, <1>7, CashKeepsValue, Zenon
<1>9. DebtCeil(m) + 0 <= DebtCeil(n) /\ fee * p.unit - 0 <= fee * p.unit /\ fee * p.unit \in Int
  BY <1>4, <1>5, <1>8, ValueType
<1>10. Covered(p, m, n)
  BY <1>5, <1>6, <1>8, <1>9, CoveredBy
<1> QED
  BY <1>10 DEF n

-----------------------------------------------------------------------------
(* Interest: debt grows by what claims and revenue grow, up to rounding.    *)

\* The shares of a protocol fee are worth at most the fee.
LEMMA FeeSharesValue ==
  ASSUME NEW fee \in Nat, NEW si \in Nat \ {0}, NEW supplied \in 0..MaxI128,
         ProtocolFeeShares(fee, si, supplied) \in Nat
  PROVE  ProtocolFeeShares(fee, si, supplied) * si <= fee * Ray
<1> DEFINE shares == ProtocolFeeShares(fee, si, supplied)
           q == RayDivFloor(fee, si)
<1>1. q \in Nat /\ si * q <= fee * Ray
  BY RayAssumption, Floor, Zenon DEF RayDivFloor
<1>2. shares <= q
  <2> HIDE DEF q
  <2> QED
    BY <1>1, I128Assumption DEF ProtocolFeeShares, Least, q
<1> HIDE DEF shares, q
<1>3. shares * si <= q * si
  BY <1>1, <1>2, MulMono DEF shares
<1>4. shares * si <= fee * Ray
  BY <1>1, <1>3, RayAssumption DEF shares
<1> QED
  BY <1>4 DEF shares

\* What an accrual step does to the claims and to the debt of s and b shares.
LEMMA AccrueStepValue ==
  ASSUME NEW p \in MarketParams, Verify(p),
         NEW b \in 0..MaxI128, NEW s \in 0..MaxI128,
         NEW bi \in Ray..MaxIndex, NEW si \in SupplyIndexFloor..MaxIndex,
         NEW delta \in Nat
  PROVE  LET step == AccrueStep(p, b, s, bi, si, delta)
         IN  \E interest \in Nat :
               /\ RayMulFloor(s + step.revenue_shares, step.supply_index)
                    <= RayMulFloor(s, si) + 1 + interest
               /\ RayMulCeil(b, bi) + interest <= RayMulCeil(b, step.borrow_index) + 1
<1> DEFINE step == AccrueStep(p, b, s, bi, si, delta)
           nb == step.borrow_index
           ns == step.supply_index
           interest == AccruedInterest(b, nb, bi)
           fee == ProtocolFee(p, interest)
           moved == Distributed(s, si, ns)
           reward == fee + ((interest - fee) - moved)
           shares == step.revenue_shares
<1>1. /\ nb \in bi..MaxIndex /\ ns \in si..MaxIndex /\ shares \in 0..(MaxI128 - s)
      /\ 0 <= interest /\ fee \in 0..interest /\ moved \in 0..(interest - fee)
  BY AccrueStepSound, Zenon
<1>2. shares = IF reward = 0 THEN 0 ELSE ProtocolFeeShares(reward, ns, s)
  BY ZenonT(20) DEF AccrueStep, CompoundedBorrowIndex, AccrueInterest, AccrualStep
<1> HIDE DEF step
<1>3. /\ b \in Nat /\ s \in Nat /\ bi \in Nat /\ si \in Nat \ {0} /\ nb \in Nat /\ ns \in Nat \ {0}
      /\ shares \in Nat /\ Ray \in Nat \ {0}
  BY <1>1, Ranges, RayAssumption, IndexAssumption, I128Assumption
<1>4. RayMul(b, bi) \in Nat /\ RayMul(b, nb) \in Nat /\ RayMul(s, si) \in Nat /\ RayMul(s, ns) \in Nat
  BY <1>3, RayType, Zenon
<1>5. interest = RayMul(b, nb) - RayMul(b, bi) /\ moved = RayMul(s, ns) - RayMul(s, si)
  BY DEF AccruedInterest, Distributed
<1> HIDE DEF interest, fee, moved, nb, ns, shares
<1>6. interest \in Nat /\ moved \in Nat /\ reward \in Nat /\ reward = interest - moved
  <2>1. interest \in Nat
    BY <1>1, <1>4, <1>5
  <2> QED
    BY <1>1, <2>1
<1> HIDE DEF reward
<1>7. shares * ns <= reward * Ray
  <2>1. CASE reward = 0
    BY <1>2, <1>3, <2>1
  <2>2. CASE reward # 0
    <3>1. shares = ProtocolFeeShares(reward, ns, s)
      BY <1>2, <2>2
    <3> QED
      BY <1>3, <1>6, <3>1, FeeSharesValue
  <2> QED
    BY <2>1, <2>2
<1>8. RayMulFloor(s + shares, ns) <= RayMulFloor(s, ns) + reward
  BY <1>3, <1>6, <1>7, FloorAdd
<1>9. RayMulFloor(s, ns) <= RayMul(s, ns) /\ RayMul(s, si) <= RayMulFloor(s, si) + 1
  BY <1>3, RoundingSpread
<1>10. RayMulCeil(b, bi) <= RayMul(b, bi) + 1 /\ RayMul(b, nb) <= RayMulCeil(b, nb)
  BY <1>3, RoundingSpread
<1>11. /\ RayMulFloor(s, ns) \in Nat /\ RayMulFloor(s, si) \in Nat /\ RayMulFloor(s + shares, ns) \in Nat
       /\ RayMulCeil(b, bi) \in Nat /\ RayMulCeil(b, nb) \in Nat
  <2>1. s + shares \in Nat
    BY <1>3
  <2>2. RayMulFloor(s, ns) \in Nat /\ RayMulFloor(s, si) \in Nat
    BY <1>3, RayType, Zenon
  <2>3. RayMulFloor(s + shares, ns) \in Nat
    BY <1>3, <2>1, RayType, Zenon
  <2>4. RayMulCeil(b, bi) \in Nat /\ RayMulCeil(b, nb) \in Nat
    BY <1>3, RayType, Zenon
  <2> QED
    BY <2>2, <2>3, <2>4
<1>12. RayMulFloor(s + shares, ns) <= RayMulFloor(s, si) + 1 + interest
  BY <1>4, <1>5, <1>6, <1>8, <1>9, <1>11
<1>13. RayMulCeil(b, bi) + interest <= RayMulCeil(b, nb) + 1
  BY <1>4, <1>5, <1>6, <1>10, <1>11
<1> QED
  BY <1>6, <1>12, <1>13 DEF nb, ns, shares, step

\* One chunk uncovers at most two units of Ray by rounding.
LEMMA AccrueChunkValue ==
  ASSUME NEW p \in MarketParams, Verify(p), NEW m, Sound(m), NEW delta \in Nat
  PROVE  LET c == AccrueChunk(p, m, delta)
         IN  Uncovered(p, c.m) \in Int /\ Uncovered(p, c.m) <= Uncovered(p, m) + 2
<1> DEFINE step == AccrueStep(p, m.borrowed, m.supplied, m.borrow_index, m.supply_index, delta)
           n == AccrueChunk(p, m, delta).m
<1>1. /\ m \in MarketState /\ m.supplied \in 0..MaxI128 /\ m.borrowed \in 0..MaxI128
      /\ m.borrow_index \in Ray..MaxIndex /\ m.supply_index \in SupplyIndexFloor..MaxIndex
  BY Fields DEF Sound
<1>2. Sound(n) /\ n.cash = m.cash
  BY AccrueChunkSound, Zenon DEF Accrued
<1>3. PICK moved : moved = [m EXCEPT !.borrow_index = step.borrow_index,
                                     !.supply_index = step.supply_index]
  OBVIOUS
<1>4. n = AccrueRevenue(moved, step.revenue_shares)
  BY <1>3 DEF AccrueChunk, ApplyStep
<1>5. PICK i \in Nat :
        /\ RayMulFloor(m.supplied + step.revenue_shares, step.supply_index)
             <= RayMulFloor(m.supplied, m.supply_index) + 1 + i
        /\ RayMulCeil(m.borrowed, m.borrow_index) + i <= RayMulCeil(m.borrowed, step.borrow_index) + 1
  BY <1>1, AccrueStepValue, Zenon
<1> HIDE DEF step, n
<1>6. n = [moved EXCEPT !.revenue = moved.revenue + step.revenue_shares,
                        !.supplied = moved.supplied + step.revenue_shares]
  BY <1>4 DEF AccrueRevenue
<1>7. moved = Mk(m.supplied, m.borrowed, m.revenue, step.borrow_index, step.supply_index,
                 m.last_timestamp, m.cash)
  BY <1>1, <1>3, ZenonT(20) DEF MarketState, Mk
<1>8. /\ n.supplied = m.supplied + step.revenue_shares /\ n.borrowed = m.borrowed
      /\ n.borrow_index = step.borrow_index /\ n.supply_index = step.supply_index
  BY <1>6, <1>7 DEF Mk
<1>9. ClaimsFloor(n) <= ClaimsFloor(m) + 1 + i /\ DebtCeil(m) + i <= DebtCeil(n) + 1
  BY <1>5, <1>8 DEF ClaimsFloor, DebtCeil
<1>10. /\ ClaimsFloor(m) \in Nat /\ DebtCeil(m) \in Nat /\ m.cash * p.unit \in Nat
       /\ ClaimsFloor(n) \in Nat /\ DebtCeil(n) \in Nat
  BY <1>2, ValueType
<1>11. Uncovered(p, n) \in Int /\ Uncovered(p, n) <= Uncovered(p, m) + 2
  BY <1>2, <1>9, <1>10 DEF Uncovered
<1> QED
  BY <1>11 DEF n

-----------------------------------------------------------------------------
(* Sums.  Totals of the books and of the cash are sums of a function over a *)
(* finite set (SumFunctionOnSet), which the library defines by a recursive  *)
(* function that removes a chosen element.  The function exists, the choice *)
(* does not matter, and a sum changes with some of its values as expected.  *)

\* An element of u, the one the library's fold removes.
Pick(u) == CHOOSE x \in u : TRUE

\* g sums f over every set of U.
SumsOn(g, f, U) ==
  g = [u \in U |-> IF u = {} THEN 0 ELSE f[Pick(u)] + g[u \ {Pick(u)}]]

\* The fold behind SumFunctionOnSet is a recursive function on the subsets of
\* S.
LEMMA SumUnfold ==
  ASSUME NEW f, NEW S
  PROVE  SumFunctionOnSet(f, S) = (CHOOSE g : SumsOn(g, f, SUBSET S))[S]
  BY DEF SumFunctionOnSet, FoldFunctionOnSet, MapThenFoldSet, SumsOn, Pick

\* Induction on the naturals, for a set.
LEMMA SetInduction ==
  ASSUME NEW T, 0 \in T, \A n \in Nat : n \in T => n + 1 \in T
  PROVE  Nat \subseteq T
<1> DEFINE C == Nat \ T
<1> SUFFICES ASSUME C # {} PROVE FALSE
  OBVIOUS
<1>1. PICK n \in C : \A k \in C : ~(<<k, n>> \in OpToRel(<, Nat))
  BY WFMin, NatLessThanWellFounded, Zenon
<1>2. n # 0 /\ n - 1 \in Nat /\ n - 1 < n
  OBVIOUS
<1>3. n - 1 \notin C
  BY <1>1, <1>2, Zenon DEF OpToRel
<1>4. n \in T
  BY <1>2, <1>3
<1> QED
  BY <1>4

\* CHOOSE picks an element of a set that is not empty.
LEMMA PickInSet ==
  ASSUME NEW u, u # {}
  PROVE  Pick(u) \in u
  BY DEF Pick

\* The recursive function of the sum exists.
LEMMA SumExists ==
  ASSUME NEW f, NEW S, IsFiniteSet(S)
  PROVE  \E g : SumsOn(g, f, SUBSET S)
<1> DEFINE U(n) == {u \in SUBSET S : Cardinality(u) <= n}
           T    == {n \in Nat : \E g : SumsOn(g, f, U(n))}
<1>0. \A u \in SUBSET S : IsFiniteSet(u) /\ Cardinality(u) \in Nat
  BY FS_Subset, FS_CardinalityType
<1>1. 0 \in T
  <2>1. \A u \in U(0) : u = {}
    BY <1>0, FS_EmptySet
  <2>2. SumsOn([u \in U(0) |-> 0], f, U(0))
    BY <2>1 DEF SumsOn
  <2> QED
    BY <2>2, Zenon
<1>2. ASSUME NEW n \in Nat, n \in T
      PROVE  n + 1 \in T
  <2>1. PICK g : SumsOn(g, f, U(n))
    BY <1>2
  <2> DEFINE h == [u \in U(n + 1) |->
                     IF u = {} THEN 0 ELSE f[Pick(u)] + g[u \ {Pick(u)}]]
  <2>2. \A u \in U(n + 1) : u # {} => u \ {Pick(u)} \in U(n)
    BY <1>0, FS_RemoveElement, PickInSet
  <2>3. ASSUME NEW u \in U(n)
        PROVE  u \in U(n + 1) /\ h[u] = g[u]
    <3>1. u \in U(n + 1)
      BY <1>0
    <3>2. g[u] = IF u = {} THEN 0 ELSE f[Pick(u)] + g[u \ {Pick(u)}]
      BY <2>1, Zenon DEF SumsOn
    <3> QED
      BY <3>1, <3>2
  <2>4. h = [u \in U(n + 1) |-> IF u = {} THEN 0 ELSE f[Pick(u)] + h[u \ {Pick(u)}]]
    BY <2>2, <2>3, Zenon
  <2>5. \E k : SumsOn(k, f, U(n + 1))
    BY <2>4, Zenon DEF SumsOn
  <2>6. n + 1 \in Nat
    OBVIOUS
  <2> HIDE DEF U, h
  <2> QED
    BY <2>5, <2>6
<1>3. Cardinality(S) \in T
  <2> HIDE DEF T
  <2>1. Nat \subseteq T
    BY <1>1, <1>2, SetInduction
  <2> QED
    BY <2>1, <1>0
<1>4. U(Cardinality(S)) = SUBSET S
  BY <1>0, FS_Subset
<1> QED
  BY <1>3, <1>4
Covers(U, R) == SUBSET R \subseteq U

\* Two such functions agree wherever the summed values do.
LEMMA SumAgree ==
  ASSUME NEW R, IsFiniteSet(R), NEW U, Covers(U, R),
         NEW f, NEW g, SumsOn(g, f, U),
         NEW f2, NEW g2, SumsOn(g2, f2, SUBSET R),
         \A x \in R : f[x] = f2[x]
  PROVE  \A u \in SUBSET R : g[u] = g2[u]
<1> DEFINE Agree(n) == \A u \in SUBSET R : Cardinality(u) <= n => g[u] = g2[u]
           T == {n \in Nat : Agree(n)}
<1>0. \A u \in SUBSET R : IsFiniteSet(u) /\ Cardinality(u) \in Nat
  BY FS_Subset, FS_CardinalityType
<1>1. \A u \in SUBSET R :
        /\ g[u] = IF u = {} THEN 0 ELSE f[Pick(u)] + g[u \ {Pick(u)}]
        /\ g2[u] = IF u = {} THEN 0 ELSE f2[Pick(u)] + g2[u \ {Pick(u)}]
  BY Zenon DEF SumsOn, Covers
<1>2. Agree(0)
  <2> SUFFICES ASSUME NEW u \in SUBSET R, Cardinality(u) <= 0
               PROVE  g[u] = g2[u]
    OBVIOUS
  <2>1. IsFiniteSet(u) /\ Cardinality(u) = 0
    BY <1>0
  <2>2. u = {}
    BY <2>1, FS_EmptySet
  <2> QED
    BY <1>1, <2>2
<1>3. ASSUME NEW n \in Nat, Agree(n)
      PROVE  Agree(n + 1)
  <2> SUFFICES ASSUME NEW u \in SUBSET R, Cardinality(u) <= n + 1
               PROVE  g[u] = g2[u]
    OBVIOUS
  <2>1. CASE u = {}
    BY <1>1, <2>1, Zenon
  <2>2. CASE u # {}
    <3>0. Pick(u) \in u
      BY <2>2, PickInSet, Zenon
    <3>1. u \ {Pick(u)} \in SUBSET R /\ Cardinality(u \ {Pick(u)}) <= n
      BY <1>0, <2>2, <3>0, FS_RemoveElement
    <3>2. g[u \ {Pick(u)}] = g2[u \ {Pick(u)}]
      BY <1>3, <3>1
    <3>3. f[Pick(u)] = f2[Pick(u)]
      BY <3>0
    <3> QED
      BY <1>1, <2>2, <3>2, <3>3
  <2> QED
    BY <2>1, <2>2
<1>4. Nat \subseteq T
  <2>1. 0 \in T /\ \A n \in Nat : n \in T => n + 1 \in T
    <3> HIDE DEF Agree
    <3> QED
      BY <1>2, <1>3
  <2> HIDE DEF T
  <2> QED
    BY <2>1, SetInduction
<1>5. ASSUME NEW u \in SUBSET R
      PROVE  g[u] = g2[u]
  <2>1. Agree(Cardinality(u))
    <3> HIDE DEF Agree
    <3> QED
      BY <1>0, <1>4
  <2>2. Cardinality(u) <= Cardinality(u)
    BY <1>0
  <2> QED
    BY <2>1, <2>2
<1> QED
  BY <1>5

\* The sum is what the recursive function says.
LEMMA SumIs ==
  ASSUME NEW f, NEW S, IsFiniteSet(S)
  PROVE  \E g : SumsOn(g, f, SUBSET S) /\ SumFunctionOnSet(f, S) = g[S]
  BY SumUnfold, SumExists, Zenon

\* Only the values on the set count.
LEMMA SumCongruence ==
  ASSUME NEW f, NEW f2, NEW S, IsFiniteSet(S), \A x \in S : f[x] = f2[x]
  PROVE  SumFunctionOnSet(f, S) = SumFunctionOnSet(f2, S)
<1>1. PICK g : SumsOn(g, f, SUBSET S) /\ SumFunctionOnSet(f, S) = g[S]
  BY SumIs, Zenon
<1>2. PICK g2 : SumsOn(g2, f2, SUBSET S) /\ SumFunctionOnSet(f2, S) = g2[S]
  BY SumIs, Zenon
<1>3. Covers(SUBSET S, S)
  BY DEF Covers
<1>4. \A u \in SUBSET S : g[u] = g2[u]
  BY <1>1, <1>2, <1>3, SumAgree
<1> QED
  BY <1>1, <1>2, <1>4

\* The recursive function for S gives the sum over every subset of S.
LEMMA SumRestrict ==
  ASSUME NEW S, IsFiniteSet(S), NEW R \in SUBSET S,
         NEW f, NEW g, SumsOn(g, f, SUBSET S)
  PROVE  SumFunctionOnSet(f, R) = g[R]
<1>0. PICK f2 : f2 = f
  OBVIOUS
<1>1. PICK g2 : SumsOn(g2, f2, SUBSET R) /\ SumFunctionOnSet(f, R) = g2[R]
  BY <1>0, SumIs, FS_Subset, Zenon
<1>2. \A x \in R : f[x] = f2[x]
  BY <1>0
<1>3. IsFiniteSet(R) /\ Covers(SUBSET S, R)
  BY FS_Subset DEF Covers
<1>4. \A u \in SUBSET R : g[u] = g2[u]
  BY <1>1, <1>2, <1>3, SumAgree
<1> QED
  BY <1>1, <1>4

\* Nothing to add.
LEMMA SumEmpty ==
  ASSUME NEW f
  PROVE  SumFunctionOnSet(f, {}) = 0
<1>1. PICK g : SumsOn(g, f, SUBSET {}) /\ SumFunctionOnSet(f, {}) = g[{}]
  BY SumIs, FS_EmptySet, Zenon
<1> QED
  BY <1>1 DEF SumsOn
\* The order of summation does not matter: any element can be taken out.
LEMMA SumRemove ==
  ASSUME NEW S, IsFiniteSet(S), NEW f, \A x \in S : f[x] \in Int,
         NEW x \in S
  PROVE  /\ SumFunctionOnSet(f, S) \in Int
         /\ SumFunctionOnSet(f, S) = f[x] + SumFunctionOnSet(f, S \ {x})
<1>1. PICK g : SumsOn(g, f, SUBSET S) /\ SumFunctionOnSet(f, S) = g[S]
  BY SumIs, Zenon
<1>2. PICK g2 : SumsOn(g2, f, SUBSET (S \ {x})) /\ SumFunctionOnSet(f, S \ {x}) = g2[S \ {x}]
  BY SumIs, FS_Subset, Zenon
<1>3. g2[S \ {x}] = g[S \ {x}]
  <2>1. S \ {x} \in SUBSET S
    OBVIOUS
  <2> QED
    BY <1>1, <1>2, <2>1, SumRestrict
<1> DEFINE Good(n) == \A u \in SUBSET S : Cardinality(u) <= n =>
                        /\ g[u] \in Int
                        /\ \A y \in u : g[u] = f[y] + g[u \ {y}]
           T == {n \in Nat : Good(n)}
<1>4. \A u \in SUBSET S : IsFiniteSet(u) /\ Cardinality(u) \in Nat
  BY FS_Subset, FS_CardinalityType, Zenon
<1>5. \A u \in SUBSET S : g[u] = IF u = {} THEN 0 ELSE f[Pick(u)] + g[u \ {Pick(u)}]
  BY <1>1, Zenon DEF SumsOn
<1>6. \A u \in SUBSET S : \A y \in u : Cardinality(u \ {y}) = Cardinality(u) - 1
  BY <1>4, FS_RemoveElement, Zenon
<1>7. Good(0)
  <2> SUFFICES ASSUME NEW u \in SUBSET S, Cardinality(u) <= 0
               PROVE  /\ g[u] \in Int
                      /\ \A y \in u : g[u] = f[y] + g[u \ {y}]
    OBVIOUS
  <2>1. IsFiniteSet(u) /\ Cardinality(u) = 0
    BY <1>4
  <2>2. u = {}
    BY <2>1, FS_EmptySet, Zenon
  <2> QED
    BY <1>5, <2>2
<1>8. ASSUME NEW n \in Nat, Good(n)
      PROVE  Good(n + 1)
  <2> SUFFICES ASSUME NEW u \in SUBSET S, Cardinality(u) <= n + 1
               PROVE  /\ g[u] \in Int
                      /\ \A y \in u : g[u] = f[y] + g[u \ {y}]
    OBVIOUS
  <2> SUFFICES ASSUME u # {}
               PROVE  /\ g[u] \in Int
                      /\ \A y \in u : g[u] = f[y] + g[u \ {y}]
    BY <1>5
  <2> DEFINE c == Pick(u)
  <2>1. c \in u
    BY PickInSet
  <2> HIDE DEF c
  <2>2. ASSUME NEW y \in u
        PROVE  /\ u \ {y} \in SUBSET S
               /\ Cardinality(u \ {y}) <= n
               /\ g[u \ {y}] \in Int
               /\ \A z \in u \ {y} : g[u \ {y}] = f[z] + g[(u \ {y}) \ {z}]
    <3>1. u \ {y} \in SUBSET S
      OBVIOUS
    <3>2. Cardinality(u) \in Nat /\ Cardinality(u \ {y}) = Cardinality(u) - 1
      BY <1>4, <1>6
    <3>3. Cardinality(u \ {y}) <= n
      BY <3>2
    <3> QED
      BY <1>8, <3>1, <3>3, Zenon
  <2>3. g[u] = f[c] + g[u \ {c}]
    BY <1>5 DEF c
  <2>4. g[u] \in Int
    BY <2>1, <2>2, <2>3
  <2>5. ASSUME NEW y \in u
        PROVE  g[u] = f[y] + g[u \ {y}]
    <3>1. CASE y = c
      BY <2>3, <3>1, Zenon
    <3>2. CASE y # c
      <4>1. g[u \ {c}] = f[y] + g[(u \ {c}) \ {y}]
        BY <2>1, <2>2, <3>2, Zenon
      <4>2. g[u \ {y}] = f[c] + g[(u \ {y}) \ {c}]
        BY <2>1, <2>2, <3>2, Zenon
      <4>3. (u \ {c}) \ {y} = (u \ {y}) \ {c}
        OBVIOUS
      <4>4. g[(u \ {c}) \ {y}] \in Int
        <5>1. (u \ {c}) \ {y} \in SUBSET S
          OBVIOUS
        <5>2. /\ Cardinality(u \ {c}) \in Nat /\ Cardinality(u \ {c}) <= n
              /\ Cardinality((u \ {c}) \ {y}) = Cardinality(u \ {c}) - 1
          BY <1>4, <1>6, <2>1, <2>2, <3>2, Zenon
        <5>3. Cardinality((u \ {c}) \ {y}) <= n
          BY <5>2
        <5> QED
          BY <1>8, <5>1, <5>3
      <4>5. f[y] \in Int /\ f[c] \in Int
        BY <2>1
      <4> QED
        <5> DEFINE w == g[(u \ {y}) \ {c}]
        <5>1. /\ w \in Int /\ g[u \ {c}] = f[y] + w /\ g[u \ {y}] = f[c] + w
          BY <4>1, <4>2, <4>3, <4>4, Zenon
        <5> HIDE DEF w
        <5>2. g[u] = f[c] + (f[y] + w)
          BY <2>3, <5>1
        <5> QED
          BY <5>1, <5>2, <4>5
    <3> QED
      BY <3>1, <3>2
  <2> QED
    BY <2>4, <2>5, Zenon
<1>9. Good(Cardinality(S))
  <2>1. 0 \in T /\ \A n \in Nat : n \in T => n + 1 \in T
    <3> HIDE DEF Good
    <3> QED
      BY <1>7, <1>8
  <2>2. Nat \subseteq T
    <3> HIDE DEF T
    <3> QED
      BY <2>1, SetInduction
  <2> HIDE DEF Good
  <2> QED
    BY <1>4, <2>2
<1>10. Cardinality(S) <= Cardinality(S)
  BY <1>4
<1> QED
  BY <1>1, <1>2, <1>3, <1>9, <1>10, Zenon
\* A sum of integers is an integer.
LEMMA SumType ==
  ASSUME NEW S, IsFiniteSet(S), NEW f, \A x \in S : f[x] \in Int
  PROVE  SumFunctionOnSet(f, S) \in Int
<1>1. CASE S = {}
  BY <1>1, SumEmpty
<1>2. CASE S # {}
  BY <1>2, SumRemove, Zenon
<1> QED
  BY <1>1, <1>2

\* A batch changes the values on M by in - out: so does the sum.
LEMMA SumBatch ==
  ASSUME NEW S, IsFiniteSet(S), NEW M \in SUBSET S,
         NEW f, NEW g, NEW in, NEW out,
         \A x \in S : f[x] \in Int,
         \A x \in M : in[x] \in Int /\ out[x] \in Int /\ g[x] = f[x] + in[x] - out[x],
         \A x \in S \ M : g[x] = f[x]
  PROVE  SumFunctionOnSet(g, S) =
           SumFunctionOnSet(f, S) + SumFunctionOnSet(in, M) - SumFunctionOnSet(out, M)
<1> DEFINE Sum(h, u) == SumFunctionOnSet(h, u)
           Claim(u) == Sum(g, u) = Sum(f, u) + Sum(in, u \cap M) - Sum(out, u \cap M)
           Good(n) == \A u \in SUBSET S : Cardinality(u) = n => Claim(u)
           T == {n \in Nat : Good(n)}
<1>1. \A u \in SUBSET S : IsFiniteSet(u) /\ Cardinality(u) \in Nat
  BY FS_Subset, FS_CardinalityType
<1>2. Good(0)
  <2> SUFFICES ASSUME NEW u \in SUBSET S, Cardinality(u) = 0 PROVE Claim(u)
    OBVIOUS
  <2>1. u = {} /\ u \cap M = {}
    BY <1>1, FS_EmptySet, Zenon
  <2> QED
    BY <2>1, SumEmpty
<1>3. ASSUME NEW n \in Nat, Good(n)
      PROVE  Good(n + 1)
  <2> SUFFICES ASSUME NEW u \in SUBSET S, Cardinality(u) = n + 1 PROVE Claim(u)
    OBVIOUS
  <2>1. PICK x \in u : TRUE
    BY FS_EmptySet
  <2> DEFINE v == u \ {x}
  <2>2. v \in SUBSET S /\ IsFiniteSet(u) /\ IsFiniteSet(v) /\ Cardinality(v) = n
    BY <1>1, FS_RemoveElement
  <2>3. Claim(v)
    BY <1>3, <2>2, Zenon
  <2>4. \A y \in S : g[y] \in Int
    <3> SUFFICES ASSUME NEW y \in S PROVE g[y] \in Int
      OBVIOUS
    <3>1. CASE y \in M
      BY <3>1
    <3>2. CASE y \notin M
      BY <3>2, Zenon
    <3> QED
      BY <3>1, <3>2
  <2>5. Sum(f, u) = f[x] + Sum(f, v) /\ Sum(f, v) \in Int
    <3>1. \A y \in u : f[y] \in Int
      OBVIOUS
    <3>2. \A y \in v : f[y] \in Int
      BY Zenon
    <3> QED
      BY <2>2, <3>1, <3>2, SumRemove, SumType, Zenon
  <2>6. Sum(g, u) = g[x] + Sum(g, v) /\ Sum(g, v) \in Int
    <3>1. \A y \in u : g[y] \in Int
      BY <2>4
    <3>2. \A y \in v : g[y] \in Int
      BY <2>4, Zenon
    <3> QED
      BY <2>2, <3>1, <3>2, SumRemove, SumType, ZenonT(30)
  <2>7. Sum(in, v \cap M) \in Int /\ Sum(out, v \cap M) \in Int
    <3>1. IsFiniteSet(v \cap M)
      BY <1>1
    <3>2. \A y \in v \cap M : in[y] \in Int
      OBVIOUS
    <3>3. \A y \in v \cap M : out[y] \in Int
      BY Zenon
    <3> QED
      BY <3>1, <3>2, <3>3, SumType, Zenon
  <2>8. CASE x \in M
    <3>1. IsFiniteSet(u \cap M) /\ x \in u \cap M /\ (u \cap M) \ {x} = v \cap M
      BY <1>1, <2>8, Zenon
    <3>2. \A y \in u \cap M : in[y] \in Int
      OBVIOUS
    <3>3. \A y \in u \cap M : out[y] \in Int
      BY Zenon
    <3>4. Sum(in, u \cap M) = in[x] + Sum(in, v \cap M)
      BY <3>1, <3>2, SumRemove
    <3>5. Sum(out, u \cap M) = out[x] + Sum(out, v \cap M)
      BY <3>1, <3>3, SumRemove
    <3>6. g[x] = f[x] + in[x] - out[x] /\ in[x] \in Int /\ out[x] \in Int /\ f[x] \in Int
      BY <2>8, Zenon
    <3> QED
      BY ONLY <2>3, <2>5, <2>6, <2>7, <3>4, <3>5, <3>6
  <2>9. CASE x \notin M
    <3>1. u \cap M = v \cap M
      BY <2>9
    <3>2. g[x] = f[x] /\ f[x] \in Int
      BY <2>9
    <3> QED
      BY ONLY <2>3, <2>5, <2>6, <2>7, <3>1, <3>2
  <2> QED
    BY <2>8, <2>9, Zenon
<1>4. Good(Cardinality(S))
  <2>1. 0 \in T /\ \A n \in Nat : n \in T => n + 1 \in T
    <3> HIDE DEF Good
    <3> QED
      BY <1>2, <1>3
  <2>2. Nat \subseteq T
    <3> HIDE DEF T
    <3> QED
      BY <2>1, SetInduction
  <2> HIDE DEF Good
  <2> QED
    BY <1>1, <2>2, Zenon
<1>5. S \cap M = M /\ S \in SUBSET S
  OBVIOUS
<1> QED
  BY <1>4, <1>5
\* One value changes.
LEMMA SumUpdate ==
  ASSUME NEW S, IsFiniteSet(S), NEW f, NEW g, NEW x \in S,
         \A y \in S : f[y] \in Int, g[x] \in Int,
         \A y \in S \ {x} : g[y] = f[y]
  PROVE  SumFunctionOnSet(g, S) = SumFunctionOnSet(f, S) - f[x] + g[x]
<1> DEFINE R == S \ {x}
<1>1. IsFiniteSet(R)
  BY FS_Subset, Zenon
<1>2. SumFunctionOnSet(f, S) = f[x] + SumFunctionOnSet(f, R)
  BY SumRemove
<1>3. \A y \in S : g[y] \in Int
  OBVIOUS
<1>4. SumFunctionOnSet(g, S) = g[x] + SumFunctionOnSet(g, R)
  BY <1>3, SumRemove, Zenon
<1>5. SumFunctionOnSet(g, R) = SumFunctionOnSet(f, R)
  <2>1. \A y \in R : g[y] = f[y]
    OBVIOUS
  <2> HIDE DEF R
  <2> QED
    BY <1>1, <2>1, SumCongruence
<1>6. SumFunctionOnSet(f, R) \in Int /\ f[x] \in Int
  BY <1>1, SumType, Zenon
<1> QED
  BY <1>2, <1>4, <1>5, <1>6

\* A sum of naturals is a natural, and zero when all of them are.
LEMMA SumNat ==
  ASSUME NEW S, IsFiniteSet(S), NEW f, \A x \in S : f[x] \in Nat
  PROVE  /\ SumFunctionOnSet(f, S) \in Nat
         /\ (\A x \in S : f[x] = 0) => SumFunctionOnSet(f, S) = 0
<1> DEFINE Claim(u) == /\ SumFunctionOnSet(f, u) \in Nat
                       /\ (\A x \in u : f[x] = 0) => SumFunctionOnSet(f, u) = 0
           Good(n) == \A u \in SUBSET S : Cardinality(u) = n => Claim(u)
           T == {n \in Nat : Good(n)}
<1>1. \A u \in SUBSET S : IsFiniteSet(u) /\ Cardinality(u) \in Nat
  BY FS_Subset, FS_CardinalityType
<1>2. Good(0)
  <2> SUFFICES ASSUME NEW u \in SUBSET S, Cardinality(u) = 0
               PROVE  Claim(u)
    OBVIOUS
  <2>1. u = {}
    BY <1>1, FS_EmptySet, Zenon
  <2> QED
    BY <2>1, SumEmpty
<1>3. ASSUME NEW n \in Nat, Good(n)
      PROVE  Good(n + 1)
  <2> SUFFICES ASSUME NEW u \in SUBSET S, Cardinality(u) = n + 1
               PROVE  Claim(u)
    OBVIOUS
  <2>1. PICK x \in u : TRUE
    BY FS_EmptySet
  <2>2. IsFiniteSet(u) /\ \A y \in u : f[y] \in Int
    BY <1>1
  <2>3. u \ {x} \in SUBSET S
    OBVIOUS
  <2>4. Cardinality(u \ {x}) = n
    <3>1. Cardinality(u \ {x}) = Cardinality(u) - 1
      BY <2>2, FS_RemoveElement, Zenon
    <3> QED
      BY <3>1
  <2>5. Claim(u \ {x})
    BY <1>3, <2>3, <2>4
  <2>6. SumFunctionOnSet(f, u) = f[x] + SumFunctionOnSet(f, u \ {x})
    BY <2>2, SumRemove
  <2> QED
    BY <2>5, <2>6
<1>4. Good(Cardinality(S))
  <2>1. 0 \in T /\ \A n \in Nat : n \in T => n + 1 \in T
    <3> HIDE DEF Good
    <3> QED
      BY <1>2, <1>3
  <2>2. Nat \subseteq T
    <3> HIDE DEF T
    <3> QED
      BY <2>1, SetInduction
  <2> HIDE DEF Good
  <2> QED
    BY <1>1, <2>2
<1>5. S \in SUBSET S
  OBVIOUS
<1> QED
  BY <1>4, <1>5

-----------------------------------------------------------------------------
(* A sync, chunk by chunk.                                                  *)

\* G steps inside S, and f is the recursion along G from x, n steps long.
StepsIn(G, n, S)   == \A k \in 1..n, s \in S : G[<<k, s>>] \in S
Follows(f, G, x, n, S) ==
  f \in [0..n -> S] /\ f[0] = x /\ \A k \in 1..n : f[k] = G[<<k, f[k-1]>>]

\* A finite recursion with a step function has a solution.
LEMMA FiniteRecursion ==
  ASSUME NEW S, NEW x \in S, NEW n \in Nat, NEW G, StepsIn(G, n, S)
  PROVE  \E f : Follows(f, G, x, n, S)
<1> USE DEF StepsIn, Follows
<1> DEFINE Solves(f, j) == Follows(f, G, x, j, S)
           T == {j \in Nat : j <= n => \E f : Solves(f, j)}
<1>1. 0 \in T
  <2>1. Solves([i \in 0..0 |-> x], 0)
    OBVIOUS
  <2> QED
    BY <2>1, Zenon
<1>2. ASSUME NEW j \in Nat, j \in T
      PROVE  j + 1 \in T
  <2> SUFFICES ASSUME j + 1 <= n
               PROVE  \E f : Solves(f, j + 1)
    OBVIOUS
  <2>1. PICK f : Solves(f, j)
    BY <1>2
  <2> DEFINE g == [i \in 0..(j+1) |-> IF i = j + 1 THEN G[<<j + 1, f[j]>>] ELSE f[i]]
  <2>2. j + 1 \in 1..n /\ f[j] \in S /\ G[<<j + 1, f[j]>>] \in S
    BY <2>1
  <2>3. g \in [0..(j+1) -> S] /\ g[0] = x
    BY <2>1, <2>2
  <2>4. ASSUME NEW k \in 1..(j+1)
        PROVE  g[k] = G[<<k, g[k-1]>>]
    <3>1. CASE k = j + 1
      <4>1. j \in 0..(j+1) /\ j # j + 1 /\ j + 1 \in 0..(j+1) /\ k - 1 = j
        BY <3>1
      <4>2. g[j] = f[j] /\ g[j+1] = G[<<j + 1, f[j]>>]
        BY <4>1
      <4> QED
        BY <3>1, <4>1, <4>2, Zenon
    <3>2. CASE k \in 1..j
      <4>1. k - 1 \in 0..(j+1) /\ k - 1 # j + 1 /\ k # j + 1 /\ k \in 0..(j+1)
        BY <3>2
      <4>2. g[k] = f[k] /\ g[k-1] = f[k-1]
        BY <4>1
      <4> QED
        BY <4>2, <3>2, <2>1, Zenon
    <3> QED
      BY <3>1, <3>2
  <2> QED
    BY <2>3, <2>4, Zenon
<1>3. n \in T
  <2> HIDE DEF T
  <2>1. Nat \subseteq T
    BY <1>1, <1>2, SetInduction, Zenon
  <2> QED
    BY <2>1
<1> QED
  BY <1>3

\* So is accruing over all the chunks of an interval.
LEMMA SyncChunksSound ==
  ASSUME NEW p \in MarketParams, Verify(p), NEW m, Sound(m), NEW elapsed \in Nat
  PROVE  LET r == SyncChunks(p, m, elapsed)
         IN  /\ r.ok \in BOOLEAN /\ Accrued(m, r.m) /\ r.m.last_timestamp = m.last_timestamp
             /\ Uncovered(p, r.m) \in Int
             /\ Uncovered(p, r.m) <= Uncovered(p, m) + 2 * ChunkCount(elapsed)
<1> DEFINE n == ChunkCount(elapsed)
           start == [ok |-> TRUE, m |-> m]
           Step(k, r) == LET c == AccrueChunk(p, r.m, Chunk(elapsed, k))
                         IN  [ok |-> r.ok /\ c.ok, m |-> c.m]
           IsAfter(g) == g = [k \in 0..n |-> IF k = 0 THEN start ELSE Step(k, g[k-1])]
           S == {r \in [ok : BOOLEAN, m : MarketState] :
                   Accrued(m, r.m) /\ r.m.last_timestamp = m.last_timestamp}
<1>1. n \in Nat
  BY ChunkCountType
<1>2. start \in S
  BY AccruedNot DEF Sound
<1>3. ASSUME NEW k \in 1..n, NEW r \in S
      PROVE  Step(k, r) \in S
  <2> DEFINE c == AccrueChunk(p, r.m, Chunk(elapsed, k))
  <2>1. Sound(r.m) /\ Accrued(m, r.m) /\ r.m.last_timestamp = m.last_timestamp /\ r.ok \in BOOLEAN
    BY DEF Accrued
  <2>2. Chunk(elapsed, k) \in Nat
    BY ChunkType
  <2>3. c.ok \in BOOLEAN /\ Accrued(r.m, c.m) /\ c.m.last_timestamp = r.m.last_timestamp
    BY <2>1, <2>2, AccrueChunkSound, Zenon
  <2>4. Accrued(m, c.m) /\ c.m \in MarketState
    BY <2>1, <2>3, AccruedTwice, Zenon DEF Accrued, Sound
  <2>5. (r.ok /\ c.ok) \in BOOLEAN
    BY <2>1, <2>3, Zenon
  <2> HIDE DEF c
  <2>6. [ok |-> r.ok /\ c.ok, m |-> c.m] \in S
    BY <2>1, <2>3, <2>4, <2>5, Zenon
  <2> QED
    BY <2>6 DEF c
<1>4. SyncChunks(p, m, elapsed) = (CHOOSE g : IsAfter(g))[n]
  BY DEF SyncChunks, Then
<1> HIDE DEF n, start, Step, S
<1>5. \E g : IsAfter(g)
  <2> DEFINE G == [x \in (1..n) \X S |-> Step(x[1], x[2])]
  <2>1. StepsIn(G, n, S)
    BY <1>3 DEF StepsIn
  <2> HIDE DEF G
  <2>2. PICK f : Follows(f, G, start, n, S)
    BY <1>1, <1>2, <2>1, FiniteRecursion, Zenon
  <2> USE DEF Follows
  <2>3. ASSUME NEW k \in 1..n
        PROVE  f[k] = Step(k, f[k-1])
    <3>1. k - 1 \in 0..n
      BY <1>1
    <3>2. f[k-1] \in S
      BY <3>1, <2>2, Zenon
    <3> QED
      BY <3>2, <2>2, Zenon DEF G
  <2>4. f = [k \in 0..n |-> IF k = 0 THEN start ELSE Step(k, f[k-1])]
    <3>1. \A k \in 0..n : f[k] = IF k = 0 THEN start ELSE Step(k, f[k-1])
      BY <2>2, <2>3, <1>1
    <3> QED
      BY <2>2, <3>1, Zenon
  <2> QED
    BY <2>4, Zenon
<1>6. PICK after : IsAfter(after) /\ SyncChunks(p, m, elapsed) = after[n]
  BY <1>4, <1>5, Zenon
<1>7. ASSUME NEW k \in 1..n, NEW r \in S, Uncovered(p, r.m) <= Uncovered(p, m) + 2 * (k - 1)
      PROVE  Uncovered(p, Step(k, r).m) <= Uncovered(p, m) + 2 * k
  <2> DEFINE c == AccrueChunk(p, r.m, Chunk(elapsed, k))
  <2>1. Sound(r.m) /\ Chunk(elapsed, k) \in Nat
    BY ChunkType, Zenon DEF S, Accrued, n
  <2>2. Uncovered(p, c.m) \in Int /\ Uncovered(p, c.m) <= Uncovered(p, r.m) + 2
    BY <2>1, AccrueChunkValue, Zenon
  <2>3. Uncovered(p, r.m) \in Int /\ Uncovered(p, m) \in Int
    BY <2>1, ValueType, Zenon
  <2>4. Step(k, r).m = c.m
    BY DEF Step
  <2>5. k \in Int
    BY <1>1
  <2> HIDE DEF c
  <2>6. Uncovered(p, c.m) <= Uncovered(p, m) + 2 * k
    BY <1>7, <2>2, <2>3, <2>5
  <2> QED
    BY <2>4, <2>6, Zenon
<1>8. after[n] \in S /\ Uncovered(p, after[n].m) <= Uncovered(p, m) + 2 * n
  <2> DEFINE Bounded(k) == after[k] \in S /\ Uncovered(p, after[k].m) <= Uncovered(p, m) + 2 * k
             T == {k \in Nat : k <= n => Bounded(k)}
  <2>1. 0 \in T
    <3>1. after[0] = start /\ start.m = m
      BY <1>1, <1>6 DEF start
    <3>2. Uncovered(p, m) \in Int
      BY ValueType
    <3> QED
      BY <1>2, <3>1, <3>2
  <2>2. ASSUME NEW k \in Nat, k \in T
        PROVE  k + 1 \in T
    <3> SUFFICES ASSUME k + 1 <= n PROVE Bounded(k + 1)
      OBVIOUS
    <3>1. k + 1 \in 1..n /\ k + 1 \in 0..n /\ k + 1 # 0 /\ (k + 1) - 1 = k /\ k <= n
      BY <1>1
    <3>2. after[k+1] = Step(k + 1, after[k])
      BY <1>6, <3>1, Zenon
    <3>3. after[k] \in S /\ Uncovered(p, after[k].m) <= Uncovered(p, m) + 2 * ((k + 1) - 1)
      BY <2>2, <3>1, Zenon
    <3>4. after[k+1] \in S
      BY <1>3, <3>1, <3>2, <3>3, Zenon
    <3>5. Uncovered(p, after[k+1].m) <= Uncovered(p, m) + 2 * (k + 1)
      BY <1>7, <3>1, <3>2, <3>3, Zenon
    <3> QED
      BY <3>4, <3>5, Zenon
  <2> HIDE DEF T
  <2>3. Nat \subseteq T
    BY <2>1, <2>2, SetInduction, Zenon
  <2>4. n \in T /\ n <= n
    BY <1>1, <2>3
  <2> QED
    BY <2>4, Zenon DEF T
<1>9. Sound(after[n].m)
  BY <1>8, Zenon DEF S, Accrued
<1>10. Uncovered(p, after[n].m) \in Int
  BY <1>9, ValueType, Zenon
<1> QED
  BY <1>6, <1>8, <1>10, Zenon DEF S, n

\* A sync only adds interest, and never turns the clock of a market back.
LEMMA GlobalSyncSound ==
  ASSUME NEW p \in MarketParams, Verify(p), NEW m, Sound(m), NEW time \in Nat,
         m.last_timestamp <= time
  PROVE  LET r == GlobalSync(p, m, time)
         IN  /\ r.ok \in BOOLEAN /\ Accrued(m, r.m) /\ r.m.last_timestamp = time
             /\ Uncovered(p, r.m) \in Int
             /\ Uncovered(p, r.m) <= Uncovered(p, m) + 2 * ChunkCount(time - m.last_timestamp)
<1> DEFINE elapsed == time - m.last_timestamp
           last    == SyncChunks(p, m, elapsed)
           r == GlobalSync(p, m, time)
<1>1. m.last_timestamp \in Nat /\ elapsed \in Nat
  BY Fields DEF Sound
<1>2. CASE elapsed = 0
  <2>1. r = [ok |-> TRUE, m |-> m]
    BY <1>2 DEF GlobalSync
  <2>2. Uncovered(p, m) \in Int /\ ChunkCount(elapsed) \in Nat
    BY <1>1, ValueType, ChunkCountType, Zenon
  <2>3. Uncovered(p, m) <= Uncovered(p, m) + 2 * ChunkCount(elapsed)
    BY <2>2
  <2> QED
    BY <1>1, <1>2, <2>1, <2>2, <2>3, AccruedNot
<1>3. CASE elapsed > 0
  <2>1. r = [ok |-> last.ok, m |-> [last.m EXCEPT !.last_timestamp = time]]
    BY <1>1, <1>3 DEF GlobalSync, SetTimestamp
  <2>2. /\ last.ok \in BOOLEAN /\ Accrued(m, last.m)
        /\ Uncovered(p, last.m) \in Int
        /\ Uncovered(p, last.m) <= Uncovered(p, m) + 2 * ChunkCount(elapsed)
    BY <1>1, SyncChunksSound, Zenon
  <2>3. PICK l : l = last.m
    OBVIOUS
  <2>4. PICK n : n = [l EXCEPT !.last_timestamp = time]
    BY Zenon
  <2> HIDE DEF last, r
  <2>5. l \in MarketState /\ Accrued(m, l)
    BY <2>2, <2>3, Zenon DEF Accrued, Sound
  <2>6. /\ n \in MarketState /\ n.last_timestamp = time
        /\ n.supplied = l.supplied /\ n.borrowed = l.borrowed /\ n.revenue = l.revenue
        /\ n.cash = l.cash /\ n.borrow_index = l.borrow_index /\ n.supply_index = l.supply_index
    BY <2>4, <2>5, Zenon DEF MarketState
  <2>7. Accrued(m, n)
    BY <2>5, <2>6, Zenon DEF Accrued, Sound
  <2>8. r.ok = last.ok /\ r.m = n
    BY <2>1, <2>3, <2>4, Zenon
  <2>9. Uncovered(p, n) = Uncovered(p, last.m)
    BY <2>3, <2>6, Zenon DEF Uncovered, ClaimsFloor, DebtCeil
  <2> QED
    BY <2>2, <2>6, <2>7, <2>8, <2>9, Zenon DEF r
<1>4. elapsed = 0 \/ elapsed > 0
  BY <1>1
<1> HIDE DEF elapsed, last, r
<1> QED
  BY <1>2, <1>3, <1>4, Zenon
=============================================================================
