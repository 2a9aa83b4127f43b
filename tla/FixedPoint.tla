----------------------------- MODULE FixedPoint -----------------------------
(***************************************************************************)
(* The integer arithmetic every contract shares: common/src/math.  Ray     *)
(* values are naturals scaled by Ray, rates in basis points are scaled by  *)
(* Bps, and a token amount of a market with `unit' Ray per base unit is    *)
(* converted by multiplying or dividing by `unit' (10^(27 - decimals)).    *)
(* The code works in i128 and traps on overflow: Fits is that bound, and   *)
(* the operations that can reach it carry it as a guard.  The values the   *)
(* contracts pass here are never negative, so the signed branches of       *)
(* fp_core are not reachable and are left out.                             *)
(***************************************************************************)
EXTENDS Integers

CONSTANTS
  Ray,      \* constants/shared.rs: RAY, one unit at 27 decimals
  Bps,      \* constants/shared.rs: BPS, 100% in basis points
  MaxI128   \* i128::MAX, also the "withdraw everything" sentinel

ASSUME RayAssumption  == Ray \in Nat \ {0}
ASSUME BpsAssumption  == Bps \in Nat \ {0}
ASSUME I128Assumption == MaxI128 \in Nat /\ MaxI128 >= Ray

Least(a, b)    == IF a <= b THEN a ELSE b
Greatest(a, b) == IF a >= b THEN a ELSE b

\* A value the code can hold in an i128 (checked_add, to_i128 trap otherwise).
Fits(x) == x <= MaxI128

-----------------------------------------------------------------------------
(* fp_core: x * y / d in the three rounding directions.                     *)

MulDivHalfUp(x, y, d) == (x * y + d \div 2) \div d
MulDivFloor(x, y, d)  == (x * y) \div d
MulDivCeil(x, y, d)   == (x * y + (d - 1)) \div d

\* Division by a plain integer: up when the remainder reaches ceil(n / 2).
DivByIntHalfUp(a, n) ==
  IF a % n >= (n \div 2) + (n % 2) THEN (a \div n) + 1 ELSE a \div n

-----------------------------------------------------------------------------
(* fp: Ray.                                                                 *)

RayMul(a, b)      == MulDivHalfUp(a, b, Ray)
RayMulFloor(a, b) == MulDivFloor(a, b, Ray)
RayMulCeil(a, b)  == MulDivCeil(a, b, Ray)
RayDiv(a, b)      == MulDivHalfUp(a, Ray, b)
RayDivFloor(a, b) == MulDivFloor(a, Ray, b)
RayDivCeil(a, b)  == MulDivCeil(a, Ray, b)

FromAsset(amount, unit)  == amount * unit
ToAsset(ray, unit)       == DivByIntHalfUp(ray, unit)
ToAssetFloor(ray, unit)  == ray \div unit
ToAssetCeil(ray, unit)   == IF ray % unit # 0 THEN (ray \div unit) + 1 ELSE ray \div unit

-----------------------------------------------------------------------------
(* fp: Bps.                                                                 *)

BpsOf(rate, value) == MulDivHalfUp(value, rate, Bps)

\* A positive rate never rounds to a free flash loan.
FlashLoanFeeOn(rate, amount) ==
  IF rate > 0 /\ BpsOf(rate, amount) = 0 THEN 1 ELSE BpsOf(rate, amount)
=============================================================================
