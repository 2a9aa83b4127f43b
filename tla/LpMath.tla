------------------------------- MODULE LpMath -------------------------------
(***************************************************************************)
(* The fair value of a liquidity-pool share: common/src/oracle/lp.rs       *)
(* (constant product), lp_stable.rs (two-coin StableSwap) and the amount   *)
(* conversions of observation.rs.  A leg is a record                       *)
(* [reserve, decimals, price] and a supply [shares, decimals].  The        *)
(* Err(InvalidPrice) of the code is NoPrice.                               *)
(***************************************************************************)
EXTENDS FixedPoint

CONSTANTS
  WadDecimals,          \* WAD_DECIMALS; WAD is 10^WadDecimals
  MaxU256,              \* the largest U256: a product above it is an error
  MaxAmp,               \* MAX_AMP
  MaxNormalizedReserve, \* MAX_NORMALIZED_RESERVE_WAD
  MaxDIterations,       \* MAX_D_ITERATIONS
  NoPrice

Wad == 10^WadDecimals

\* observation.rs: a price and an amount brought to WAD.
TryNormalizePositivePrice(price, decimals) ==
  IF price > 0 /\ decimals <= WadDecimals /\ Fits(price * 10^(WadDecimals - decimals))
  THEN price * 10^(WadDecimals - decimals) ELSE NoPrice

TryAmountToWad(amount, decimals) ==
  IF decimals <= WadDecimals /\ Fits(amount * 10^(WadDecimals - decimals))
  THEN amount * 10^(WadDecimals - decimals) ELSE NoPrice

-----------------------------------------------------------------------------
(* lp.rs.                                                                   *)

\* u128::isqrt of the standard library.
Isqrt(n) == CHOOSE r \in 0..n : r * r <= n /\ (r + 1) * (r + 1) > n

\* Newton's method from above: stop at the first step that does not descend.

RECURSIVE Newton(_, _)
NewtonFrom(n, x, y) == IF y < x THEN Newton(n, y) ELSE x
Newton(n, x) == NewtonFrom(n, x, (x + n \div x) \div 2)

IsqrtOfProduct(a, b) ==
  IF a * b <= 1 THEN a * b ELSE Newton(a * b, (Isqrt(a) + 1) * (Isqrt(b) + 1))

ReserveValue(leg) ==
  IF Fits(MulDivHalfUp(leg.reserve, leg.price, 10^leg.decimals))
  THEN MulDivHalfUp(leg.reserve, leg.price, 10^leg.decimals) ELSE NoPrice

PositiveLegs(a, b, supply) ==
  /\ a.reserve > 0 /\ b.reserve > 0 /\ a.price > 0 /\ b.price > 0 /\ supply.shares > 0

Representable(x) == IF Fits(x) THEN x ELSE NoPrice

FairOfValues(va, vb, shares) ==
  IF NoPrice \in {va, vb, shares} \/ shares = 0 THEN NoPrice
  ELSE Representable((2 * IsqrtOfProduct(va, vb) * Wad) \div shares)

FairLpPrice(a, b, supply) ==
  IF ~PositiveLegs(a, b, supply) THEN NoPrice
  ELSE FairOfValues(ReserveValue(a), ReserveValue(b), TryAmountToWad(supply.shares, supply.decimals))

-----------------------------------------------------------------------------
(* lp_stable.rs.                                                            *)

\* Mutant: d_p enters the divisor twice, not once more than there are coins.
DStepShortDivisor(d, sum, ann, small, large) ==
  LET dp == (((d * d) \div (2 * small)) * d) \div (2 * large)
  IN  <<dp, (ann * sum + 2 * dp) * d, (ann - 1) * d + 2 * dp>>

\* One Newton step: d_p, the numerator and the denominator.
DStep(d, sum, ann, small, large) ==
  LET dp == (((d * d) \div (2 * small)) * d) \div (2 * large)
  IN  <<dp, (ann * sum + 2 * dp) * d, (ann - 1) * d + 3 * dp>>

StepFits(step, d, small) ==
  /\ ((d * d) \div (2 * small)) * d <= MaxU256
  /\ step[2] <= MaxU256

RECURSIVE IterateD(_, _, _, _, _, _)
DAfter(step, d, sum, ann, small, large, fuel) ==
  CASE ~StepFits(step, d, small) -> NoPrice
    [] StepFits(step, d, small) /\ Greatest(step[2] \div step[3], d) - Least(step[2] \div step[3], d) <= 1
         -> step[2] \div step[3]
    [] OTHER -> IterateD(step[2] \div step[3], sum, ann, small, large, fuel - 1)
IterateD(d, sum, ann, small, large, fuel) ==
  IF fuel = 0 THEN NoPrice
  ELSE DAfter(DStep(d, sum, ann, small, large), d, sum, ann, small, large, fuel)

SolveStableD(xa, xb, amp) ==
  IF xa <= 0 \/ xb <= 0 \/ amp \notin 1..MaxAmp
     \/ Greatest(xa, xb) > MaxNormalizedReserve
  THEN NoPrice
  ELSE IterateD(xa + xb, xa + xb, 2 * amp, Least(xa, xb), Greatest(xa, xb), MaxDIterations)

FairOfInvariant(d, price, shares) ==
  IF NoPrice \in {d, shares} \/ shares = 0 THEN NoPrice
  ELSE Representable((d * price) \div shares)

FairStableLpPrice(a, b, supply, amp) ==
  LET xa == TryAmountToWad(a.reserve, a.decimals)
      xb == TryAmountToWad(b.reserve, b.decimals)
  IN  IF ~PositiveLegs(a, b, supply) \/ NoPrice \in {xa, xb} THEN NoPrice
      ELSE FairOfInvariant(SolveStableD(xa, xb, amp), Least(a.price, b.price),
                           TryAmountToWad(supply.shares, supply.decimals))
=============================================================================
