------------------------------ MODULE PoolLaws ------------------------------
(***************************************************************************)
(* What a sync and each leg of the pool promise to the operation that runs *)
(* them: they keep a market sound, and they move shares, debt and cash by  *)
(* exactly what they report to the controller.  PoolLegsProofs derives the *)
(* laws from the definitions of the legs; the proofs about whole           *)
(* operations use the laws only.                                           *)
(***************************************************************************)
EXTENDS PoolLegs

-----------------------------------------------------------------------------
(* Markets.                                                                 *)

\* A market whose totals are in range and whose revenue is part of its supply.
Sound(m) == m \in MarketState /\ m.revenue <= m.supplied

\* n is m with interest added: neither debt shares, nor cash, nor the shares of
\* the depositors moved, and both indexes grew.
Accrued(m, n) ==
  /\ Sound(n)
  /\ n.borrowed = m.borrowed /\ n.cash = m.cash
  /\ n.supplied - n.revenue = m.supplied - m.revenue
  /\ n.supplied >= m.supplied
  /\ n.borrow_index >= m.borrow_index /\ n.supply_index >= m.supply_index

-----------------------------------------------------------------------------
(* What happens to a market.                                                *)

\* A leg keeps the market well formed and its indexes, moves as much cash as
\* tokens, and leaves no debt behind when the last share goes.
Settled(m, n, in, out) ==
  /\ Sound(n) /\ n.last_timestamp = m.last_timestamp
  /\ n.borrow_index = m.borrow_index /\ n.supply_index = m.supply_index
  /\ out \in Nat /\ n.cash = m.cash + in - out
  /\ m.supplied > 0 /\ n.supplied = 0 => n.borrowed = 0

\* The deposit (the debt) of one account and the total move together.
DepositMoves(m, n, old, new) ==
  /\ new \in 0..MaxI128
  /\ n.borrowed = m.borrowed
  /\ (n.supplied - n.revenue) - (m.supplied - m.revenue) = new - old

DebtMoves(m, n, old, new) ==
  /\ new \in 0..MaxI128
  /\ n.supplied - n.revenue = m.supplied - m.revenue
  /\ n.borrowed - m.borrowed = new - old

\* Claims and recapitalizations leave the books of the users alone.
BooksKept(m, n) == n.borrowed = m.borrowed /\ n.supplied - n.revenue = m.supplied - m.revenue

\* A leg leaves no more claims uncovered than it found.
Covered(p, m, n) ==
  /\ n.last_timestamp = m.last_timestamp
  /\ Uncovered(p, m) \in Int /\ Uncovered(p, n) \in Int
  /\ Uncovered(p, n) <= Uncovered(p, m)

-----------------------------------------------------------------------------
(* The laws.                                                                *)

\* A sync only adds interest, and never turns the clock of a market back.
SyncLaw ==
  \A p \in MarketParams, time \in Nat : \A m :
    Verify(p) /\ Sound(m) /\ m.last_timestamp <= time =>
      /\ GlobalSync(p, m, time).ok \in BOOLEAN
      /\ Accrued(m, GlobalSync(p, m, time).m)
      /\ GlobalSync(p, m, time).m.last_timestamp = time

\* Supply mints what it adds to the position and credits what it takes in.
SupplyLegLaw ==
  \A p \in MarketParams, position \in 0..MaxI128, amount \in Nat : \A m :
    LET leg == SupplyLeg(p, m, position, amount)
    IN  Sound(m) /\ leg.ok =>
          Settled(m, leg.m, amount, leg.out) /\ DepositMoves(m, leg.m, position, leg.position)

\* Borrow mints what it adds to the debt and debits what it pays out.
BorrowLegLaw ==
  \A p \in MarketParams, position \in 0..MaxI128, amount \in Nat : \A m :
    LET leg == BorrowLeg(p, m, position, amount)
    IN  Sound(m) /\ leg.ok =>
          Settled(m, leg.m, 0, leg.out) /\ DebtMoves(m, leg.m, position, leg.position)

\* So does the borrow of a strategy, whose fee stays in the market.
StrategyLegLaw ==
  \A p \in MarketParams, position \in 0..MaxI128, amount \in Nat, charge_fee \in BOOLEAN : \A m :
    LET leg == StrategyLeg(p, m, position, amount, charge_fee)
    IN  Sound(m) /\ leg.ok =>
          Settled(m, leg.m, 0, leg.out) /\ DebtMoves(m, leg.m, position, leg.position)

\* Withdraw burns what it takes off the position and debits what it pays out.
WithdrawLegLaw ==
  \A p \in MarketParams, position \in 0..MaxI128, amount \in Nat, liquidation \in BOOLEAN, fee \in Nat :
    \A m :
      LET leg == WithdrawLeg(p, m, position, amount, liquidation, fee)
      IN  Sound(m) /\ leg.ok =>
            Settled(m, leg.m, 0, leg.out) /\ DepositMoves(m, leg.m, position, leg.position)

\* Repay burns what it takes off the debt; the overpayment goes back.
RepayLegLaw ==
  \A p \in MarketParams, position \in 0..MaxI128, amount \in Nat : \A m :
    LET leg == RepayLeg(p, m, position, amount)
    IN  Sound(m) /\ leg.ok =>
          Settled(m, leg.m, amount, leg.out) /\ DebtMoves(m, leg.m, position, leg.position)

\* A net settlement burns on both sides and moves no tokens.
NetSettleLegLaw ==
  \A p \in MarketParams, supply, debt \in 0..MaxI128, amount \in Nat : \A m :
    LET leg == NetSettleLeg(p, m, supply, debt, amount)
    IN  Sound(m) /\ leg.ok =>
          /\ Settled(m, leg.m, 0, 0)
          /\ leg.supply \in 0..MaxI128 /\ leg.debt \in 0..MaxI128
          /\ (leg.m.supplied - leg.m.revenue) - (m.supplied - m.revenue) = leg.supply - supply
          /\ leg.m.borrowed - m.borrowed = leg.debt - debt

\* A seized deposit becomes revenue.
SeizeDepositLegLaw ==
  \A shares \in Nat : \A m :
    LET n == SeizeDepositLeg(m, shares).m
    IN  Sound(m) /\ SeizeDepositLeg(m, shares).ok =>
          /\ Settled(m, n, 0, 0) /\ n.borrowed = m.borrowed /\ n.supplied = m.supplied
          /\ n.supplied - n.revenue = m.supplied - m.revenue - shares

\* The two legs a bad-debt cleanup takes in a market, and what they leave.
SeizePath(s, m, x, y, d, b) ==
  /\ m = s.m /\ Sound(m)
  /\ x = (IF d > 0 THEN SeizeDepositLeg(m, d) ELSE s) /\ x.ok
  /\ y = (IF b > 0 THEN SeizeDebtLeg(x.m, b) ELSE x) /\ y.ok

Seized(m, n, d, b) ==
  /\ Sound(n) /\ n.last_timestamp = m.last_timestamp /\ n.cash = m.cash
  /\ n.borrow_index = m.borrow_index /\ n.supplied = m.supplied
  /\ (b = 0 => n.supply_index = m.supply_index)
  /\ n.supplied - n.revenue = m.supplied - m.revenue - d
  /\ n.borrowed = m.borrowed - b

\* One market of a bad-debt cleanup: a seized deposit becomes revenue, a seized
\* debt leaves the total; only a seized debt may lower the supply index.
SeizeMarketLaw ==
  \A d, b \in Nat : \A s, m, x, y : SeizePath(s, m, x, y, d, b) => Seized(m, y.m, d, b)

\* A claim burns revenue shares only and pays out what it debits.
ClaimRevenueLegLaw ==
  \A p \in MarketParams : \A m :
    LET leg == ClaimRevenueLeg(p, m)
    IN  Sound(m) /\ leg.ok => Settled(m, leg.m, 0, leg.out) /\ BooksKept(m, leg.m)

\* A recapitalization credits what it keeps and mints nothing.
RecapitalizeLegLaw ==
  \A p \in MarketParams, amount \in Nat : \A m :
    LET leg == RecapitalizeLeg(p, m, amount)
    IN  Sound(m) /\ leg.ok => Settled(m, leg.m, amount, leg.out) /\ BooksKept(m, leg.m)

\* The fee of a flash loan becomes cash and revenue.
BookFlashFeeLaw ==
  \A p \in MarketParams, fee \in Nat : \A m :
    LET n == BookFlashFee(p, m, fee).m
    IN  Sound(m) /\ BookFlashFee(p, m, fee).ok =>
          Settled(m, n, fee, 0) /\ BooksKept(m, n) /\ n.supplied >= m.supplied

\* A new market is sound, and the fee of a flash loan is a number of tokens.
NewMarketLaw == \A time \in Nat : Sound(NewMarket(time))
FlashFeeLaw  == \A rate, amount \in Nat : FlashLoanFeeOn(rate, amount) \in Nat

LegLaws ==
  /\ SupplyLegLaw /\ BorrowLegLaw /\ StrategyLegLaw /\ WithdrawLegLaw /\ RepayLegLaw
  /\ NetSettleLegLaw /\ SeizeDepositLegLaw /\ SeizeMarketLaw
  /\ ClaimRevenueLegLaw /\ RecapitalizeLegLaw /\ BookFlashFeeLaw /\ NewMarketLaw /\ FlashFeeLaw
=============================================================================
