------------------------------ MODULE PoolLegs ------------------------------
(***************************************************************************)
(* What one pool call does to one market: contracts/pool/src, the ops, the *)
(* guards, interest and the Cache.  A leg takes the parameters p, the      *)
(* market m (synced to the current time where the code syncs it first),    *)
(* the scaled position the controller passes in, and the amounts.  It      *)
(* returns a record:                                                       *)
(*   ok        FALSE where the code panics (the whole transaction reverts) *)
(*   m         the market that is committed                                *)
(*   position  the position handed back to the controller                  *)
(*   out       tokens the pool transfers out                               *)
(* A leg is a function of its arguments, so that the pool's state machine  *)
(* and the modules that compose it with the controller share it.           *)
(***************************************************************************)
EXTENDS Rates

CONSTANT LiquidationBuffer    \* LIQUIDATION_BUFFER_BPS
ASSUME BufferAssumption == LiquidationBuffer \in 0..Bps

-----------------------------------------------------------------------------
(* interest.rs                                                              *)

AccrueRevenue(m, shares) ==
  [m EXCEPT !.revenue = @ + shares, !.supplied = @ + shares]

ApplyStep(m, step) ==
  [ok |-> step.ok,
   m  |-> AccrueRevenue([m EXCEPT !.borrow_index = step.borrow_index,
                                  !.supply_index = step.supply_index],
                        step.revenue_shares)]

AccrueChunk(p, m, delta) ==
  ApplyStep(m, AccrueStep(p, m.borrowed, m.supplied, m.borrow_index, m.supply_index, delta))

Then(done, chunk) == [ok |-> done.ok /\ chunk.ok, m |-> chunk.m]

\* The market after every chunk of the interval.
SyncChunks(p, m, elapsed) ==
  LET n == ChunkCount(elapsed)
      after[k \in 0..n] ==
        IF k = 0 THEN [ok |-> TRUE, m |-> m]
        ELSE Then(after[k-1], AccrueChunk(p, after[k-1].m, Chunk(elapsed, k)))
  IN  after[n]

SetTimestamp(done, now) == [ok |-> done.ok, m |-> [done.m EXCEPT !.last_timestamp = now]]

\* Interest up to `now', chunk by chunk; the clock of the market follows.
GlobalSync(p, m, now) ==
  LET elapsed == now - m.last_timestamp
  IN  IF elapsed <= 0 THEN [ok |-> TRUE, m |-> m]
      ELSE SetTimestamp(SyncChunks(p, m, elapsed), now)

AddProtocolRevenue(m, fee) ==
  IF fee = 0 THEN m
  ELSE AccrueRevenue(m, ProtocolFeeShares(fee, m.supply_index, m.supplied))

\* Suppliers absorb bad debt through the index, down to its floor.
ApplyBadDebtToSupplyIndex(m, bad_debt) ==
  LET total     == RayMul(m.supplied, m.supply_index)
      remaining == total - Least(bad_debt, total)
      reduced   == RayMulFloor(m.supply_index, RayDivFloor(remaining, total))
  IN  IF total = 0 THEN m
      ELSE [m EXCEPT !.supply_index = Greatest(reduced, SupplyIndexFloor)]

-----------------------------------------------------------------------------
(* guards.rs                                                                *)

ClaimsFloor(m) == RayMulFloor(m.supplied, m.supply_index)
DebtCeil(m)    == RayMulCeil(m.borrowed, m.borrow_index)

\* Mutant: a market without claims counts as fully used, with debt or without.
UtilizationWithoutExemptions(p, m) ==
  \/ p.max_utilization >= Ray
  \/ /\ ClaimsFloor(m) > 0
     /\ RayDivCeil(DebtCeil(m), ClaimsFloor(m)) <= p.max_utilization

UtilizationBelowMax(p, m) ==
  \/ m.supplied = 0
  \/ p.max_utilization >= Ray
  \/ DebtCeil(m) = 0
  \/ /\ Fits(DebtCeil(m)) /\ Fits(ClaimsFloor(m))
     /\ ClaimsFloor(m) > 0
     /\ RayDivCeil(DebtCeil(m), ClaimsFloor(m)) <= p.max_utilization

LiquidationBufferKept(p, m, draw) ==
  m.cash - draw >=
    MulDivCeil(UnscaleSupplyFloor(m.supplied, m.supply_index, p.unit), LiquidationBuffer, Bps)

\* Tokens by which supplier claims exceed cash and debt.
BackingShortfall(p, m) ==
  IF ClaimsFloor(m) <= DebtCeil(m) THEN 0
  ELSE Greatest(ToAssetFloor(ClaimsFloor(m) - DebtCeil(m), p.unit) - m.cash, 0)

\* Claims of the suppliers that neither cash nor debt covers, in Ray.
Uncovered(p, m) == ClaimsFloor(m) - DebtCeil(m) - m.cash * p.unit

\* Mutant: the guard is gone.
SupplyForDebtUnchecked(m) == TRUE

SupplyForDebt(m) == m.supplied = 0 => m.borrowed = 0

-----------------------------------------------------------------------------
(* ops: supply, borrow, withdraw, repay                                     *)

SupplyLeg(p, m, position, amount) ==
  LET minted == CalculateScaledSupply(amount, p.unit, m.supply_index)
  IN  [ok |-> /\ BackingShortfall(p, m) = 0
              /\ amount = 0 \/ minted > 0
              /\ Fits(position + minted) /\ Fits(m.supplied + minted)
              /\ Fits(m.cash + amount),
       m  |-> [m EXCEPT !.supplied = @ + minted, !.cash = @ + amount],
       position |-> position + minted,
       out |-> 0]

MintDebt(p, m, position, amount) ==
  LET minted == CalculateScaledBorrow(amount, p.unit, m.borrow_index)
      next   == [m EXCEPT !.borrowed = @ + minted]
  IN  [ok |-> /\ amount > 0
              /\ m.cash >= amount
              /\ LiquidationBufferKept(p, m, amount)
              /\ minted > 0
              /\ Fits(position + minted) /\ Fits(m.borrowed + minted)
              /\ UtilizationBelowMax(p, next),
       m  |-> next,
       position |-> position + minted]

BorrowLeg(p, m, position, amount) ==
  LET debt == MintDebt(p, m, position, amount)
  IN  [ok |-> debt.ok,
       m  |-> [debt.m EXCEPT !.cash = @ - amount],
       position |-> debt.position,
       out |-> amount]

\* A liquidation withholds `fee' from the payout and books it as revenue.
WithdrawLeg(p, m, position, amount, is_liquidation, fee) ==
  LET r        == ResolveWithdrawal(amount, position, m.supply_index, p.unit)
      withheld == IF is_liquidation THEN fee ELSE 0
      net      == r.gross - withheld
      burnt    == [m EXCEPT !.supplied = @ - r.burned]
      booked   == AddProtocolRevenue(burnt, FromAsset(withheld, p.unit))
      empty_close == position = 0 /\ amount = MaxI128
  IN  [ok |-> /\ r.gross = 0 \/ r.burned > 0
              /\ r.burned <= m.supplied /\ m.revenue <= m.supplied - r.burned
              /\ r.burned <= position
              /\ 0 <= net
              /\ net <= m.cash
              /\ is_liquidation \/ empty_close \/ UtilizationBelowMax(p, booked)
              /\ SupplyForDebt(booked),
       m  |-> [booked EXCEPT !.cash = @ - net],
       position |-> position - r.burned,
       out |-> net]

\* The tokens `amount' are already in the pool; the overpayment goes back.
RepayLeg(p, m, position, amount) ==
  LET r   == ResolveRepay(amount, position, m.borrow_index, p.unit)
      net == amount - r.overpayment
  IN  [ok |-> /\ net = 0 \/ r.burned > 0
              /\ r.burned <= position /\ r.burned <= m.borrowed
              /\ Fits(m.cash + net),
       m  |-> [m EXCEPT !.borrowed = @ - r.burned, !.cash = @ + net],
       position |-> position - r.burned,
       out |-> r.overpayment]

-----------------------------------------------------------------------------
(* ops: strategy, net settlement, seizure, revenue, recapitalization, flash *)

StrategyLeg(p, m, position, amount, charge_fee) ==
  LET fee  == IF charge_fee THEN FlashLoanFeeOn(p.flashloan_fee, amount) ELSE 0
      debt == MintDebt(p, m, position, amount)
  IN  [ok |-> fee <= amount /\ debt.ok,
       m  |-> [AddProtocolRevenue(debt.m, FromAsset(fee, p.unit))
                 EXCEPT !.cash = @ - (amount - fee)],
       position |-> debt.position,
       out |-> amount - fee]

NetSettleLeg(p, m, supply, debt, amount) ==
  LET r    == ResolveNetSettle(amount, supply, debt, m.supply_index, m.borrow_index, p.unit)
      next == [m EXCEPT !.supplied = @ - r.supply, !.borrowed = @ - r.debt]
  IN  [ok |-> /\ r.settled = 0 \/ (r.supply > 0 /\ r.debt > 0)
              /\ r.supply <= m.supplied /\ m.revenue <= m.supplied - r.supply
              /\ r.debt <= m.borrowed
              /\ SupplyForDebt(next),
       m  |-> next,
       supply |-> supply - r.supply,
       debt   |-> debt - r.debt]

\* Mutant: the fee shares are minted instead of taken from the position's.
SeizeDepositAsMint(m, position) ==
  [ok |-> m.revenue + position <= m.supplied, m |-> AccrueRevenue(m, position)]

\* Seizing a deposit turns its shares into protocol revenue.
SeizeDepositLeg(m, position) ==
  [ok |-> m.revenue + position <= m.supplied,
   m  |-> [m EXCEPT !.revenue = @ + position]]

\* Seizing a debt writes it off against the suppliers.
SeizeDebtLeg(m, position) ==
  LET written == ApplyBadDebtToSupplyIndex(m, RayMulCeil(position, m.borrow_index))
  IN  [ok |-> position <= m.borrowed /\ Fits(RayMul(m.supplied, m.supply_index)),
       m  |-> [written EXCEPT !.borrowed = @ - position]]

\* Pays the owner what revenue is worth, or what cash allows.
ClaimRevenueLeg(p, m) ==
  LET treasury == UnscaleSupplyFloor(m.revenue, m.supply_index, p.unit)
      amount   == Least(m.cash, treasury)
      burned   == IF amount = 0 THEN 0
                  ELSE IF amount = treasury THEN m.revenue
                  ELSE MulDivCeil(m.revenue, amount, treasury)
      next     == [m EXCEPT !.revenue = @ - burned, !.supplied = @ - burned]
  IN  [ok |-> /\ amount = 0 \/ burned # 0
              /\ burned <= m.revenue /\ burned <= m.supplied
              /\ UtilizationBelowMax(p, next)
              /\ SupplyForDebt(next),
       m  |-> [next EXCEPT !.cash = @ - amount],
       out |-> amount]

\* Mutant: the refunded part is booked as cash too.
RecapitalizeLegCreditsGross(p, m, amount) ==
  LET applied == Least(amount, BackingShortfall(p, m))
  IN  [ok |-> TRUE, m |-> [m EXCEPT !.cash = @ + amount], out |-> amount - applied]

\* Fills the backing shortfall at most; the rest goes back to the payer.
RecapitalizeLeg(p, m, amount) ==
  LET applied == Least(amount, BackingShortfall(p, m))
  IN  [ok |-> Fits(m.cash + applied),
       m  |-> [m EXCEPT !.cash = @ + applied],
       out |-> amount - applied]

\* The tail of a flash loan, on the market loaded before the callback.
BookFlashFee(p, m, fee) ==
  [ok |-> Fits(m.cash + fee),
   m  |-> [AddProtocolRevenue(m, FromAsset(fee, p.unit)) EXCEPT !.cash = @ + fee]]

\* market.rs: create.
NewMarket(now) ==
  [supplied |-> 0, borrowed |-> 0, revenue |-> 0, borrow_index |-> Ray,
   supply_index |-> Ray, last_timestamp |-> now, cash |-> 0]
=============================================================================
