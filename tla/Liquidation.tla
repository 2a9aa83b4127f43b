---------------------------- MODULE Liquidation ----------------------------
(***************************************************************************)
(* One account under liquidation: process_liquidation of the controller    *)
(* (positions/liquidation/mod.rs and apply.rs), taken any number of times  *)
(* while prices move and debt accrues, with a token that may deliver less  *)
(* than it was asked for.  The pool is represented by the two conversions  *)
(* it applies to a position, resolve_repay and resolve_withdrawal.         *)
(***************************************************************************)
EXTENDS LiquidationMath

CONSTANTS
  Assets,
  Unit,          \* Ray per base unit of each asset
  StartAccounts, \* the accounts to start from: [sup, debt]
  PriceSets,     \* asset -> the prices its feed moves between
  BorrowIndexes, \* the borrow indexes debt accrues through
  SupplyIndex,   \* asset -> the supply index of its market
  Curve,         \* the spoke's liquidation curve
  Offers,        \* the payment lists a liquidator sends
  Losses,        \* what a token transfer may withhold, in base units
  MaxRounds      \* the number of liquidations explored

VARIABLES
  sup,    \* Account.supply_positions
  debt,   \* Account.borrow_positions
  price,  \* the usable price of each asset
  index,  \* the borrow index, one for every market
  last,   \* what the last liquidation paid, received and left, before any write-off
  rounds  \* liquidations so far

vars == <<sup, debt, price, index, last, rounds>>

Mk == [a \in Assets |->
         [price |-> price[a], unit |-> Unit[a], supply_index |-> SupplyIndex[a], borrow_index |-> index]]

NoLiquidation == [payout |-> 0, received |-> 0, bonus |-> 0, sup |-> <<>>, debt |-> <<>>]

Init ==
  /\ \E start \in StartAccounts : sup = start.sup /\ debt = start.debt
  /\ price \in {f \in [Assets -> UNION Range(PriceSets)] : \A a \in Assets : f[a] \in PriceSets[a]}
  /\ index = Ray
  /\ last = NoLiquidation
  /\ rounds = 0

-----------------------------------------------------------------------------
(* apply.rs                                                                 *)

\* A full close pulls what was offered and the pool hands the excess back.
Pulled(plan, merged, i) ==
  IF plan.full_close THEN PaidIn(merged, plan.repaid[i].asset) ELSE plan.repaid[i].amount

NonZero(legs) == [a \in {x \in DOMAIN legs : legs[x].scaled > 0} |-> legs[a]]
NonZeroDebt(legs) == [a \in {x \in DOMAIN legs : legs[x] > 0} |-> legs[a]]

\* apply_liquidation_repayments on the account: `received' is measured at the pool.
RepaidAccount(repaid, received) ==
  NonZeroDebt([a \in DOMAIN debt |->
    IF a \in LegAssets(repaid)
      THEN debt[a] - ResolveRepay(received[CHOOSE i \in DOMAIN repaid : repaid[i].asset = a],
                                  debt[a], index, Unit[a]).burned
      ELSE debt[a]])

ReceivedTotal(repaid, received) ==
  MapThenSumSet(LAMBDA i : ReceivedUsd(repaid[i], received[i]), DOMAIN repaid)

\* Transfer mode burns the shares of a withdrawal; credit mode moves the shares.
SeizedAccount(seized, credit) ==
  NonZero([a \in DOMAIN sup |->
    IF a \in DOMAIN seized
      THEN [sup[a] EXCEPT !.scaled = @ -
              IF credit THEN seized[a].scaled
              ELSE ResolveWithdrawal(seized[a].amount, sup[a].scaled, SupplyIndex[a], Unit[a]).burned]
      ELSE sup[a]])

\* What reaches the liquidator, in WAD USD: tokens net of the fee, or shares.
PaidOut(seized, credit) ==
  MapThenSumSet(LAMBDA a :
    IF credit THEN PositionValue(CreditShares(seized[a]), SupplyIndex[a], price[a])
    ELSE UsdValue(ResolveWithdrawal(seized[a].amount, sup[a].scaled, SupplyIndex[a], Unit[a]).gross
                    - seized[a].protocol_fee, Mk[a]),
    DOMAIN seized)

\* check_bad_debt_after_liquidation: a hopeless remainder is written off.
AfterBadDebtCheck(s, d) ==
  IF d # <<>> /\ IsSocializable(TotalDebt(d, Mk), TotalCollateral(s, Mk))
    THEN sup' = <<>> /\ debt' = <<>>
    ELSE sup' = s /\ debt' = d

Settle(plan, received, seized, credit) ==
  /\ AfterBadDebtCheck(SeizedAccount(seized, credit), RepaidAccount(plan.repaid, received))
  /\ last' = [payout |-> PaidOut(seized, credit), received |-> ReceivedTotal(plan.repaid, received),
              bonus |-> plan.bonus, sup |-> SeizedAccount(seized, credit),
              debt |-> RepaidAccount(plan.repaid, received)]
  /\ rounds' = rounds + 1
  /\ UNCHANGED <<price, index>>

\* The rest of process_liquidation, once the tokens have arrived.
Execute(plan, seized, received, credit) ==
  /\ ScaleAllowed(seized, Mk, ReceivedTotal(plan.repaid, received), plan.repay_usd)
  /\ Settle(plan, received,
            ScaleSeizures(seized, Mk, ReceivedTotal(plan.repaid, received), plan.repay_usd), credit)

Receipts(plan, merged, loss) ==
  [i \in DOMAIN plan.repaid |-> Greatest(Pulled(plan, merged, i) - loss, 0)]

LiquidatePlanned(plan, merged, loss, credit) ==
  /\ PlanValid(plan)
  /\ plan.repayment.repaid # <<>>
  /\ \A i \in DOMAIN plan.repayment.repaid : Pulled(plan.repayment, merged, i) > loss
  /\ Execute(plan.repayment, plan.seized, Receipts(plan.repayment, merged, loss), credit)

Liquidate(payments, loss, credit) ==
  /\ rounds < MaxRounds
  /\ debt # <<>>
  /\ PaymentsAllowed(payments, FALSE)
  /\ \A i \in DOMAIN payments : payments[i].asset \in DOMAIN debt
  /\ RiskTotals(sup, debt, Mk).health_factor < Wad
  /\ LiquidatePlanned(BuildLiquidationPlan(sup, debt, Mk, AggregatePayments(payments), Curve),
                      AggregatePayments(payments), loss, credit)

-----------------------------------------------------------------------------
(* The world between two liquidations.                                      *)

PriceMoves(a, p) ==
  /\ p # price[a]
  /\ price' = [price EXCEPT ![a] = p]
  /\ last' = NoLiquidation
  /\ UNCHANGED <<sup, debt, index, rounds>>

Accrues(i) ==
  /\ i > index
  /\ index' = i
  /\ last' = NoLiquidation
  /\ UNCHANGED <<sup, debt, price, rounds>>

Next ==
  \/ \E payments \in Offers, loss \in Losses, credit \in BOOLEAN : Liquidate(payments, loss, credit)
  \/ \E a \in Assets : \E p \in PriceSets[a] : PriceMoves(a, p)
  \/ \E i \in BorrowIndexes : Accrues(i)

Spec == Init /\ [][Next]_vars

-----------------------------------------------------------------------------
(* What a liquidation may and may not do.  Amounts are whole token units,   *)
(* so every bound is up to one unit of each divisible asset; collateral in  *)
(* whole units gets no such allowance.                                      *)

Held  == DOMAIN sup \cup DOMAIN debt
Slack == OneUnitUsd({a \in Held : ~WholeUnit(Mk[a])}, Mk) + Cardinality(Held)

Liquidated == price' = price /\ index' = index /\ debt' # debt

Totals      == RiskTotals(sup, debt, Mk)
TotalsLeft  == RiskTotals(last'.sup, last'.debt, Mk)
Solvent     == Totals.total_collateral >= Totals.total_debt

\* The bonus cap of estimate_liquidation_amount does its work: what a
\* liquidation of a solvent account leaves, before the bad-debt check looks at
\* it, is collateral that covers the debt, so no liquidation turns a solvent
\* account into bad debt, and its health factor is no worse than before.
HealthNotWorsened ==
  [][Liquidated /\ Solvent =>
       /\ TotalsLeft.total_collateral + Slack >= TotalsLeft.total_debt
       /\ TotalsLeft.weighted_collateral + Slack >= WadMul(Totals.health_factor, TotalsLeft.total_debt)]_vars

\* A leg in whole units is rounded up to the next one by a plan that repays
\* every debt (calculate_seized_collateral), and never otherwise.
RoundedUp == IF last'.debt = <<>> THEN OneUnitUsd({a \in DOMAIN sup : WholeUnit(Mk[a])}, Mk) ELSE 0

\* Whatever the token withheld and whichever way the collateral is delivered,
\* the liquidator never receives more than the value the pool received plus the
\* bonus, also when all collateral of an insolvent account is seized and the
\* rest of its debt written off; only a repayment of every debt may round
\* collateral in whole units up by one.  Of a solvent account the liquidator
\* never receives less than that value: the protocol fee is taken from the
\* bonus only.
PayoutIsPaidFor ==
  [][Liquidated =>
       /\ last'.payout <= WadMul(last'.received, Wad + BpsToWad(last'.bonus)) + Slack + RoundedUp
       /\ Solvent => last'.payout + Slack >= last'.received]_vars

=============================================================================
