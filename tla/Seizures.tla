------------------------------ MODULE Seizures ------------------------------
(***************************************************************************)
(* The transactions on somebody else's account: liquidation in both        *)
(* seizure modes, the write-off of bad debt and the refresh of stamped     *)
(* risk parameters (controller/src, positions/liquidation and              *)
(* risk/params.rs), as flows over the ledger of Positions.                 *)
(***************************************************************************)
EXTENDS Positions

-----------------------------------------------------------------------------
(* bad_debt.rs                                                              *)

ReleaseUsage(tx) ==
  FoldSet(LAMBDA h, t : UsageExit(t, "borrowed", h, tx.debt[h]),
          FoldSet(LAMBDA h, t : UsageExit(t, "supplied", h, tx.sup[h].scaled), tx, DOMAIN tx.sup),
          DOMAIN tx.debt)

\* seize_positions: the deposits become revenue before the debts are written off.
SeizeDeposits(tx) ==
  FoldSet(LAMBDA h, t : Took(t, h, SeizeDepositLeg(Touch(t, h).m, tx.sup[h].scaled)), tx, DOMAIN tx.sup)

SeizeDebts(tx) ==
  FoldSet(LAMBDA h, t : Took(t, h, SeizeDebtLeg(Touch(t, h).m, tx.debt[h])), tx, DOMAIN tx.debt)

\* execute_bad_debt_cleanup
Cleanup(L, tx) ==
  LET done == SeizeDebts(SeizeDeposits(ReleaseUsage(tx)))
  IN  [ok |-> done.ok, L |-> RemoveAccount(Stored(L, done, "both"), tx.id)]

Totals(tx) == RiskTotals(tx.sup, tx.debt, tx.mk)

Insolvent(totals)  == totals.total_debt > totals.total_collateral
DustCapped(totals) == IsSocializable(totals.total_debt, totals.total_collateral)

Socialized(L, tx, admits) ==
  IF admits /\ DOMAIN tx.debt # {} /\ Priced(DOMAIN tx.sup \cup DOMAIN tx.debt)
    THEN Cleanup(L, tx) ELSE Reverted(L)

SocializedIf(L, tx, Admits(_)) == Socialized(L, tx, Admits(Totals(tx)))

CleanBadDebt(L, id)   == SocializedIf(L, Begin(L, id), DustCapped)
ForceSocialize(L, id) == SocializedIf(L, Begin(L, id), Insolvent)

-----------------------------------------------------------------------------
(* liquidation/apply.rs                                                     *)

\* A full close pulls what was offered; the pool hands the excess back.
Pulled(plan, merged, leg) == IF plan.full_close THEN PaidIn(merged, leg.asset) ELSE leg.amount

RepayLegs(tx, plan, merged, loss) ==
  FoldLeft(LAMBDA t, leg : RepayPayment(t, [asset |-> leg.asset, amount |-> Pulled(plan, merged, leg) - loss]),
           tx, plan.repaid)

ReceivedUsdOf(plan, merged, loss) ==
  MapThenSumSet(LAMBDA i : ReceivedUsd(plan.repaid[i], Pulled(plan, merged, plan.repaid[i]) - loss),
                DOMAIN plan.repaid)

TransferSeizure(tx, seized) ==
  FoldSet(LAMBDA h, t : WithdrawFrom(t, h, seized[h].amount, TRUE, seized[h].protocol_fee), tx, DOMAIN seized)

\* Mutant: the fee shares are dropped from the account and from nowhere else.
DebitsWithoutFee(tx, h, e) ==
  PutSupply(tx, h, [tx.sup[h] EXCEPT !.scaled = @ - e.scaled])

\* Debits the shares; the fee shares leave the accounts and become revenue.
DebitShares(tx, h, e) ==
  LET leg == [tx.sup[h] EXCEPT !.scaled = @ - e.scaled]
      fee == FeeShares(e)
      out == PutSupply([tx EXCEPT !.ok = @ /\ leg.scaled >= 0], h, leg)
  IN  IF fee = 0 THEN out
      ELSE Took(UsageExit(out, "supplied", h, fee), h, SeizeDepositLeg(Touch(tx, h).m, fee))

Debited(tx, seized) == FoldSet(LAMBDA h, t : DebitShares(t, h, seized[h]), tx, DOMAIN seized)

\* credit_supply_shares: on the receiver's own stamps, or those of the listing.
CreditShare(rx, victim, h, shares) ==
  IF shares = 0 THEN rx
  ELSE IF h \in DOMAIN rx.sup THEN PutSupply(rx, h, [rx.sup[h] EXCEPT !.scaled = @ + shares])
  ELSE IF Listed(rx.spoke, h) THEN PutSupply(rx, h, Stamped(listing[rx.spoke][h], shares))
  ELSE Refuse(rx)

Credited(rx, victim, seized) ==
  FoldSet(LAMBDA h, t : CreditShare(t, victim, h, CreditShares(seized[h])), rx, DOMAIN seized)

\* require_credit_position_limit
CreditAllowed(rx, seized, fresh) ==
  LET added == {h \in DOMAIN seized : CreditShares(seized[h]) > 0}
  IN  /\ fresh \/ WithinPositionLimit(DOMAIN rx.sup, added, limits.supply)
      /\ WholeUnitIsolated(DOMAIN rx.sup, added, rx.mk)

\* check_bad_debt_after_liquidation
AfterLiquidation(L, tx) ==
  IF DOMAIN tx.debt = {}
    THEN [ok |-> tx.ok, L |-> IF EmptyInMemory(tx) THEN RemoveAccount(L, tx.id) ELSE L]
  ELSE IF DustCapped(Totals(tx)) /\ tx.ok
    THEN Cleanup(L, tx)
    ELSE [ok |-> tx.ok, L |-> L]

FinishTransfer(L, tx) == AfterLiquidation(Stored(L, tx, "both"), tx)

\* The usage of both accounts is one buffer: the liquidated account's store
\* has written it when the receiver's supply follows.
FinishCredit(L, tx, rx) ==
  AfterLiquidation([Stored(L, tx, "both") EXCEPT !.supply[rx.id] = rx.sup], [tx EXCEPT !.ok = @ /\ rx.ok])

-----------------------------------------------------------------------------
(* liquidation/mod.rs                                                       *)

\* build_liquidation_plan up to the plan itself.
Liquidatable(tx, payments) ==
  /\ PaymentsAllowed(payments, FALSE)
  /\ \A h \in Assets(payments) : h \in DOMAIN tx.debt /\ ~Halted(tx.spoke, h, AllowOnExit)
  /\ Priced(DOMAIN tx.sup \cup DOMAIN tx.debt)
  /\ Totals(tx).health_factor < Wad

PlanApplies(tx, plan, merged, loss) ==
  /\ PlanValid(plan)
  /\ \A h \in DOMAIN plan.seized : ~Halted(tx.spoke, h, SeizureLeg)
  /\ plan.repayment.repaid # <<>>
  /\ \A i \in DOMAIN plan.repayment.repaid :
       Pulled(plan.repayment, merged, plan.repayment.repaid[i]) > loss
  /\ ScaleAllowed(plan.seized, tx.mk, ReceivedUsdOf(plan.repayment, merged, loss), plan.repayment.repay_usd)

SeizedBy(tx, plan, merged, loss) ==
  ScaleSeizures(plan.seized, tx.mk, ReceivedUsdOf(plan.repayment, merged, loss), plan.repayment.repay_usd)

PlanFromState(tx, payments) ==
  BuildLiquidationPlan(tx.sup, tx.debt, tx.mk, AggregatePayments(payments), curve[tx.spoke])

LiquidateTransferWith(L, tx, plan, merged, loss) ==
  IF PlanApplies(tx, plan, merged, loss)
    THEN FinishTransfer(L, TransferSeizure(RepayLegs(tx, plan.repayment, merged, loss),
                                           SeizedBy(tx, plan, merged, loss)))
    ELSE Reverted(L)

TransferFrom(L, tx, payments, loss) ==
  IF Liquidatable(tx, payments)
    THEN LiquidateTransferWith(L, tx, PlanFromState(tx, payments), AggregatePayments(payments), loss)
    ELSE Reverted(L)

LiquidateTransfer(L, id, payments, loss) == TransferFrom(L, Begin(L, id), payments, loss)

CreditWith(L, tx, rx, plan, merged, loss, fresh, seized) ==
  IF CreditAllowed(rx, seized, fresh)
    THEN FinishCredit(L, Debited(RepayLegs(tx, plan.repayment, merged, loss), seized),
                      Credited(rx, tx, seized))
    ELSE Reverted(L)

LiquidateCreditWith(L, tx, rx, plan, merged, loss, fresh) ==
  IF PlanApplies(tx, plan, merged, loss)
    THEN CreditWith(L, tx, rx, plan, merged, loss, fresh, SeizedBy(tx, plan, merged, loss))
    ELSE Reverted(L)

CreditFrom(L, tx, rx, payments, loss, fresh) ==
  IF Liquidatable(tx, payments)
    THEN LiquidateCreditWith(L, tx, rx, PlanFromState(tx, payments), AggregatePayments(payments), loss, fresh)
    ELSE Reverted(L)

LiquidateCredit(L, id, payments, loss, receiver, fresh) ==
  CreditFrom(L, Begin(L, id), Begin(L, receiver), payments, loss, fresh)

\* resolve_seize_receiver: Credit(0) opens an account even in a deprecated spoke.
LiquidateIntoNew(L, caller, id, payments, loss) ==
  LiquidateCredit(CreateAccount(L, caller, L.account[id].spoke, "Normal"), id, payments, loss, L.next_id, TRUE)

LiquidateInto(L, caller, id, payments, loss, receiver) ==
  IF /\ receiver # id
     /\ L.account[receiver].spoke = L.account[id].spoke
     /\ L.account[receiver].mode = "Normal"
     /\ L.account[receiver].owner = caller
    THEN LiquidateCredit(L, id, payments, loss, receiver, FALSE)
    ELSE Reverted(L)

-----------------------------------------------------------------------------
(* risk/params.rs: update_account_threshold on one account.                 *)

RefreshListed(tx, full) ==
  FoldSet(LAMBDA h, t :
            IF full THEN Refreshed(t, h, t.sup[h], listing[t.spoke][h])
                    ELSE PutSupply(t, h, RefreshLeg(t.sup, t.debt, t.mk, h, t.sup[h], listing[t.spoke][h], FALSE)),
          tx, DOMAIN tx.sup \cap DOMAIN listing[tx.spoke])

\* Only the full refresh loads the debt, and it ends at a health factor of 1.05.
ThresholdsHold(tx) ==
  Priced(DOMAIN tx.sup \cup DOMAIN tx.debt) /\ Totals(tx).health_factor >= ThresholdUpdateMinHf

FinishRefresh(L, tx, full) ==
  [ok |-> tx.ok /\ (full => ThresholdsHold(tx)), L |-> [L EXCEPT !.supply[tx.id] = tx.sup]]

UpdateAccountThreshold(L, id, full) ==
  IF DOMAIN L.supply[id] = {} THEN [ok |-> TRUE, L |-> L]
  ELSE FinishRefresh(L, RefreshListed(IF full THEN Begin(L, id) ELSE [Begin(L, id) EXCEPT !.debt = Empty], full), full)
=============================================================================
