-------------------------------- MODULE Pool --------------------------------
(***************************************************************************)
(* The liquidity pool contract (contracts/pool/src) under its only caller, *)
(* the controller.  The pool keeps one market per (hub, asset); several    *)
(* markets of one asset share the pool's single token balance.  It stores  *)
(* totals only: the positions are the controller's books, which read a     *)
(* position, pass it in, and store the one the pool hands back.            *)
(*                                                                         *)
(* Every entrypoint is one transaction, hence one action: it happens       *)
(* completely or not at all, and a panic is a step that is not taken.  The *)
(* exception is the flash loan, which runs foreign code between loading    *)
(* the market and committing it: FlashBegin, then what the receiver may    *)
(* do, then FlashEnd or FlashRevert.                                       *)
(***************************************************************************)
EXTENDS PoolState

Init ==
  /\ market = [h \in {} |-> NewMarket(0)]
  /\ params = [h \in {} |-> NewMarket(0)]
  /\ balance = [t \in Asset |-> 0]
  /\ wallet = [t \in Asset |-> TokenSupply]
  /\ donated = [t \in Asset |-> 0]
  /\ deposit = [a \in Account |-> [h \in HubAsset |-> 0]]
  /\ debt = [a \in Account |-> [h \in HubAsset |-> 0]]
  /\ flash = NoFlash
  /\ now = 0

-----------------------------------------------------------------------------
(* Market lifecycle.                                                        *)

CreateMarket(h, p) ==
  /\ h \notin Created
  /\ Verify(p)
  /\ market' = [g \in Created \cup {h} |-> IF g = h THEN NewMarket(now) ELSE market[g]]
  /\ params' = [g \in Created \cup {h} |-> IF g = h THEN p ELSE params[g]]
  /\ UNCHANGED <<tokens, books, flash, now>>

\* Accrues under the old model, then stores the new one; the decimals stay.
UpdateParams(h, p) ==
  LET next == [p EXCEPT !.unit = params[h].unit]
  IN  /\ h \in Created
      /\ Synced(h).ok
      /\ Verify(next)
      /\ market' = [market EXCEPT ![h] = Synced(h).m]
      /\ params' = [params EXCEPT ![h] = next]
      /\ UNCHANGED <<tokens, books, flash, now>>

UpdateIndexes(M) ==
  /\ Idle
  /\ \A h \in M : Synced(h).ok
  /\ market' = [h \in Created |-> IF h \in M THEN Synced(h).m ELSE market[h]]
  /\ UNCHANGED <<params, tokens, books, flash, now>>

-----------------------------------------------------------------------------
(* Positions.                                                               *)

Supply(a, batch) ==
  LET leg == [h \in DOMAIN batch |->
                SupplyLeg(params[h], Synced(h).m, deposit[a][h], batch[h])]
  IN  /\ Idle
      /\ AllOk(leg)
      /\ Commit(leg)
      /\ Move(leg, batch)
      /\ deposit' = Rebook(deposit, a, leg)
      /\ UNCHANGED <<params, debt, flash, now>>

Borrow(a, batch) ==
  LET leg == [h \in DOMAIN batch |->
                BorrowLeg(params[h], Synced(h).m, debt[a][h], batch[h])]
  IN  /\ Idle
      /\ AllOk(leg)
      /\ Commit(leg)
      /\ Move(leg, NoTokens(leg))
      /\ debt' = Rebook(debt, a, leg)
      /\ UNCHANGED <<params, deposit, flash, now>>

Withdraw(a, batch) ==
  LET leg == [h \in DOMAIN batch |->
                WithdrawLeg(params[h], Synced(h).m, deposit[a][h], batch[h], FALSE, 0)]
  IN  /\ Idle
      /\ AllOk(leg)
      /\ Commit(leg)
      /\ Move(leg, NoTokens(leg))
      /\ deposit' = Rebook(deposit, a, leg)
      /\ UNCHANGED <<params, debt, flash, now>>

\* A Transfer-mode seizure: withdraw with is_liquidation and a protocol fee.
LiquidationWithdraw(a, batch) ==
  LET leg == [h \in DOMAIN batch |->
                WithdrawLeg(params[h], Synced(h).m, deposit[a][h], batch[h].amount,
                            TRUE, batch[h].fee)]
  IN  /\ Idle
      /\ AllOk(leg)
      /\ Commit(leg)
      /\ Move(leg, NoTokens(leg))
      /\ deposit' = Rebook(deposit, a, leg)
      /\ UNCHANGED <<params, debt, flash, now>>

Repay(a, batch) ==
  LET leg == [h \in DOMAIN batch |->
                RepayLeg(params[h], Synced(h).m, debt[a][h], batch[h])]
  IN  /\ Idle
      /\ AllOk(leg)
      /\ Commit(leg)
      /\ Move(leg, batch)
      /\ debt' = Rebook(debt, a, leg)
      /\ UNCHANGED <<params, deposit, flash, now>>

CreateStrategy(a, h, amount, charge_fee) ==
  LET leg == [g \in {h} |->
                StrategyLeg(params[h], Synced(h).m, debt[a][h], amount, charge_fee)]
  IN  /\ Idle
      /\ AllOk(leg)
      /\ Commit(leg)
      /\ Move(leg, NoTokens(leg))
      /\ debt' = Rebook(debt, a, leg)
      /\ UNCHANGED <<params, deposit, flash, now>>

NetSettle(a, h, amount) ==
  LET leg == NetSettleLeg(params[h], Synced(h).m, deposit[a][h], debt[a][h], amount)
  IN  /\ Idle
      /\ Synced(h).ok /\ leg.ok
      /\ market' = [market EXCEPT ![h] = leg.m]
      /\ deposit' = [deposit EXCEPT ![a][h] = leg.supply]
      /\ debt' = [debt EXCEPT ![a][h] = leg.debt]
      /\ UNCHANGED <<params, tokens, flash, now>>

-----------------------------------------------------------------------------
(* seize_positions, as its two callers use it.                              *)

\* Bad-debt cleanup: every deposit of the account becomes revenue, then every
\* debt is written off, and the account is removed from the books.
SeizeAccount(a) ==
  LET M == {h \in Created : deposit[a][h] > 0 \/ debt[a][h] > 0}
      absorbed == [h \in M |-> IF deposit[a][h] > 0
                                 THEN SeizeDepositLeg(Synced(h).m, deposit[a][h])
                                 ELSE Synced(h)]
      leg == [h \in M |-> IF debt[a][h] > 0
                            THEN SeizeDebtLeg(absorbed[h].m, debt[a][h])
                            ELSE absorbed[h]]
  IN  /\ Idle
      /\ \E h \in Created : debt[a][h] > 0
      /\ \A h \in M : absorbed[h].ok
      /\ AllOk(leg)
      /\ Commit(leg)
      /\ deposit' = [deposit EXCEPT ![a] = [h \in HubAsset |-> 0]]
      /\ debt' = [debt EXCEPT ![a] = [h \in HubAsset |-> 0]]
      /\ UNCHANGED <<params, tokens, flash, now>>

\* Credit-mode liquidation: only the fee shares of a deposit become revenue.
SeizeFee(a, h, shares) ==
  LET leg == SeizeDepositLeg(Synced(h).m, shares)
  IN  /\ Idle
      /\ shares \in 1..deposit[a][h]
      /\ Synced(h).ok /\ leg.ok
      /\ market' = [market EXCEPT ![h] = leg.m]
      /\ deposit' = [deposit EXCEPT ![a][h] = @ - shares]
      /\ UNCHANGED <<params, tokens, debt, flash, now>>

-----------------------------------------------------------------------------
(* Revenue and recapitalization.                                            *)

ClaimRevenue(h) ==
  LET leg == [g \in {h} |-> ClaimRevenueLeg(params[h], Synced(h).m)]
  IN  /\ Idle
      /\ AllOk(leg)
      /\ Commit(leg)
      /\ Move(leg, NoTokens(leg))
      /\ UNCHANGED <<params, books, flash, now>>

Recapitalize(h, amount) ==
  LET leg == [g \in {h} |-> RecapitalizeLeg(params[h], Synced(h).m, amount)]
  IN  /\ Idle
      /\ amount > 0
      /\ AllOk(leg)
      /\ Commit(leg)
      /\ Move(leg, [g \in {h} |-> amount])
      /\ UNCHANGED <<params, books, flash, now>>

-----------------------------------------------------------------------------
(* Flash loans.  The market is loaded and synced before the receiver runs,  *)
(* and that copy is committed after it.  While the receiver runs, the       *)
(* controller's guard rejects every user entrypoint.  Owner operations are  *)
(* not behind that guard: that the Soroban host refuses to re-enter a       *)
(* contract at all is not relied on here.                                   *)

FlashBegin(h, amount) ==
  LET t == AssetOf[h]
  IN  /\ Idle
      /\ amount > 0
      /\ Synced(h).ok
      /\ params[h].is_flashloanable
      /\ Synced(h).m.cash >= amount
      /\ balance[t] >= amount
      /\ flash' = [hub_asset |-> h, amount |-> amount,
                   fee |-> FlashLoanFeeOn(params[h].flashloan_fee, amount),
                   cache |-> Synced(h).m,
                   pre_balance |-> balance[t],
                   start |-> [market |-> market, params |-> params, balance |-> balance,
                             wallet |-> wallet, donated |-> donated,
                             deposit |-> deposit, debt |-> debt]]
      /\ balance' = [balance EXCEPT ![t] = @ - amount]
      /\ wallet' = [wallet EXCEPT ![t] = @ + amount]
      /\ UNCHANGED <<market, params, donated, books, now>>

\* Anyone, a flash loan's receiver included, sends tokens straight to the pool.
Donate(t, amount) ==
  /\ amount \in 1..wallet[t]
  /\ balance' = [balance EXCEPT ![t] = @ + amount]
  /\ wallet' = [wallet EXCEPT ![t] = @ - amount]
  /\ donated' = [donated EXCEPT ![t] = @ + amount]
  /\ UNCHANGED <<market, params, books, flash, now>>

\* Mutant: a receiver that sent more than the principal passes.
FlashEndWithSurplus ==
  LET h    == flash.hub_asset
      t    == AssetOf[h]
      due  == flash.amount + flash.fee
      next == BookFlashFee(params[h], flash.cache, flash.fee)
  IN  /\ ~Idle
      /\ balance[t] >= flash.pre_balance - flash.amount
      /\ wallet[t] >= due
      /\ next.ok
      /\ market' = [market EXCEPT ![h] = next.m]
      /\ balance' = [balance EXCEPT ![t] = @ + due]
      /\ wallet' = [wallet EXCEPT ![t] = @ - due]
      /\ flash' = NoFlash
      /\ UNCHANGED <<params, donated, books, now>>

\* The balance is where the payout left it; principal and fee are pulled, the
\* fee is booked on the copy loaded at the start, and the copy is committed.
FlashEnd ==
  LET h    == flash.hub_asset
      t    == AssetOf[h]
      due  == flash.amount + flash.fee
      next == BookFlashFee(params[h], flash.cache, flash.fee)
  IN  /\ ~Idle
      /\ balance[t] = flash.pre_balance - flash.amount
      /\ wallet[t] >= due
      /\ next.ok
      /\ market' = [market EXCEPT ![h] = next.m]
      /\ balance' = [balance EXCEPT ![t] = @ + due]
      /\ wallet' = [wallet EXCEPT ![t] = @ - due]
      /\ flash' = NoFlash
      /\ UNCHANGED <<params, donated, books, now>>

\* The receiver fails, or a balance check does: the transaction is undone.
FlashRevert ==
  /\ ~Idle
  /\ market' = flash.start.market /\ params' = flash.start.params
  /\ balance' = flash.start.balance /\ wallet' = flash.start.wallet
  /\ donated' = flash.start.donated
  /\ deposit' = flash.start.deposit /\ debt' = flash.start.debt
  /\ flash' = NoFlash
  /\ UNCHANGED now

-----------------------------------------------------------------------------
Tick ==
  /\ Idle
  /\ now < MaxTime
  /\ now' = now + 1
  /\ UNCHANGED <<market, params, tokens, books, flash>>

Next ==
  \/ \E h \in HubAsset, p \in ParamSets : CreateMarket(h, p) \/ UpdateParams(h, p)
  \/ \E M \in SUBSET Created \ {{}} : UpdateIndexes(M)
  \/ \E a \in Account, batch \in Batches(Amount) : Supply(a, batch) \/ Repay(a, batch)
  \/ \E a \in Account, batch \in Batches(Amount \ {0}) : Borrow(a, batch)
  \/ \E a \in Account, batch \in Batches(Amount \cup {MaxI128}) : Withdraw(a, batch)
  \/ \E a \in Account, batch \in Batches([amount : Amount \cup {MaxI128}, fee : Fee]) :
        LiquidationWithdraw(a, batch)
  \/ \E a \in Account, h \in Created, amount \in Amount :
        \/ NetSettle(a, h, amount)
        \/ \E charge_fee \in BOOLEAN : CreateStrategy(a, h, amount, charge_fee)
  \/ \E a \in Account : SeizeAccount(a)
  \/ \E a \in Account, h \in Created, shares \in Shares : SeizeFee(a, h, shares)
  \/ \E h \in Created : ClaimRevenue(h)
  \/ \E h \in Created, amount \in Amount : Recapitalize(h, amount) \/ FlashBegin(h, amount)
  \/ \E t \in Asset, amount \in Donation : Donate(t, amount)
  \/ FlashEnd
  \/ FlashRevert
  \/ Tick

Spec == Init /\ [][Next]_vars

-----------------------------------------------------------------------------
(* Properties.                                                              *)

\* Totals, indexes, cash and clock of every market stay in their range, the
\* parameters stay valid, and no book or token count is negative.
TypeOK ==
  /\ Created \subseteq HubAsset
  /\ market \in [Created -> MarketState]
  /\ params \in [Created -> MarketParams]
  /\ \A h \in Created : Verify(params[h]) /\ market[h].last_timestamp <= now
  /\ balance \in [Asset -> Nat] /\ wallet \in [Asset -> Nat] /\ donated \in [Asset -> Nat]
  /\ deposit \in [Account -> [HubAsset -> 0..MaxI128]]
  /\ debt \in [Account -> [HubAsset -> 0..MaxI128]]
  /\ now \in Nat

\* Revenue shares never exceed the supply they are part of (INV-ACCT-01),
\* through every fee, seizure, claim and accrual.
RevenueWithinSupply ==
  \A h \in Created : market[h].revenue <= market[h].supplied

\* The controller's books add up to the pool's totals (INV-ACCT-10): nobody
\* checks it at run time, it rests on every path storing what the pool returns.
BooksReconcile ==
  \A h \in Created :
    /\ Total(deposit, h) = market[h].supplied - market[h].revenue
    /\ Total(debt, h) = market[h].borrowed

\* The cash books of the markets of a token add up to the tokens the pool holds
\* or has lent out in a flash loan, less what was never booked because it came
\* in outside the entrypoints: no leg moves one without the other, though
\* several hubs draw on the same balance (INV-ACCT-02, INV-FLASH-01).
CashIsCustody ==
  \A t \in Asset : balance[t] + Outstanding(t) = donated[t] + CashOf(t)

\* Accrual is total and foreseen: at no reachable state does the next sync of a
\* market trap on a negative difference of rounded values, which would freeze
\* the market, and it commits bit for bit the indexes that the read-only
\* get_bulk_indexes projects (simulate.rs: "so the view and the mutator agree").
SyncAsForeseen ==
  \A h \in Created :
    LET view == SimulateUpdateIndexes(params[h], market[h], now)
        sync == Synced(h)
    IN  sync.ok /\ view.borrow_index = sync.m.borrow_index /\ view.supply_index = sync.m.supply_index

\* Users can always leave: a debt can be repaid in full at any time, and in a
\* market without debt a supplier whose claim cash covers can withdraw all of it.
\* No guard of repay or withdraw, and no total, stands in the way.
ExitsStayOpen ==
  \A h \in Created, a \in Account :
    LET p   == params[h]
        m   == Synced(h).m
        owed == UnscaleBorrowCeil(debt[a][h], m.borrow_index, p.unit)
    IN  /\ RepayLeg(p, m, debt[a][h], owed).ok
        /\ RepayLeg(p, m, debt[a][h], owed).position = 0
        /\ m.borrowed = 0 /\ UnscaleSupplyFloor(deposit[a][h], m.supply_index, p.unit) <= m.cash
             => WithdrawLeg(p, m, deposit[a][h], MaxI128, FALSE, 0).ok

\* No operation takes value out of a market: claims never outgrow debt and cash
\* except by rounding of an accrual chunk (at most 2 Ray) or when a write-off
\* stops at the index floor or finds no claims to cut (INV-ACCT-04).
BackingKept ==
  [][FlashRevert \/ \A h \in Created :
       LET m == market[h]
           n == market'[h]
       IN  \/ Uncovered(params[h], n)
               <= Uncovered(params[h], m) + 2 * ChunkCount(n.last_timestamp - m.last_timestamp)
           \/ /\ n.borrowed < m.borrowed
              /\ n.supply_index = SupplyIndexFloor \/ ClaimsFloor(n) = 0]_vars

\* No exit leaves a market with debt and without supply (INV-ACCT-09): not a
\* withdrawal, a liquidation, a settlement, a revenue claim or a seizure.
NoStrandedDebt ==
  [][FlashRevert \/ \A h \in Created :
       market[h].supplied > 0 /\ market'[h].supplied = 0 => market'[h].borrowed = 0]_vars

\* Debt never shrinks through the index, and supplier claims shrink through the
\* index only in a write-off of debt that moves no cash (pool lib.rs).
IndexesMoveOneWay ==
  [][FlashRevert \/ \A h \in Created :
       /\ market'[h].borrow_index >= market[h].borrow_index
       /\ market'[h].supply_index < market[h].supply_index =>
            market'[h].borrowed < market[h].borrowed /\ market'[h].cash = market[h].cash]_vars

\* A flash loan that is repaid leaves the pool as a sync at its start would have
\* left it, plus the fee: in custody, in the cash book, and nowhere else.  What
\* the receiver triggers while the market sits in the cache is not lost by the
\* commit at the end (INV-FLASH-01).
FlashIsNeutral ==
  [][FlashEnd =>
       LET h     == flash.hub_asset
           t     == AssetOf[h]
           start == flash.start
           synced(g) == GlobalSync(start.params[g], start.market[g], now).m
       IN  /\ balance'[t] = start.balance[t] + flash.fee /\ donated'[t] = start.donated[t]
           /\ books' = <<start.deposit, start.debt>>
           /\ market'[h].cash = start.market[h].cash + flash.fee
           /\ market'[h].borrowed = start.market[h].borrowed
           /\ market'[h].borrow_index = synced(h).borrow_index
           /\ \A g \in DOMAIN start.market \ {h} : market'[g] \in {start.market[g], synced(g)}]_vars
=============================================================================
