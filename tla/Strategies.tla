----------------------------- MODULE Strategies -----------------------------
(***************************************************************************)
(* The controller's strategies (controller/src/strategies): one            *)
(* transaction that borrows, withdraws, swaps through a router, repays and *)
(* deposits, with the tokens passing through the controller's own balance. *)
(*                                                                         *)
(* tx is the transaction of Positions with three more fields: `held', the  *)
(* token balances of the controller; `out', what the last leg delivered to *)
(* it; `guard', the flash-loan flag.  What the router, the receiver of a   *)
(* flash position and the Blend pool do with the tokens they are given is  *)
(* an input.  A flash position is the one strategy in which foreign code   *)
(* acts for itself: it is split at the callback, and `flash' holds what    *)
(* the suspended transaction has in memory.                                *)
(***************************************************************************)
EXTENDS Controller

CONSTANTS
  HubOf,           \* HubAsset -> its hub
  Multiplies, DebtSwaps, CollateralSwaps, CollateralRepays, FlashLoans, FlashPositions, Migrations,
                   \* the requests that users send, with the answers they get
  CallbackSends,   \* what the receiver of a flash position may send: [token, amount]
  MaxGifts         \* bound: tokens sent to the controller unasked, each

VARIABLES
  held,            \* token -> what the controller owns
  gifts,           \* token -> what was sent to it unasked (history)
  blend_approved,  \* BlendPoolApproved
  flash,           \* the suspended flash position, or NoFlash
  last             \* the strategy the last step completed (history)

strategy == <<held, gifts, blend_approved, flash, last>>

NoFlash    == [active |-> FALSE]
NoStrategy == [kind |-> "none"]
NoRoute    == [set |-> FALSE, left |-> 0, out |-> 0]

-----------------------------------------------------------------------------
(* Loading: load_or_create_account and the strategies' shared pieces.       *)

CanManage(L, caller, id) == id \in DOMAIN L.account /\ L.account[id].owner = caller

\* AccountGuard::Multiply asks for the mode too, AccountGuard::Migrate does not.
LoadOrCreate(L, caller, id, spoke, mode, same_mode) ==
  IF id = 0
    THEN [ok |-> spoke \notin deprecated, id |-> L.next_id, L |-> CreateAccount(L, caller, spoke, mode)]
    ELSE [ok |-> /\ CanManage(L, caller, id)
                 /\ L.account[id].spoke = spoke
                 /\ same_mode => L.account[id].mode = mode,
          id |-> id, L |-> L]

Carrying(tx) ==
  [ok |-> tx.ok, id |-> tx.id, spoke |-> tx.spoke, sup |-> tx.sup, debt |-> tx.debt, rows |-> tx.rows,
   market |-> tx.market, synced |-> tx.synced, mk |-> tx.mk, held |-> held, out |-> 0, guard |-> FALSE]

Open(L, id) == Carrying(Begin(L, id))

\* prefetch_strategy_prices: every price is read before any token moves.
Prefetched(tx, extra) == Priced(DOMAIN tx.sup \cup DOMAIN tx.debt \cup extra)

\* Mutant: the checks of a strategy are left to its legs.
FinalizeUnchecked(L, tx) ==
  LET r == Finalize(L, Restamped(tx), "both", TRUE)
  IN  [ok |-> r.ok, L |-> r.L, held |-> tx.held]

\* strategy_finalize
StrategyFinalize(L, tx) ==
  LET r == Finalize(L, Solvent(tx), "both", TRUE)
  IN  [ok |-> r.ok, L |-> r.L, held |-> tx.held]

FinishStrategy(L, tx) ==
  IF tx.ok THEN StrategyFinalize(L, tx) ELSE [ok |-> FALSE, L |-> L, held |-> held]

NotStarted(L) == [ok |-> FALSE, L |-> L, held |-> held]

-----------------------------------------------------------------------------
(* Tokens through the controller: payments.rs, swap.rs, legs.rs.            *)

Receive(tx, t, n) == [tx EXCEPT !.held[t] = @ + n, !.out = n]
Send(tx, t, n)    == [tx EXCEPT !.held[t] = @ - n]

\* Mutant: the guard is cleared however it was found.
ClearGuard(tx, prev) == [tx EXCEPT !.guard = FALSE]

\* with_flash_guard puts back what it found.
RestoreGuard(tx, prev) == [tx EXCEPT !.guard = prev]

BorrowedInto(tx, h, leg) ==
  IF tx.ok /\ BorrowGates(tx, {h}) /\ leg.out > 0
    THEN RestoreGuard(Receive(MergeBorrowLeg(Took(tx, h, leg), h, leg.position), AssetOf[h], leg.out), tx.guard)
    ELSE Refuse(tx)

BorrowIntoController(tx, h, amount, charge_fee) ==
  BorrowedInto(tx, h, StrategyLeg(Params[h], Touch(tx, h).m, DebtPosition(tx, h), amount, charge_fee))

\* Mutant: the input the router did not use stays behind.
SwapKeepsLeftover(tx, from, amount, to, route) ==
  IF tx.ok /\ amount > 0 /\ route.set /\ route.left \in 0..amount /\ route.out > 0
    THEN Receive(Send(tx, from, amount - route.left), to, route.out)
    ELSE Refuse(tx)

\* swap_tokens: the router takes amount - left, the caller gets what is left.
SwapTokens(tx, from, amount, to, route) ==
  IF tx.ok /\ amount > 0 /\ route.set /\ route.left \in 0..amount /\ route.out > 0
    THEN Receive(Send(Send(tx, from, amount - route.left), from, route.left), to, route.out)
    ELSE Refuse(tx)

SwapOrPassthrough(tx, from, amount, to, route) ==
  IF from # to THEN SwapTokens(tx, from, amount, to, route)
  ELSE IF route.set THEN Refuse(tx)
  ELSE [tx EXCEPT !.out = amount]

\* repay_debt_from_controller: the pool returns the excess to the controller,
\* which passes it on.
RepaidFrom(tx, h, available, leg) ==
  IF tx.ok /\ available > 0 /\ ~Halted(tx.spoke, h, AllowOnExit)
    THEN Send(Receive(MergeRepayLeg(Took(Send(tx, AssetOf[h], available), h, leg), h, leg.position),
                      AssetOf[h], leg.out),
              AssetOf[h], leg.out)
    ELSE Refuse(tx)

RepayFromController(tx, h, available) ==
  RepaidFrom(tx, h, available, RepayLeg(Params[h], Touch(tx, h).m, tx.debt[h], available))

WithdrawnTo(tx, h, leg) ==
  IF tx.ok /\ ~Halted(tx.spoke, h, AllowOnExit)
    THEN Receive(MergeWithdrawLeg(Took(tx, h, leg), h, leg.position, FALSE), AssetOf[h], leg.out)
    ELSE Refuse(tx)

WithdrawToController(tx, h, amount) ==
  WithdrawnTo(tx, h, WithdrawLeg(Params[h], Touch(tx, h).m, tx.sup[h].scaled, amount, FALSE, 0))

SwapReceived(tx, from, to, route) == SwapOrPassthrough(tx, from, tx.out, to, route)

\* withdraw_and_swap_from_supply
WithdrawAndSwap(tx, h, amount, to, route) ==
  IF h \in DOMAIN tx.sup
    THEN SwapReceived(WithdrawToController(tx, h, amount), AssetOf[h], to, route)
    ELSE Refuse(tx)

PayIn(tx, p) == Send(tx, AssetOf[p.asset], p.amount)

\* process_deposit with the controller as payer.
DepositHeld(tx, payments) ==
  IF tx.ok THEN FoldLeft(PayIn, Deposit(tx, payments), payments) ELSE tx

-----------------------------------------------------------------------------
(* multiply.rs                                                              *)

Modes == {"Multiply", "Long", "Short"}

ValidMultiply(q) ==
  /\ q.mode \in Modes
  /\ IF q.mode = "Multiply" THEN q.collateral # q.debt ELSE AssetOf[q.collateral] # AssetOf[q.debt]
  /\ q.amount > 0

\* collect_initial_multiply_payment: as collateral, or as more to swap.
InitialPayment(tx, q) ==
  LET t    == AssetOf[q.payment.asset]
      paid == Receive(tx, t, q.payment.amount)
  IN  CASE q.payment.amount = 0         -> [tx |-> tx, collateral |-> 0, extra |-> 0]
        [] t = AssetOf[q.collateral]    -> [tx |-> paid, collateral |-> q.payment.amount, extra |-> 0]
        [] t = AssetOf[q.debt]          -> [tx |-> paid, collateral |-> 0, extra |-> q.payment.amount]
        [] OTHER -> LET done == SwapTokens(paid, t, q.payment.amount, AssetOf[q.collateral], q.convert)
                    IN  [tx |-> done, collateral |-> done.out, extra |-> 0]

DepositSwapped(tx, h, more) == DepositHeld(tx, <<[asset |-> h, amount |-> more + tx.out]>>)

Leveraged(tx, q, first) ==
  DepositSwapped(SwapOrPassthrough(tx, AssetOf[q.debt], tx.out + first.extra, AssetOf[q.collateral], q.route),
                 q.collateral, first.collateral)

BorrowAndLever(q, first) == Leveraged(BorrowIntoController(first.tx, q.debt, q.amount, TRUE), q, first)

MultiplyFrom(L, tx, q) ==
  IF CanSupply(tx.spoke, q.collateral)
       /\ Prefetched(tx, {q.collateral, q.debt} \cup IF q.payment.amount > 0 THEN {q.payment.asset} ELSE {})
    THEN FinishStrategy(L, BorrowAndLever(q, InitialPayment(tx, q)))
    ELSE NotStarted(L)

Multiply(L, caller, id, spoke, q) ==
  LET acc == LoadOrCreate(L, caller, id, spoke, q.mode, TRUE)
  IN  IF ValidMultiply(q) /\ acc.ok THEN MultiplyFrom(acc.L, Open(acc.L, acc.id), q) ELSE NotStarted(L)

-----------------------------------------------------------------------------
(* swap_debt.rs, swap_collateral.rs                                         *)

Refinanced(tx, q) ==
  LET swapped == SwapReceived(tx, AssetOf[q.to], AssetOf[q.from], q.route)
  IN  RepayFromController(swapped, q.from, swapped.out)

SwapDebt(L, caller, id, q) ==
  LET tx == Open(L, id)
  IN  IF /\ q.from # q.to /\ q.amount > 0
         /\ CanManage(L, caller, id)
         /\ q.from \in DOMAIN tx.debt
         /\ Prefetched(tx, {q.from, q.to})
        THEN FinishStrategy(L, Refinanced(BorrowIntoController(tx, q.to, q.amount, TRUE), q))
        ELSE NotStarted(L)

SwapCollateral(L, caller, id, q) ==
  LET tx == Open(L, id)
  IN  IF /\ q.from # q.to /\ q.amount > 0
         /\ CanManage(L, caller, id)
         /\ CanSupply(tx.spoke, q.to)
         /\ Prefetched(tx, {q.from, q.to})
        THEN FinishStrategy(L, DepositSwapped(WithdrawAndSwap(tx, q.from, q.amount, AssetOf[q.to], q.route), q.to, 0))
        ELSE NotStarted(L)

-----------------------------------------------------------------------------
(* repay_debt_with_collateral.rs                                            *)

\* net_settle_collateral_against_debt: no token moves.
NetSettled(tx, h, leg) == MergeRepayLeg(MergeWithdrawLeg(Took(tx, h, leg), h, leg.supply, FALSE), h, leg.debt)

NetSettle(tx, h, amount) ==
  IF h \in DOMAIN tx.sup /\ h \in DOMAIN tx.debt /\ ~Halted(tx.spoke, h, AllowOnExit)
    THEN NetSettled(tx, h, NetSettleLeg(Params[h], Touch(tx, h).m, tx.sup[h].scaled, tx.debt[h], amount))
    ELSE Refuse(tx)

RepaySwapped(tx, h) == RepayFromController(tx, h, tx.out)

\* repay_via_collateral_swap
RepayViaSwap(tx, q) ==
  IF q.debt \in DOMAIN tx.debt
    THEN RepaySwapped(WithdrawAndSwap(tx, q.collateral, q.amount, AssetOf[q.debt], q.route), q.debt)
    ELSE Refuse(tx)

WithdrawAllOf(tx, h) ==
  IF Halted(tx.spoke, h, AllowOnExit) THEN Refuse(tx) ELSE WithdrawFrom(tx, h, MaxI128, FALSE, 0)

\* The pool is called for the repaid collateral even when nothing of it is left.
TouchEmptied(tx, h) ==
  IF h \in DOMAIN tx.sup THEN tx
  ELSE Took(tx, h, WithdrawLeg(Params[h], Touch(tx, h).m, 0, MaxI128, FALSE, 0))

\* execute_withdraw_all: straight to the caller.
WithdrawAll(tx, h) == FoldLeft(WithdrawAllOf, TouchEmptied(tx, h), SetToSeq(DOMAIN tx.sup))

Closed(tx, q) ==
  IF ~q.close \/ ~tx.ok THEN tx
  ELSE IF tx.debt # Empty THEN Refuse(tx)
  ELSE WithdrawAll(tx, q.collateral)

RepaidWithCollateral(tx, q) ==
  IF q.collateral # q.debt THEN RepayViaSwap(tx, q)
  ELSE IF q.route.set THEN Refuse(tx)
  ELSE NetSettle(tx, q.debt, q.amount)

RepayDebtWithCollateral(L, caller, id, q) ==
  LET tx == Open(L, id)
  IN  IF q.amount > 0 /\ CanManage(L, caller, id) /\ Prefetched(tx, {q.collateral, q.debt})
        THEN FinishStrategy(L, Closed(RepaidWithCollateral(tx, q), q))
        ELSE NotStarted(L)

-----------------------------------------------------------------------------
(* flash_loan.rs: the loan is settled in the pool, between its own legs.    *)

FlashLoan(L, q) ==
  LET p    == Params[q.asset]
      sync == GlobalSync(p, L.market[q.asset], now)
      leg  == BookFlashFee(p, sync.m, FlashLoanFeeOn(p.flashloan_fee, q.amount))
  IN  [ok |-> /\ q.amount > 0 /\ p.is_flashloanable
              /\ sync.ok /\ q.amount <= sync.m.cash /\ leg.ok,
       L  |-> [L EXCEPT !.market[q.asset] = leg.m], held |-> held]

-----------------------------------------------------------------------------
(* migrate_blend.rs.  q.caps is a sequence of [asset, amount] to borrow,    *)
(* q.withdraw the markets for the assets to sweep, all in one hub; Blend    *)
(* takes q.taken of the caps and returns q.swept.                           *)

ValidMigration(q) ==
  /\ q.caps # <<>> \/ q.withdraw # {}
  /\ blend_approved
  /\ \A i, j \in DOMAIN q.caps : q.caps[i].asset = q.caps[j].asset => i = j
  /\ \A i \in DOMAIN q.caps : q.caps[i].amount > 0

BorrowCap(tx, p) == BorrowIntoController(tx, p.asset, p.amount, FALSE)

BlendTakes(tx, q) ==
  [tx EXCEPT !.held = [t \in DOMAIN @ |->
     @[t] - MapThenSumSet(LAMBDA h : q.taken[h], {h \in DOMAIN q.taken : AssetOf[h] = t})]]

BlendReturns(tx, q) ==
  [tx EXCEPT !.held = [t \in DOMAIN @ |->
     @[t] + MapThenSumSet(LAMBDA h : q.swept[h], {h \in q.withdraw : AssetOf[h] = t})]]

\* reconcile_debt_refunds: what Blend did not need repays the hub debt.
ReconcileRefunds(tx, q, before) ==
  LET refund(t, p) == t.held[AssetOf[p.asset]] - before[AssetOf[p.asset]]
      settle(t, p) == IF t.ok /\ refund(t, p) > 0 THEN RepayFromController(t, p.asset, refund(t, p)) ELSE t
  IN  FoldLeft(settle, tx, q.caps)

BlendServed(lent, q, before) ==
  IF lent.ok THEN ReconcileRefunds(BlendTakes(lent, q), q, before) ELSE lent

MigratedDebt(tx, q) == BlendServed(FoldLeft(BorrowCap, tx, q.caps), q, tx.held)

Receipts(tx, q, before) ==
  LET got == SetToSeq({h \in q.withdraw : tx.held[AssetOf[h]] > before[AssetOf[h]]})
  IN  [i \in DOMAIN got |-> [asset |-> got[i], amount |-> tx.held[AssetOf[got[i]]] - before[AssetOf[got[i]]]]]

\* deposit_withdrawn: only what arrived, and nothing when nothing did.
DepositReceipts(tx, payments) == IF payments = <<>> THEN tx ELSE DepositHeld(tx, payments)

DepositWithdrawn(tx, q, before) == DepositReceipts(tx, Receipts(tx, q, before))

MigratedSupply(tx, q) ==
  IF tx.ok THEN DepositWithdrawn(BlendReturns(tx, q), q, tx.held) ELSE tx

MigrateFrom(L, tx, q) ==
  IF /\ Prefetched(tx, q.withdraw \cup Assets(q.caps))
     /\ \A h \in q.withdraw : CanSupply(tx.spoke, h)
    THEN FinishStrategy(L, MigratedSupply(MigratedDebt(tx, q), q))
    ELSE NotStarted(L)

MigrateFromBlend(L, caller, id, spoke, q) ==
  LET acc == LoadOrCreate(L, caller, id, spoke, "Normal", FALSE)
  IN  IF ValidMigration(q) /\ acc.ok THEN MigrateFrom(acc.L, Open(acc.L, acc.id), q) ELSE NotStarted(L)

-----------------------------------------------------------------------------
(* flash_position.rs                                                        *)

\* Uniqueness is by token: two hubs share one controller balance.
ValidCollaterals(tx, cs) ==
  /\ cs # <<>> /\ Len(cs) <= limits.supply
  /\ \A i, j \in DOMAIN cs : AssetOf[cs[i].asset] = AssetOf[cs[j].asset] => i = j
  /\ \A i \in DOMAIN cs : cs[i].amount >= 0
  /\ \E i \in DOMAIN cs : cs[i].amount > 0
  /\ SupplyGates(tx, Assets(cs))

ValidRefunds(tx, q) ==
  /\ Cardinality(q.refunds) <= limits.supply
  /\ \A h \in q.refunds : /\ HubOf[h] = HubOf[q.debt]
                          /\ Listed(tx.spoke, h) /\ tx.spoke \notin deprecated
                          /\ \A i \in DOMAIN q.collaterals : AssetOf[q.collaterals[i].asset] # AssetOf[h]

\* mint_and_forward, within the guard of the whole callback.
Forward(minted, t) == IF minted.ok THEN Send(minted, t, minted.out) ELSE minted

MintAndForward(tx, q) ==
  Forward(BorrowIntoController([tx EXCEPT !.guard = TRUE], q.debt, q.amount, FALSE), AssetOf[q.debt])

FlashOpening(L, tx, q) ==
  IF ValidCollaterals(tx, q.collaterals) /\ ValidRefunds(tx, q)
       /\ Prefetched(tx, {q.debt} \cup Assets(q.collaterals))
    THEN [active |-> TRUE, L |-> L, tx |-> MintAndForward(tx, q), q |-> q,
          before |-> held, start |-> s, entry_price |-> price]
    ELSE [active |-> FALSE]

FlashOpened(L, caller, id, spoke, q) ==
  LET acc == LoadOrCreate(L, caller, id, spoke, q.mode, TRUE)
  IN  IF q.amount > 0 /\ q.mode \in Modes /\ Params[q.debt].is_flashloanable /\ acc.ok
        THEN FlashOpening(acc.L, Open(acc.L, acc.id), q)
        ELSE [active |-> FALSE]

Delta(tx, h) == tx.held[AssetOf[h]] - flash.before[AssetOf[h]]

MinimumsMet(tx, cs) == \A i \in DOMAIN cs : Delta(tx, cs[i].asset) >= cs[i].amount

\* collect_collateral_deposits
Collected(tx, cs) ==
  SelectSeq([i \in DOMAIN cs |-> [asset |-> cs[i].asset, amount |-> Delta(tx, cs[i].asset)]],
            LAMBDA p : p.amount > 0)

\* refund_listed_assets
Refunded(tx, assets) ==
  [tx EXCEPT !.held = [t \in DOMAIN @ |->
     IF \E h \in assets : AssetOf[h] = t THEN Least(@[t], flash.before[t]) ELSE @[t]]]

StillOpen(tx, h) == h \in DOMAIN tx.debt /\ tx.sup # Empty

FlashSettled(tx, q) ==
  IF MinimumsMet(tx, q.collaterals) /\ Collected(tx, q.collaterals) # <<>>
    THEN Refunded(DepositHeld(tx, Collected(tx, q.collaterals)), q.refunds)
    ELSE Refuse(tx)

FlashFinished(tx) ==
  IF tx.ok /\ StillOpen(tx, flash.q.debt) THEN StrategyFinalize(flash.L, tx) ELSE NotStarted(s)

FlashResult == FlashFinished(FlashSettled([flash.tx EXCEPT !.guard = FALSE], flash.q))

-----------------------------------------------------------------------------
(* Actions.                                                                 *)

NotFlashLoaning == flash.active => ~flash.tx.guard

Done(kind, id, q) == [kind |-> kind, id |-> id, q |-> q]

CommitStrategy(r, done) ==
  /\ r.ok
  /\ s' = r.L
  /\ held' = r.held
  /\ last' = done
  /\ UNCHANGED <<env, paused, gifts, blend_approved, flash>>

\* A strategy opens an account for the id zero.
NewOrOwn == Ids \cup {n \in {0} : s.next_id <= MaxAccounts}
Opened(id) == IF id = 0 THEN s.next_id ELSE id

MultiplyAction ==
  \E u \in User, sp \in Spoke, q \in Multiplies, id \in NewOrOwn :
    CommitStrategy(Multiply(s, u, id, sp, q), Done("multiply", Opened(id), q))

SwapDebtAction ==
  \E u \in User, id \in Ids, q \in DebtSwaps : CommitStrategy(SwapDebt(s, u, id, q), Done("swap_debt", id, q))

SwapCollateralAction ==
  \E u \in User, id \in Ids, q \in CollateralSwaps :
    CommitStrategy(SwapCollateral(s, u, id, q), Done("swap_collateral", id, q))

RepayWithCollateralAction ==
  \E u \in User, id \in Ids, q \in CollateralRepays :
    CommitStrategy(RepayDebtWithCollateral(s, u, id, q), Done(IF q.close THEN "close" ELSE "repay", id, q))

FlashLoanAction == \E q \in FlashLoans : CommitStrategy(FlashLoan(s, q), NoStrategy)

MigrateAction ==
  \E u \in User, sp \in Spoke, q \in Migrations, id \in NewOrOwn :
    CommitStrategy(MigrateFromBlend(s, u, id, sp, q), Done("migrate", Opened(id), q))

Suspend(f) ==
  /\ f.active /\ f.tx.ok
  /\ flash' = f
  /\ last' = NoStrategy
  /\ UNCHANGED <<env, s, paused, held, gifts, blend_approved>>

FlashOpenAction ==
  \E u \in User, sp \in Spoke, q \in FlashPositions, id \in NewOrOwn : Suspend(FlashOpened(s, u, id, sp, q))

\* The receiver sends tokens to the controller ...
CallbackSend ==
  /\ flash.active
  /\ \E g \in CallbackSends :
       /\ flash.tx.held[g.token] = flash.before[g.token]
       /\ flash' = [flash EXCEPT !.tx.held[g.token] = @ + g.amount]
  /\ UNCHANGED <<env, s, paused, held, gifts, blend_approved, last>>

\* ... or delivers a signed price to the oracle.
CallbackPrice ==
  /\ flash.active
  /\ \E t \in DOMAIN price : \E p \in PriceSets[t] \ {0, price[t]} : price' = [price EXCEPT ![t] = p]
  /\ UNCHANGED <<listing, deprecated, curve, limits, floor, now, s, paused, held, gifts, blend_approved, flash, last>>

\* Tokens of a callback that the request names neither as collateral nor as
\* refund stay with the controller.
FlashClose ==
  /\ flash.active
  /\ FlashResult.ok
  /\ s' = FlashResult.L
  /\ held' = FlashResult.held
  /\ gifts' = [t \in DOMAIN gifts |->
       IF t \in {AssetOf[h] : h \in Assets(flash.q.collaterals) \cup flash.q.refunds}
         THEN gifts[t] ELSE gifts[t] + Delta(flash.tx, CHOOSE h \in DOMAIN s.market : AssetOf[h] = t)]
  /\ flash' = NoFlash
  /\ last' = Done("flash", flash.tx.id, flash.q)
  /\ UNCHANGED <<env, paused, blend_approved>>

\* A callback that does not deliver undoes everything, its own doings included.
FlashRevert ==
  /\ flash.active
  /\ ~FlashResult.ok
  /\ s' = flash.start
  /\ price' = flash.entry_price
  /\ flash' = NoFlash
  /\ last' = NoStrategy
  /\ UNCHANGED <<listing, deprecated, curve, limits, floor, now, paused, held, gifts, blend_approved>>

Donate ==
  /\ \E t \in DOMAIN held :
       /\ gifts[t] < MaxGifts
       /\ held' = [held EXCEPT ![t] = @ + 1]
       /\ gifts' = [gifts EXCEPT ![t] = @ + 1]
  /\ last' = NoStrategy
  /\ UNCHANGED <<env, s, paused, blend_approved, flash>>

\* set_blend_pool_approval
SetBlendApproval ==
  /\ blend_approved' = ~blend_approved
  /\ last' = NoStrategy
  /\ UNCHANGED <<env, s, paused, held, gifts, flash>>

StrategyAction ==
  /\ ~paused
  /\ NotFlashLoaning
  /\ MultiplyAction \/ SwapDebtAction \/ SwapCollateralAction \/ RepayWithCollateralAction
       \/ FlashLoanAction \/ MigrateAction \/ FlashOpenAction

PlainAction ==
  /\ NotFlashLoaning
  /\ Next
  /\ last' = NoStrategy
  /\ UNCHANGED <<held, gifts, blend_approved, flash>>

BetweenStrategies == ~flash.active /\ (Donate \/ SetBlendApproval)

StrategyStep ==
  \/ StrategyAction \/ BetweenStrategies
  \/ CallbackSend \/ CallbackPrice \/ FlashClose \/ FlashRevert

StrategyNext == PlainAction \/ StrategyStep

-----------------------------------------------------------------------------
(* What the strategies keep true.                                           *)

\* The controller is nobody's purse: between transactions it owns exactly what
\* was sent to it unasked.  Whatever the router leaves over, the pool refunds,
\* Blend does not need or a callback returns is deposited, repaid or passed on
\* to the caller, and none of it is ever paid from the tokens that were there.
HeldIsGifts == held = gifts

\* While a flash position holds an account in memory across the callback,
\* nothing changes the stored ledger it will overwrite: the guard stays up
\* although borrow_into_controller sets and restores it on the way.
NothingMovesUnderFlash == flash.active => s = flash.start

EntryQuotes(market) ==
  LET before == IF flash.active THEN flash.entry_price ELSE price
  IN  [h \in DOMAIN market |-> [Quotes(market)[h] EXCEPT !.price = before[AssetOf[h]]]] @@ Empty

AllQuoted == \A h \in DOMAIN s.market : EntryQuotes(s.market)[h].price > 0

EntryHealth(L, id) == RiskTotals(L.supply[id], L.debt[id], EntryQuotes(L.market)).health_factor

\* At the prices a transaction starts from, no call by anyone, the owner
\* included, makes a healthy account liquidatable: only a price, the passing of
\* time or a write-off that lowers the supply index does.  A flash position is
\* judged at the prices before its callback.  Worse terms reach a position only
\* while it keeps a health factor of 1.05 under them.
OnlyMarketsMakeUnhealthy ==
  [][(flash.active \/ price' = price) /\ now' = now /\ AllQuoted /\ SameSupplyIndexes(s, s') =>
       \A id \in Ids \cap DOMAIN s'.account :
         EntryHealth(s, id) >= Wad => EntryHealth(s', id) >= Wad]_<<vars, strategy>>

\* A completed strategy leaves its account within its borrowing power, its
\* health factor, its collateral floor and the whole-unit minimum, at the
\* prices of the transaction's start and on the listed LTV, however the legs
\* went and whatever prices the callback brought in.
SolventAtEntryPrices ==
  [][last'.kind # "none" /\ last'.id \in DOMAIN s'.account =>
       PostPoolRiskGates(s'.supply[last'.id], s'.debt[last'.id], EntryQuotes(s'.market), floor)]_<<vars, strategy>>

=============================================================================
