----------------------------- MODULE Positions -----------------------------
(***************************************************************************)
(* What one controller transaction does to an account: controller/src,     *)
(* positions, account.rs, context.rs and spoke_usage.rs, composed with the *)
(* pool's legs and the liquidation plan.                                   *)
(*                                                                         *)
(* L is what the contracts store: the pool's markets, the accounts (NFT    *)
(* owner, spoke and mode), their supply and debt maps, the usage rows of   *)
(* each spoke and the next account id.  tx is what an invocation holds in  *)
(* memory, the loaded account and the Context: the position maps, the      *)
(* usage rows of the one spoke it is bound to, and the prices and indexes  *)
(* `mk' of the current time.  A flow takes L and returns [ok, L], with     *)
(* ok = FALSE where the code panics and the transaction reverts.           *)
(*                                                                         *)
(* Amounts are those measured at the receiver.  Delegates are the subject  *)
(* of Accounts: here an account is managed by its owner.                   *)
(***************************************************************************)
EXTENDS PoolLegs, LiquidationMath

CONSTANTS
  HubAsset,   \* the markets: an asset in a hub
  AssetOf,    \* HubAsset -> the token, which has the price
  Params      \* HubAsset -> the market's parameters

VARIABLES
  listing,    \* spoke -> (HubAsset -> SpokeAssetConfig), listed assets only
  deprecated, \* the spokes that are closed to new exposure
  curve,      \* spoke -> its liquidation curve
  price,      \* token -> its usable price, 0 while there is none
  limits,     \* PositionLimits: [supply, borrow]
  floor,      \* the minimum LTV collateral of an account in debt
  now

env == <<listing, deprecated, curve, price, limits, floor, now>>

Empty == <<>>

Reverted(L) == [ok |-> FALSE, L |-> L]

-----------------------------------------------------------------------------
(* context.rs: prices, indexes, listings.                                   *)

Priced(assets) == \A h \in assets : price[AssetOf[h]] > 0

Quote(h, m) ==
  [price |-> price[AssetOf[h]], unit |-> Params[h].unit,
   supply_index |-> m.supply_index, borrow_index |-> m.borrow_index]

\* Each market at the current time, as global_sync leaves it.  (Tabulated, as in
\* the Context: `@@' evaluates each entry once.)
Synced(market) == [h \in DOMAIN market |-> GlobalSync(Params[h], market[h], now)] @@ Empty

\* The prices and the indexes of the current time, whether or not the market
\* was synced.
QuotesAt(synced) == [h \in DOMAIN synced |-> Quote(h, synced[h].m)] @@ Empty

Quotes(market) == QuotesAt(Synced(market))

Listed(spoke, h) == h \in DOMAIN listing[spoke]

Halted(spoke, h, flags) == Listed(spoke, h) /\ listing[spoke][h].flags \cap flags # {}

BlockOnEntry == {"paused", "frozen"}
AllowOnExit  == {"paused"}
SeizureLeg   == {"no_seize"}

CanEnter(spoke, h) ==
  spoke \notin deprecated /\ Listed(spoke, h) /\ ~Halted(spoke, h, BlockOnEntry)

CanSupply(spoke, h) == CanEnter(spoke, h) /\ listing[spoke][h].can_collateral
CanBorrow(spoke, h) == CanEnter(spoke, h) /\ listing[spoke][h].can_borrow

-----------------------------------------------------------------------------
(* Loading and storing an account.                                          *)

\* create_account_with: mints the NFT and stores the metadata.
CreateAccount(L, owner, spoke, mode) ==
  [L EXCEPT !.account = (L.next_id :> [owner |-> owner, spoke |-> spoke, mode |-> mode]) @@ @,
            !.supply = (L.next_id :> Empty) @@ @,
            !.debt = (L.next_id :> Empty) @@ @,
            !.next_id = @ + 1]

RemoveAccount(L, id) ==
  [L EXCEPT !.account = Restrict(@, DOMAIN @ \ {id}),
            !.supply = Restrict(@, DOMAIN @ \ {id}),
            !.debt = Restrict(@, DOMAIN @ \ {id})]

BeginAt(L, id, synced) ==
  [ok |-> TRUE, id |-> id, spoke |-> L.account[id].spoke, sup |-> L.supply[id], debt |-> L.debt[id],
   rows |-> L.usage[L.account[id].spoke], market |-> L.market, synced |-> synced, mk |-> QuotesAt(synced)]

Begin(L, id) == BeginAt(L, id, Synced(L.market))

\* get_account_borrow_only: the supply map stays empty in memory.
BeginBorrowOnly(L, id) == [Begin(L, id) EXCEPT !.sup = Empty]

Refuse(tx) == [tx EXCEPT !.ok = FALSE]

\* set_spoke_usage deletes a row that is zero on both sides.
NonZeroRows(rows) ==
  Restrict(rows, {h \in DOMAIN rows : rows[h].supplied # 0 \/ rows[h].borrowed # 0})

\* cleanup_account_if_empty looks at the maps in memory.
EmptyInMemory(tx) == DOMAIN tx.sup = {} /\ DOMAIN tx.debt = {}

Stored(L, tx, sides) ==
  [L EXCEPT !.market = tx.market,
            !.usage[tx.spoke] = NonZeroRows(tx.rows),
            !.supply[tx.id] = IF sides # "debt" THEN tx.sup ELSE @,
            !.debt[tx.id] = IF sides # "supply" THEN tx.debt ELSE @]

\* finalize_position_flow
Finalize(L, tx, sides, remove_if_empty) ==
  [ok |-> tx.ok,
   L  |-> IF remove_if_empty /\ EmptyInMemory(tx)
            THEN RemoveAccount(Stored(L, tx, sides), tx.id)
            ELSE Stored(L, tx, sides)]

-----------------------------------------------------------------------------
(* spoke_usage.rs                                                           *)

NoUsage == [supplied |-> 0, borrowed |-> 0]

Row(tx, h) == IF h \in DOMAIN tx.rows THEN tx.rows[h] ELSE NoUsage

SetRow(tx, h, row) == [tx EXCEPT !.rows = (h :> row) @@ @]

\* calculate_scaled_cap: the cap in shares, saturated.
ScaledCap(cap, unit, index) == Least(RayDivFloor(FromAsset(cap, unit), index), MaxI128)

UsageEntry(tx, side, h, delta, cap, index) ==
  LET next == Row(tx, h)[side] + delta
  IN  SetRow([tx EXCEPT !.ok = @ /\ next <= ScaledCap(cap, Params[h].unit, index)],
             h, [Row(tx, h) EXCEPT ![side] = next])

UsageExit(tx, side, h, delta) ==
  IF delta = 0 \/ h \notin DOMAIN tx.rows
    THEN tx
    ELSE SetRow([tx EXCEPT !.ok = @ /\ tx.rows[h][side] >= delta],
                h, [tx.rows[h] EXCEPT ![side] = @ - delta])

-----------------------------------------------------------------------------
(* Position maps: a leg of zero shares is removed.                          *)

PutSupply(tx, h, leg) ==
  [tx EXCEPT !.sup = IF leg.scaled = 0 THEN Restrict(@, DOMAIN @ \ {h}) ELSE (h :> leg) @@ @]

PutDebt(tx, h, scaled) ==
  [tx EXCEPT !.debt = IF scaled = 0 THEN Restrict(@, DOMAIN @ \ {h}) ELSE (h :> scaled) @@ @]

Stamped(cfg, scaled) ==
  [scaled |-> scaled, ltv |-> cfg.ltv, thr |-> cfg.thr, bonus |-> cfg.bonus, fees |-> cfg.fees]

SupplyPosition(tx, h, cfg) == IF h \in DOMAIN tx.sup THEN tx.sup[h] ELSE Stamped(cfg, 0)
DebtPosition(tx, h) == IF h \in DOMAIN tx.debt THEN tx.debt[h] ELSE 0

\* Every leg syncs its market first.  The second leg in a market finds it synced
\* and global_sync does nothing.
Touch(tx, h) == tx.synced[h]

\* The pool's answer to one leg: the market it commits, or a trap.
Took(tx, h, leg) ==
  [tx EXCEPT !.ok = @ /\ Touch(tx, h).ok /\ leg.ok, !.market[h] = leg.m, !.synced[h].m = leg.m]

\* The health-factor gate of a refresh needs every price of the account.
RefreshPriced(tx, h, leg, cfg) ==
  FavorsLiquidator(leg, cfg) /\ DOMAIN tx.debt # {}
    => Priced(DOMAIN tx.sup \cup {h} \cup DOMAIN tx.debt)

Refreshed(tx, h, leg, cfg) ==
  PutSupply([tx EXCEPT !.ok = @ /\ RefreshPriced(tx, h, leg, cfg)], h,
            RefreshLeg(tx.sup, tx.debt, tx.mk, h, leg, cfg, TRUE))

-----------------------------------------------------------------------------
(* positions/mod.rs: gates.                                                 *)

Assets(payments) == {payments[i].asset : i \in DOMAIN payments}

SupplyGates(tx, assets) ==
  /\ WithinPositionLimit(DOMAIN tx.sup, assets, limits.supply)
  /\ WholeUnitIsolated(DOMAIN tx.sup, assets, tx.mk)
  /\ \A h \in assets : CanSupply(tx.spoke, h)

BorrowGates(tx, assets) ==
  /\ WithinPositionLimit(DOMAIN tx.debt, assets, limits.borrow)
  /\ \A h \in assets : CanBorrow(tx.spoke, h)

\* A new leg on an account in debt needs a live price.
NewLegsPriced(tx, assets) == DOMAIN tx.debt # {} => Priced(assets \ DOMAIN tx.sup)

\* enforce_post_pool_solvency, on the account it restamps.
Restamped(tx) == [tx EXCEPT !.sup = RestampListedLtv(@, listing[tx.spoke])]

\* Mutant: every price is read before the debt is looked at.
GatedAlwaysPriced(tx) ==
  [tx EXCEPT !.ok = /\ @
                    /\ Priced(DOMAIN tx.sup \cup DOMAIN tx.debt)
                    /\ PostPoolRiskGates(tx.sup, tx.debt, tx.mk, floor)]

Gated(tx) ==
  [tx EXCEPT !.ok = /\ @
                    /\ DOMAIN tx.debt # {} => Priced(DOMAIN tx.sup \cup DOMAIN tx.debt)
                    /\ PostPoolRiskGates(tx.sup, tx.debt, tx.mk, floor)]

Solvent(tx) == Gated(Restamped(tx))

-----------------------------------------------------------------------------
(* positions/supply.rs: deposits.                                           *)

\* merge_supply_leg, for the shares `scaled' the pool hands back.
MergeSupplyLeg(tx, h, old, scaled, cfg) ==
  UsageEntry(Refreshed(tx, h, [old EXCEPT !.scaled = scaled], cfg),
             "supplied", h, scaled - old.scaled, cfg.supply_cap, tx.mk[h].supply_index)

SupplyPayment(tx, p) ==
  LET cfg == listing[tx.spoke][p.asset]
      old == SupplyPosition(tx, p.asset, cfg)
      leg == SupplyLeg(Params[p.asset], Touch(tx, p.asset).m, old.scaled, p.amount)
  IN  MergeSupplyLeg(Took(tx, p.asset, leg), p.asset, old, leg.position, cfg)

\* process_deposit
Deposit(tx, payments) ==
  IF SupplyGates(tx, Assets(payments)) /\ NewLegsPriced(tx, Assets(payments))
    THEN FoldLeft(SupplyPayment, tx, payments)
    ELSE Refuse(tx)

\* require_third_party_existing_supply
MayAdd(L, caller, id, payments) ==
  L.account[id].owner = caller \/ Assets(payments) \subseteq DOMAIN L.supply[id]

SupplyTo(L, id, payments) ==
  Finalize(L, Deposit(Begin(L, id), AggregatePayments(payments)), "supply", FALSE)

SupplyNew(L, caller, spoke, payments) ==
  IF PaymentsAllowed(payments, FALSE) /\ spoke \notin deprecated
    THEN SupplyTo(CreateAccount(L, caller, spoke, "Normal"), L.next_id, payments)
    ELSE Reverted(L)

SupplyExisting(L, caller, id, payments) ==
  IF PaymentsAllowed(payments, FALSE) /\ MayAdd(L, caller, id, payments)
    THEN SupplyTo(L, id, payments)
    ELSE Reverted(L)

-----------------------------------------------------------------------------
(* positions/supply.rs: withdrawals.                                        *)

\* merge_withdraw_leg: a liquidation keeps the stamps, an exit refreshes them.
MergeWithdrawLeg(tx, h, scaled, is_liquidation) ==
  LET leg  == [tx.sup[h] EXCEPT !.scaled = scaled]
      used == UsageExit(tx, "supplied", h, tx.sup[h].scaled - scaled)
  IN  IF ~is_liquidation /\ Listed(tx.spoke, h) /\ scaled # 0
        THEN Refreshed(used, h, leg, listing[tx.spoke][h])
        ELSE PutSupply(used, h, leg)

WithdrawFrom(tx, h, amount, is_liquidation, fee) ==
  LET leg == WithdrawLeg(Params[h], Touch(tx, h).m, tx.sup[h].scaled, amount, is_liquidation, fee)
  IN  MergeWithdrawLeg(Took(tx, h, leg), h, leg.position, is_liquidation)

WithdrawPayment(tx, p) ==
  WithdrawFrom(tx, p.asset, IF p.amount = 0 THEN MaxI128 ELSE p.amount, FALSE, 0)

\* settle_withdraw: a missing listing never blocks an exit.
SettleWithdraw(tx, payments) ==
  IF \A h \in Assets(payments) : h \in DOMAIN tx.sup /\ ~Halted(tx.spoke, h, AllowOnExit)
    THEN FoldLeft(WithdrawPayment, tx, payments)
    ELSE Refuse(tx)

Withdraw(L, id, payments) ==
  IF PaymentsAllowed(payments, TRUE)
    THEN Finalize(L, Solvent(SettleWithdraw(Begin(L, id), AggregatePayments(payments))), "supply", TRUE)
    ELSE Reverted(L)

-----------------------------------------------------------------------------
(* positions/debt.rs                                                        *)

MergeBorrowLeg(tx, h, scaled) ==
  PutDebt(UsageEntry(tx, "borrowed", h, scaled - DebtPosition(tx, h),
                     listing[tx.spoke][h].borrow_cap, tx.mk[h].borrow_index), h, scaled)

MergeRepayLeg(tx, h, scaled) ==
  PutDebt(UsageExit(tx, "borrowed", h, tx.debt[h] - scaled), h, scaled)

BorrowPayment(tx, p) ==
  LET leg == BorrowLeg(Params[p.asset], Touch(tx, p.asset).m, DebtPosition(tx, p.asset), p.amount)
  IN  MergeBorrowLeg(Took(tx, p.asset, leg), p.asset, leg.position)

RepayPayment(tx, p) ==
  LET leg == RepayLeg(Params[p.asset], Touch(tx, p.asset).m, tx.debt[p.asset], p.amount)
  IN  MergeRepayLeg(Took(tx, p.asset, leg), p.asset, leg.position)

SettleBorrow(tx, payments) ==
  IF BorrowGates(tx, Assets(payments)) THEN FoldLeft(BorrowPayment, tx, payments) ELSE Refuse(tx)

SettleRepay(tx, payments) ==
  IF \A h \in Assets(payments) : h \in DOMAIN tx.debt /\ ~Halted(tx.spoke, h, AllowOnExit)
    THEN FoldLeft(RepayPayment, tx, payments)
    ELSE Refuse(tx)

\* The supply side is stored only when the solvency check restamped it.
FinishBorrow(L, before, after) ==
  Finalize(L, after, IF after.sup # before.sup THEN "both" ELSE "debt", FALSE)

BorrowWith(L, tx) == FinishBorrow(L, tx, Solvent(tx))

Borrow(L, id, payments) ==
  IF PaymentsAllowed(payments, FALSE)
    THEN BorrowWith(L, SettleBorrow(Begin(L, id), AggregatePayments(payments)))
    ELSE Reverted(L)

\* process_repay: the account in memory has no supply, so it is not removed.
Repay(L, id, payments) ==
  IF PaymentsAllowed(payments, FALSE)
    THEN Finalize(L, SettleRepay(BeginBorrowOnly(L, id), AggregatePayments(payments)), "debt", FALSE)
    ELSE Reverted(L)
=============================================================================
