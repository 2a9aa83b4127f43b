----------------------------- MODULE Controller -----------------------------
(***************************************************************************)
(* The lending controller as its users and its owner see it: one action    *)
(* per entry point of controller/src/lib.rs that changes positions,        *)
(* markets or listings, between price moves and the passing of time.  The  *)
(* strategies are the subject of Strategies, delegates and the NFT of      *)
(* Accounts, the epoch of the halt flags of Governance.                    *)
(***************************************************************************)
EXTENDS Seizures

CONSTANTS
  User, Spoke,
  Supplies, Borrows, Repayments, Withdrawals, Offers, \* payment lists that users send
  Losses,          \* what a debt token may withhold from a liquidator's transfer
  Recapitalizations, \* amounts sent to cover a shortfall
  Configs,         \* HubAsset -> the configurations the owner lists or edits it to
  FlagSets, LimitChoices, FloorChoices, CurveChoices, \* other settings of the owner
  PriceSets,       \* token -> the prices its feed moves between; 0 is an outage
  PositionLimitMax, MaxTargetHf,  \* POSITION_LIMIT_MAX, MAX_LIQUIDATION_TARGET_HF_WAD
  MaxAccounts, MaxTime            \* bounds: account ids and the clock

VARIABLES
  s,        \* the ledger of Positions
  paused    \* the contract's pause switch

vars == <<env, s, paused>>

Ids == DOMAIN s.account

\* The users' transactions leave the configuration and the world alone.
Commit(r) ==
  /\ r.ok
  /\ s' = r.L
  /\ UNCHANGED <<env, paused>>

-----------------------------------------------------------------------------
(* Users.                                                                   *)

SupplyAction ==
  /\ ~paused
  /\ \E u \in User, p \in Supplies :
       \/ \E sp \in Spoke : s.next_id <= MaxAccounts /\ Commit(SupplyNew(s, u, sp, p))
       \/ \E id \in Ids : Commit(SupplyExisting(s, u, id, p))

BorrowAction   == ~paused /\ \E id \in Ids, p \in Borrows : Commit(Borrow(s, id, p))
WithdrawAction == \E id \in Ids, p \in Withdrawals : Commit(Withdraw(s, id, p))
RepayAction    == \E id \in Ids, p \in Repayments : Commit(Repay(s, id, p))

LiquidateAction ==
  \E u \in User, id \in Ids, p \in Offers, loss \in Losses :
    \/ Commit(LiquidateTransfer(s, id, p, loss))
    \/ s.next_id <= MaxAccounts /\ Commit(LiquidateIntoNew(s, u, id, p, loss))
    \/ \E receiver \in Ids : Commit(LiquidateInto(s, u, id, p, loss, receiver))

CleanBadDebtAction == \E id \in Ids : Commit(CleanBadDebt(s, id))

UpdateThresholdAction ==
  ~paused /\ \E id \in Ids, full \in BOOLEAN : Commit(UpdateAccountThreshold(s, id, full))

-----------------------------------------------------------------------------
(* markets.rs: the pool's entry points that the controller forwards.        *)

UpdateIndexes(L, h) ==
  LET leg == GlobalSync(Params[h], L.market[h], now)
  IN  [ok |-> leg.ok, L |-> [L EXCEPT !.market[h] = leg.m]]

ClaimRevenue(L, h) ==
  LET leg == ClaimRevenueLeg(Params[h], GlobalSync(Params[h], L.market[h], now).m)
  IN  [ok |-> leg.ok, L |-> [L EXCEPT !.market[h] = leg.m]]

Recapitalize(L, h, amount) ==
  LET leg == RecapitalizeLeg(Params[h], GlobalSync(Params[h], L.market[h], now).m, amount)
  IN  [ok |-> leg.ok /\ amount > 0, L |-> [L EXCEPT !.market[h] = leg.m]]

MarketAction ==
  \E h \in HubAsset :
    \/ ~paused /\ Commit(UpdateIndexes(s, h))
    \/ ~paused /\ Commit(ClaimRevenue(s, h))
    \/ \E n \in Recapitalizations : Commit(Recapitalize(s, h, n))

-----------------------------------------------------------------------------
(* config: the owner.                                                       *)

ForceSocializeAction == \E id \in Ids : Commit(ForceSocialize(s, id))

SetPaused ==
  /\ paused' = ~paused
  /\ UNCHANGED <<env, s>>

\* upsert_spoke_asset, what a listing must satisfy.
ValidConfig(h, cfg) ==
  /\ cfg.thr > cfg.ltv /\ cfg.thr <= Bps
  /\ cfg.thr * (Bps + cfg.bonus) <= Bps * Bps
  /\ cfg.fees < Bps
  /\ cfg.supply_cap >= 0 /\ cfg.borrow_cap >= 0
  /\ Params[h].unit <= BorrowableUnit \/ (~cfg.can_borrow /\ cfg.fees = 0)

Relisted(spoke, h, cfg) ==
  /\ listing' = [listing EXCEPT ![spoke] = (h :> cfg) @@ @]
  /\ UNCHANGED <<deprecated, curve, price, limits, floor, now, s, paused>>

AddAsset(spoke, h, cfg) ==
  /\ spoke \notin deprecated
  /\ ~Listed(spoke, h)
  /\ ValidConfig(h, cfg)
  /\ Relisted(spoke, h, cfg)

EditAsset(spoke, h, cfg) ==
  /\ Listed(spoke, h)
  /\ listing[spoke][h].flags \subseteq cfg.flags
  /\ ValidConfig(h, cfg)
  /\ Relisted(spoke, h, cfg)

SetFlags(spoke, h, flags) ==
  /\ Listed(spoke, h)
  /\ listing[spoke][h].flags \subseteq flags
  /\ flags # listing[spoke][h].flags
  /\ Relisted(spoke, h, [listing[spoke][h] EXCEPT !.flags = flags])

RelaxFlags(spoke, h, flags) ==
  /\ Listed(spoke, h)
  /\ Relisted(spoke, h, [listing[spoke][h] EXCEPT !.flags = flags])

RemoveAsset(spoke, h) ==
  /\ Listed(spoke, h)
  /\ Row([rows |-> s.usage[spoke]], h) = NoUsage
  /\ listing' = [listing EXCEPT ![spoke] = Restrict(@, DOMAIN @ \ {h})]
  /\ UNCHANGED <<deprecated, curve, price, limits, floor, now, s, paused>>

ListingAction ==
  \E spoke \in Spoke, h \in HubAsset :
    \/ \E cfg \in Configs[h] : AddAsset(spoke, h, cfg) \/ EditAsset(spoke, h, cfg)
    \/ \E flags \in FlagSets : SetFlags(spoke, h, flags) \/ RelaxFlags(spoke, h, flags)
    \/ RemoveAsset(spoke, h)

\* remove_spoke: for good, whatever its accounts hold.
RemoveSpoke(spoke) ==
  /\ spoke \notin deprecated
  /\ deprecated' = deprecated \cup {spoke}
  /\ UNCHANGED <<listing, curve, price, limits, floor, now, s, paused>>

SetLiquidationCurve(spoke, c) ==
  /\ c.target_hf > Wad /\ c.target_hf <= MaxTargetHf
  /\ c.hf_for_max_bonus > 0 /\ c.hf_for_max_bonus < c.target_hf
  /\ c.bonus_factor > 0 /\ c.bonus_factor <= Bps
  /\ curve' = [curve EXCEPT ![spoke] = c]
  /\ UNCHANGED <<listing, deprecated, price, limits, floor, now, s, paused>>

SetPositionLimits(l) ==
  /\ l.supply \in 1..PositionLimitMax /\ l.borrow \in 1..PositionLimitMax
  /\ limits' = l
  /\ UNCHANGED <<listing, deprecated, curve, price, floor, now, s, paused>>

SetMinBorrowCollateral(usd) ==
  /\ usd >= 0
  /\ floor' = usd
  /\ UNCHANGED <<listing, deprecated, curve, price, limits, now, s, paused>>

OwnerAction ==
  \/ SetPaused
  \/ ListingAction
  \/ \E spoke \in Spoke : RemoveSpoke(spoke) \/ \E c \in CurveChoices : SetLiquidationCurve(spoke, c)
  \/ \E l \in LimitChoices : SetPositionLimits(l)
  \/ \E usd \in FloorChoices : SetMinBorrowCollateral(usd)
  \/ ForceSocializeAction

-----------------------------------------------------------------------------
(* The world.                                                               *)

PriceMoves ==
  /\ \E t \in DOMAIN price : \E p \in PriceSets[t] : p # price[t] /\ price' = [price EXCEPT ![t] = p]
  /\ UNCHANGED <<listing, deprecated, curve, limits, floor, now, s, paused>>

Tick ==
  /\ now < MaxTime
  /\ now' = now + 1
  /\ UNCHANGED <<listing, deprecated, curve, price, limits, floor, s, paused>>

Next ==
  \/ SupplyAction \/ BorrowAction \/ WithdrawAction \/ RepayAction
  \/ LiquidateAction \/ CleanBadDebtAction \/ UpdateThresholdAction
  \/ MarketAction
  \/ OwnerAction
  \/ PriceMoves \/ Tick

-----------------------------------------------------------------------------
(* What the controller keeps true.                                          *)

\* A controller with its markets created and no account yet.
EmptyLedger ==
  [market |-> [h \in HubAsset |-> NewMarket(now)], account |-> Empty, supply |-> Empty, debt |-> Empty,
   usage |-> [sp \in Spoke |-> Empty], next_id |-> 1]

SupplyOf(id, h) == IF h \in DOMAIN s.supply[id] THEN s.supply[id][h].scaled ELSE 0
DebtOf(id, h)   == IF h \in DOMAIN s.debt[id] THEN s.debt[id][h] ELSE 0

InSpoke(sp) == {id \in Ids : s.account[id].spoke = sp}

Held(id) == DOMAIN s.supply[id] \cup DOMAIN s.debt[id]

Health(id) == RiskTotals(s.supply[id], s.debt[id], Quotes(s.market)).health_factor

SameSupplyIndexes(L, L2) ==
  \A h \in DOMAIN L.market : Quotes(L2.market)[h].supply_index = Quotes(L.market)[h].supply_index

Flagged(id, assets, flags) == \E h \in assets : Halted(s.account[id].spoke, h, flags)

\* The pool's totals are the controller's positions: whatever mixture of
\* deposits, loans, liquidations in either mode and write-offs has happened,
\* the shares of all accounts and the protocol's revenue add up to `supplied',
\* and the scaled debts to `borrowed'.
TotalsMatchPositions ==
  \A h \in DOMAIN s.market :
    /\ MapThenSumSet(LAMBDA id : SupplyOf(id, h), Ids) + s.market[h].revenue = s.market[h].supplied
    /\ MapThenSumSet(LAMBDA id : DebtOf(id, h), Ids) = s.market[h].borrowed

\* The usage a spoke's caps are measured against is what its accounts hold,
\* although it is kept in rows of its own that each transaction loads, changes
\* in memory and stores again, and a missing row silently skips an exit.
UsageMatchesPositions ==
  \A sp \in DOMAIN s.usage, h \in DOMAIN s.market :
    Row([rows |-> s.usage[sp]], h) =
      [supplied |-> MapThenSumSet(LAMBDA id : SupplyOf(id, h), InSpoke(sp)),
       borrowed |-> MapThenSumSet(LAMBDA id : DebtOf(id, h), InSpoke(sp))]

\* Pool totals, cap usage and positions are three records of the same shares, and
\* every path that writes one of them writes the others.
BooksReconcile == TotalsMatchPositions /\ UsageMatchesPositions

\* A debt always has collateral left to be liquidated: the liquidation that
\* takes the last leg writes off the rest in the same transaction.
DebtIsBacked == \A id \in Ids : s.debt[id] # Empty => s.supply[id] # Empty

\* A borrower can always pay: unless the asset itself is paused, a repayment of
\* what is owed succeeds and closes the debt, with the controller paused, the
\* spoke deprecated, the asset frozen or the oracle out.
RepayAlwaysOpen ==
  \A id \in Ids : \A h \in DOMAIN s.debt[id] :
    ~Flagged(id, {h}, {"paused"}) =>
      LET r == Repay(s, id, <<[asset |-> h, amount |-> Owed(s.debt[id], Quotes(s.market), h)]>>)
      IN  r.ok /\ h \notin DOMAIN r.L.debt[id]

PoolPays(id, h, amount) ==
  WithdrawLeg(Params[h], GlobalSync(Params[h], s.market[h], now).m,
              s.supply[id][h].scaled, IF amount = 0 THEN MaxI128 ELSE amount, FALSE, 0).ok

\* A depositor without debt can leave, wholly or in part, whenever the pool has the cash: nothing
\* the controller checks (prices, listing, caps, limits, pause) is in the way.
DebtFreeExit ==
  \A id \in Ids : s.debt[id] = Empty =>
    \A h \in DOMAIN s.supply[id], amount \in {0, 1} :
      ~Flagged(id, {h}, {"paused"}) /\ PoolPays(id, h, amount)
        => Withdraw(s, id, <<[asset |-> h, amount |-> amount]>>).ok

FullOffer(id) ==
  LET order == SetToSeq(DOMAIN s.debt[id])
  IN  [i \in DOMAIN order |->
         [asset |-> order[i], amount |-> Owed(s.debt[id], Quotes(s.market), order[i])]]

Liquidable(id) ==
  /\ Priced(Held(id))
  /\ ~Flagged(id, DOMAIN s.debt[id], {"paused"})
  /\ ~Flagged(id, DOMAIN s.supply[id], {"no_seize"})
  /\ Health(id) < Wad

\* An unhealthy account can be liquidated for shares whatever the pool's cash,
\* the caps, the limits and the state of the spoke: only the flags that are
\* there to stop it, and a missing price, do.
LiquidationStaysOpen ==
  \A id \in Ids :
    Liquidable(id) => \A u \in User : LiquidateIntoNew(s, u, id, FullOffer(id), 0).ok

\* No sequence of legal calls locks anybody in: borrowers can repay, depositors
\* without debt can leave, and any other debt has collateral and can be
\* liquidated once it is unhealthy.
ExitsStayOpen == RepayAlwaysOpen /\ DebtFreeExit /\ DebtIsBacked /\ LiquidationStaysOpen

=============================================================================
