----------------------------- MODULE PoolState ------------------------------
(***************************************************************************)
(* The state of the liquidity pool (contracts/pool/src), of the            *)
(* controller's books and of the token balances, and the steps that every  *)
(* operation of the pool is made of: load and sync a market, commit it,    *)
(* store the positions the pool hands back, move the tokens.               *)
(***************************************************************************)
EXTENDS PoolLegs, FiniteSets, Functions

CONSTANTS
  Account,      \* account ids of the controller
  HubAsset,     \* market keys (hub_id, asset)
  Asset,        \* token contracts
  AssetOf,      \* the token of a market key
  ParamSets,    \* market parameters the owner may propose
  Amount,       \* token amounts in requests
  Fee,          \* protocol fees a liquidation passes to withdraw
  Shares,       \* share amounts a Credit-mode liquidation takes as fee
  Donation,     \* amounts sent to the pool outside any entrypoint
  TokenSupply,  \* bound: tokens of each asset in existence
  MaxTime       \* bound: the clock stops here

ASSUME FiniteAssumption == IsFiniteSet(Account) /\ IsFiniteSet(HubAsset)
ASSUME AssetAssumption  == AssetOf \in [HubAsset -> Asset]
ASSUME ParamAssumption  == ParamSets \subseteq MarketParams
ASSUME AmountAssumption == /\ Amount \subseteq Nat /\ Fee \subseteq Nat
                           /\ Shares \subseteq Nat /\ Donation \subseteq Nat
ASSUME BoundAssumption  == TokenSupply \in Nat /\ MaxTime \in Nat

VARIABLES
  market,   \* PoolKey::State, a function on the created markets
  params,   \* PoolKey::Params, same domain
  balance,  \* tokens the pool holds, per asset
  wallet,   \* tokens everybody else holds, per asset
  donated,  \* history: tokens that were sent to the pool outside any entrypoint
  deposit,  \* controller books: scaled supply per account and market
  debt,     \* controller books: scaled debt per account and market
  flash,    \* the flash loan in progress, or NoFlash
  now       \* ledger time

vars   == <<market, params, balance, wallet, donated, deposit, debt, flash, now>>
books  == <<deposit, debt>>
tokens == <<balance, wallet, donated>>

NoFlash == [amount |-> 0]
Idle    == flash = NoFlash     \* FlashLoanOngoing is not set

Created == DOMAIN market
Synced(h) == GlobalSync(params[h], market[h], now)

-----------------------------------------------------------------------------
(* Batches.  run_batch rejects a batch that names a market twice, so a      *)
(* batch is a function from distinct markets; its legs touch disjoint       *)
(* market states and commute.                                               *)

Batches(S) == UNION {[M -> S] : M \in SUBSET Created \ {{}}}

Commit(leg) ==
  market' = [h \in Created |-> IF h \in DOMAIN leg THEN leg[h].m ELSE market[h]]

\* The position of account a in each market of the batch becomes leg's.
Rebook(book, a, leg) ==
  [book EXCEPT ![a] = [h \in HubAsset |-> IF h \in DOMAIN leg THEN leg[h].position ELSE @[h]]]

OfAsset(M, t) == {h \in M : AssetOf[h] = t}

\* The payer sends in[h] tokens for market h, then the pool sends leg[h].out.
Move(leg, in) ==
  LET out    == [h \in DOMAIN leg |-> leg[h].out]
      In(t)  == SumFunctionOnSet(in, OfAsset(DOMAIN leg, t))
      Out(t) == SumFunctionOnSet(out, OfAsset(DOMAIN leg, t))
  IN  /\ \A t \in Asset : In(t) <= wallet[t] /\ Out(t) <= balance[t] + In(t)
      /\ balance' = [t \in Asset |-> balance[t] + In(t) - Out(t)]
      /\ wallet' = [t \in Asset |-> wallet[t] - In(t) + Out(t)]
      /\ UNCHANGED donated

NoTokens(leg) == [h \in DOMAIN leg |-> 0]

AllOk(leg) == \A h \in DOMAIN leg : Synced(h).ok /\ leg[h].ok

-----------------------------------------------------------------------------
(* Sums.                                                                    *)

Total(book, h) == SumFunctionOnSet([a \in Account |-> book[a][h]], Account)

Outstanding(t) == IF ~Idle /\ AssetOf[flash.hub_asset] = t THEN flash.amount ELSE 0

CashOf(t) == SumFunctionOnSet([h \in Created |-> market[h].cash], OfAsset(Created, t))
=============================================================================
