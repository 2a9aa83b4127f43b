# A verification of the XLM lending protocol

TLA+ modules for the contracts and services of this repository, model-checked
with TLC on small instances and, for the pool, governance, the signed-price oracle
and the accounts, proved with TLAPS for every instance. The modules are translated
from the Rust sources. `PROJECT.json` gives, for every definition, the lines it stands for;
for every run, its properties; for every property, a mutation of the code that
breaks it; and the hazards of the code with the properties that cover them.

1. [The system](#1-the-system)
2. [Modules](#2-modules)
3. [Runs](#3-runs)
4. [Proofs](#4-proofs)
5. [Only model-checked](#5-only-model-checked)
6. [Not modelled](#6-not-modelled)

## 1. The system

A lending protocol on Soroban. Users supply tokens, borrow against them, and are
liquidated when their collateral no longer covers their debt. Every contract
entrypoint is one transaction: it happens completely or, if anything in it
panics, not at all. Concurrency is therefore the interleaving of the transactions
of many users with time, prices and the administration, plus the places where
foreign code runs inside a transaction: the receiver of a flash loan, the venues of
a swap. Two services run beside the chain and see it through an RPC server that
fails, delays and loses.

| part | sources | state | operations |
|---|---|---|---|
| fixed point | `common/src/math` | none | products and quotients at 27 decimals in three rounding directions, conversion to token units |
| rates | `common/src/rates` | none | borrow curve, compounding, index updates, protocol fee, share conversions, read-only projection |
| pool | `contracts/pool` | per (hub, asset): supplied, borrowed and revenue shares, two indexes, clock, cash; parameters | supply, borrow, withdraw, repay, strategy, net settle, seize, claim revenue, recapitalize, flash loan, update indexes, create market, replace parameters |
| controller: positions | `contracts/controller/src/positions`, `account.rs` | accounts: supply and debt shares per market, risk snapshot | the user side of the pool's operations, account creation and removal, pause gates |
| controller: spokes | `config/`, `spoke_usage.rs` | listings with risk parameters, caps and flags; usage per listing | listing, editing, tightening and relaxing flags, cap accounting |
| controller: risk, liquidation | `risk/`, `positions/liquidation` | none of its own | health factor, liquidation plan and bonus curve, bad-debt cleanup and socialization |
| controller: strategies | `strategies/` | flash guard | multiply, swaps of debt and collateral, repayment with collateral, flash loans and positions, Blend migration |
| position NFT, delegates | `contracts/position-nft`, `storage/account.rs` | token owner; grants stamped by owner | mint, transfer, burn; grant and remove delegates |
| governance | `contracts/governance` | roles, owner, pending owner, minimum delay, scheduled operations with two marker tables | propose, execute, cancel, recovery of the canceller set, immediate guardian operations, ownership handover |
| price aggregator | `contracts/price-aggregator` | oracle configuration, sanity bands | admission of oracles, price resolution with staleness, tolerance and bounds |
| signed-price oracle | `contracts/xoxno-oracle` | per signer and feed the last submission; per feed the aggregate and a history; a registry | submit, batch submit, signer, bounds and feed administration, reads |
| swap aggregator | `contracts/swap-aggregator` | fee buckets; vault balances within a call | route programs over foreign venues, fees, claims |
| DeFindex strategy | `contracts/defindex-strategy` | account of each vault | deposit, withdraw as a client of the controller |
| keeper | `services/keeper` | scan position, the shared sequence number | storage renewal, index updates, discovery of what to renew |
| exporter | `services/lending-exporter` | registered series, skipped pairs | scrapes of contract views |

How they interact. The controller owns the pool and is its only caller. The pool
stores market totals and no accounts: the controller reads a position, passes it
in, and stores what comes back. Governance owns the controller and the price
aggregator. The controller asks the aggregator for prices and the pool for
projected indexes before it judges solvency. The swap aggregator and the flash
loan receiver run inside a controller transaction. The DeFindex adapter is a user
of the controller. The keeper sends transactions to keep the protocol's storage
alive and its indexes fresh; the exporter only reads.

What makes it hard to get right:

* **rounding**: every conversion rounds, in a direction chosen per operation, and
  the differences of rounded values are subtracted from each other;
* **unchecked agreement**: the books of the controller and the totals of the pool
  must add up, and nothing checks that at run time;
* **shared custody**: all markets of one token draw on one token balance;
* **cached state around foreign code**: a flash loan loads the market, lets the
  receiver run, and commits the copy;
* **losses**: a write-off lowers the supply index, down to a floor;
* **stamps**: a position carries the risk parameters of the day it was opened, a
  grant the owner who gave it, a relaxation the epoch it was proposed in;
* **waiting operations**: governance executes what was proposed days earlier under
  other roles, another owner, another delay, other flags;
* **late, repeated and disagreeing prices**, and signers that are removed while what
  they submitted still counts;
* **two-way indexes kept by hand**: swap-removal in the oracle's lists, enumeration
  in the NFT, usage rows beside positions;
* **long gaps**: accrual over years runs in chunks, and may meet the i128 limit;
* **services under failure**: lost transactions, one sequence number for two loops,
  reads of one pass taken at different ledgers.

## 2. Modules

| part | modules | content |
|---|---|---|
| arithmetic | `FixedPoint`, `Rates` | rounding products and quotients; curve, compounding, indexes, conversions, projection |
| pool | `PoolLegs`, `PoolState`, `Pool` | what one call does to one market, as functions returning the outcome; the state and the steps every call is made of; the state machine |
| risk | `RiskMath`, `LiquidationMath`, `Liquidation` | values, totals and gates; the plan of a liquidation; one account under repeated liquidation |
| controller | `Positions`, `Seizures`, `Controller`, `Strategies` | transactions on one's own account; on somebody else's; the state machine of users and owner; the seven strategies |
| accounts | `Accounts`, `DefindexStrategy` | NFT, account entries, grants and managers; the vault adapter |
| governance | `Governance` | roles, owner, timelock, markers, and the switches of the controller they open and close |
| prices | `PriceSources`, `PriceEngine`, `LpMath`, `PriceAggregator` | admission; resolution; fair value of a pool share; the registry over moving providers |
| signed prices | `XoxnoOracle`, `FeedCatalog` | the contract; what its registry promises |
| router | `RouterProgram`, `Router` | decoding and validation of a packed program; its execution, fees and claims |
| keeper | `KeeperPlanning`, `Keeper`, `KeeperDiscovery` | what to send; the two loops and their process; one discovery pass |
| exporter | `Exporter` | the scrape, call by call |
| instances | `MCPool`, `MCGovernance`, `MCXoxnoOracle`, `MCPriceAggregator`, `MCLiquidation`, `MCPeriphery`, `MCController`, `MCKeeper`, `MCExporter` | scenes for TLC |
| proofs | `PoolLaws`, `PoolLegsProofs`, `PoolLedgerProofs`, `PoolMarketProofs`, `PoolProofs`; `GovernanceProofs`; `XoxnoFeedProofs`, `XoxnoOracleProofs`; `AccountsProofs` | section 4 |

A panic reverts a transaction, so a call that fails is a step that is not taken.
Operators that can fail return a record with `ok`, or a value such as `Rejected`
or `None`. Events, error codes, logging and formats are left out throughout.
Storage lifetime is left out of the contracts, because an archived entry is
restored with its value, and is the subject of the keeper.

### Pool

`market` and `params` are the two storage entries of a market. `balance` and
`wallet` are the token contract as the pool sees it (external code: transfers move
exactly the amount, or fail). `deposit` and `debt` are the controller's position
books, reduced to the shares; each action stores what the pool returns, as
`contracts/controller` does. `donated` is a history variable. `flash` holds the
locals of a running flash loan, and the state to return to if it fails.

One action per entrypoint. A leg returns a record whose `ok` is false where the
code panics; the action requires `ok` of every leg of the batch. `run_batch`
rejects a market named twice, so a batch is a function on a set of markets. The
amounts a request may carry are `Amount`, and `MaxI128` is the "everything"
sentinel of withdraw. What the controller guarantees about its calls is what the
actions assume: positions are the stored ones, an account is seized only if it has
debt, a fee share comes out of a deposit. Solvency of accounts is not assumed:
liquidations and seizures may hit any account, which is more than the code allows
and so sound for safety.

The flash loan is three steps. `FlashBegin` loads, syncs and pays out. Then
`Donate`, `CreateMarket` and `UpdateParams` may happen: user entrypoints are behind
the controller's guard, owner operations and token transfers are not. The host's own
refusal to re-enter a contract is not relied on. `FlashEnd` requires the exact
balance, pulls principal and fee, and commits the copy. `FlashRevert` undoes all.

### Controller

`Positions` has two levels, as the code has. `L` (the variable `s` of `Controller`)
is what the contracts store: the pool's markets, accounts with owner, spoke and
mode, supply and debt maps, usage rows, the next id. `tx` is what an invocation
holds in memory: the loaded account and the Context with its cached prices, indexes
and usage rows. A flow takes `L` and returns `[ok, L]`; it uses the legs of
`PoolLegs`, so controller and pool are composed and not stubbed. `Seizures` adds
liquidation in both delivery modes, bad-debt cleanup, forced socialization and the
refresh of stamped parameters. `Controller` makes one action of each entrypoint,
between price moves and ticks, with listings, flags, caps, curves, limits and the
pause changing underneath.

`Strategies` adds the controller's own token balances and the guard. What a router,
a receiver and a Blend pool deliver is an input. A flash position is split at its
callback: the suspended transaction is the variable `flash`, and the receiver may
send tokens or call what the guard lets through.

`Liquidation` is the same plan and application as in `Seizures`, on one account, so
that many accounts, prices and offers can be enumerated.

### Accounts

`owner`, `tokens` and `next_id` are the NFT; `meta`, `grants`, `manager` and the
spokes are the controller's. A transfer changes only the NFT: a grant stays stored,
stamped with the owner who gave it. Approvals of the NFT library are left out, a
transfer being any transfer. `DefindexStrategy` keeps the vault mapping over a
market of `PoolLegs` with other suppliers, borrowers and losses in it.

### Governance

`owner`, `pending` and `role` are the storage of the ownable and access-control
libraries, `scheduled` is the timelock's table of ready ledgers, `recovery` and
`target` are the contract's own markers beside it (`storage.rs`). `paused`,
`deprecated`, `listing` and `allowed` are the parts of the controller that
governance opens and closes. `overtaken`, `tightenings` and the `since` of a
scheduled operation are history: no guard reads them.

An operation id is a hash of the operation and its salt; the model uses the pair.
What an operation was resolved to when it was proposed is run later without
another check by governance when it targets the controller (`Execute`), and is
resolved again when it targets governance (`ExecuteSelf`). Operations whose effect
lies elsewhere (`PlainKinds`: upgrades, oracle configuration, limits) are proposed,
wait and run like the others, and change nothing here. Whether a listing may be
removed depends on its usage, which this module does not have: removal may succeed
at any time.

Two consequences of the code that the model makes visible, and no document denies:
an unpause that was scheduled before a pause can run right after it, because
pausing has no epoch as flags have; and removing an unused listing and adding it
again, both timelocked, resets its flags.

### Prices

`PriceSources` is the admission of an asset oracle: shape, dependencies, depth,
disjointness of feeds, decimals, bands. `PriceEngine` is the resolution with its
session cache, both blends of two legs, the four providers and the three kinds of
pool share. `PriceAggregator` lets the owner edit the registry while providers
publish, fall silent and disagree, and pools move. `LpMath` is the fair value of a
share with the code's Newton iterations and integer square root.

`XoxnoOracle` is the contract: submissions per signer, age and skew filter, quorum,
lower median, history, and a registry of two lists with hand-kept reverse indexes and
a two-way mapping. `FeedCatalog` is what the registry promises: a set of known feeds
and a one-to-one naming. `ImplementsCatalog` is the refinement, with the known feeds
read off the list and the naming off the mapping.

### Router

`RouterProgram` decodes and validates the packed bytes of a program, offset by
offset. `Router` executes an accepted one, one instruction per step, against venues
that may deliver any of a set of fills. A run works on its own copy of the book,
which `Finish` commits and `Abort` drops: the host reverts a failed invocation, and
lets no contract call back into the router while it runs. Between runs the owner
administers fees and referrals, buckets are claimed, surplus is swept and tokens are
sent to it unasked.

### Keeper and exporter

`KeeperPlanning` is the pure part: classification of an entry, chunking, the budget of
a tick, the rotating scan. `Keeper` runs the TTL loop and the index loop over one
signing account: a job is prepared on the sequence number read, sent, and then lands,
fails, lands late or is lost; the process is cancelled, drains, crashes and boots.
`KeeperDiscovery` follows the protocol's indexes read by read while the protocol
changes. `missed` is history: what ceased to exist during the pass, and what belongs to
the one entry that a swap-removal moved from the end of its list to a place the walk
had passed. `Exporter` is the scrape, one call per step, with the gauges it sets, keeps
and removes, the skip list, and what is served at the end.

## 3. Runs

An MC module plays several scenes: a record of constants for each, an instance of
the component with those constants, and a variable `scene` that says which one a
behaviour is in. A scene is the smallest instance in which its question can be
answered either way.

Scales are small so that everything shows: one Ray is 100 or 200, a token unit is
10 or 20 Ray, a year is one or two ticks. Roundings then matter in every step, which
they hardly do at 10^27: the instances are harsher than the deployment.

| run | scenes | properties and question |
|---|---|---|
| `pool` | `market` (two symmetric accounts), `accrual` (two rate models, 5 ticks at two per year), `hubs` (two markets of one token, flash loans, gifts), `headroom` (i128 just above a full deposit) | `BooksReconcile`, `CashIsCustody`: do books, totals and tokens agree. `ExitsStayOpen`: can users leave. `SyncAsForeseen`: does accrual trap, and does the view foresee it. `NoStrandedDebt`, `BackingKept`, `FlashIsNeutral`: what no step may do to a market |
| `governance` | `roles`, `flags`, `halt`, `delay` | `RolesSeparated`: do executor and canceller stay apart. `RecoveryStands`: does a recovery stand. `OvertakenNeverRelaxes`: is an overtaken relaxation void. `OpeningWaits`: did everything that opens something wait |
| `gov_decrease` | one | violated, see below |
| `oracle` | `quorum` (three symmetric signers, threshold two), `repeat` (batches of two), `bounds` (owner moves every bound), `registry` (three feeds, three assets) | `PriceNeedsHonestSupport`: can a minority move a price. `SubmissionsOwned`: does anything of a removed signer or purged feed count again. `HistoryIsFaithful`: do the reads agree. `RegistryCoherent`, `ImplementsCatalog`: do the lists, indexes and mappings stay one registry |
| `prices` | `registry`, `market`, `twap`, `shares`, `grid` | `AdmissionStands`: does what was admitted stay true while keys below it are replaced. `UsablePriceNeedsEveryFeed`: can a silent leg be papered over. `BatchTransparent`: does the session cache leak between keys. `ShareWithinBacking`, `ShareMathIsExact`: is a pool share ever worth more than its backing, and are the solvers exact on the grid |
| `liquidation` | `plain` (divisible), `whole` (collateral in whole units) | After any offer, shortfall and delivery mode. `HealthNotWorsened`: does a solvent account stay solvent, and no less healthy, before the bad-debt check looks at it. `PayoutIsPaidFor`: is the payout paid for, also when an insolvent account loses everything, and is the fee taken from the bonus only |
| `periphery` | `delegates`, `vaults`; `programs` (every short program), `fees`, `venues` | `NftIsAccount`: do the two contracts agree on which accounts exist. `AuthorityIsConsent`: does a delegate act only by the present owner's consent. `ClaimsStayReachable`: does a vault get at what it deposited, to the unit. `FeesAreBacked`: can every fee be paid. `SurplusUntouched`: is a run of the router paid for by its own input |
| `controller` | `risk`, `spokes`, `whole`, `levers`, `leaps` | `BooksReconcile`: positions, totals and usage. `ExitsStayOpen`: repayment, exit without debt, collateral behind every debt, liquidation. `OnlyMarketsMakeUnhealthy`: does any call, of a user or of the owner, make a healthy account liquidatable, at the prices its transaction starts from. `HeldIsGifts`, `NothingMovesUnderFlash`, `SolventAtEntryPrices`: strategies |
| `keeper` | `margin`, `discovery` | `MarginSuffices`: does anything lapse under a sufficient margin. `SnapshotCovers`: does a completed discovery pass find what existed throughout it |
| `keeper_fair` | `faults`, `refresh`, `contention` (both loops, one transaction per tick, two accounts that lapse) | `LapsedIsRestored`, `LoopsGetRound`: liveness, below |
| `keeper_governance` | `discovery` | violated, see below |
| `exporter` | `series` (one asset in two hubs); and on a chain that comes to rest: `oracle` (prices and configuration change), `rest` and `spokes` (listings change, with one spoke and with two) | `OnlyDelistedVanish`: does a failing call remove a series. `Converges`: liveness, below |

### Bounds

* `pool`: five or six calls of a behaviour (rounding drift makes the state space
  unbounded). That allows create, supply, borrow, a loss, and two further operations,
  the longest chain that any of the properties needs to be broken. `TokenSupply` and
  `MaxTime` bound tokens and clock. In `headroom` a market may refuse everything.
* `governance`: delays of a few ledgers. The deployed delay lies below the floor for
  updates and below the sensitive tier, as the constructor allows, and the recovery
  delay above both, so that every branch of `operation_delay` decides something; the
  grace period lets an operation expire. Two or three operations wait at a time. One
  salt is enough for an operation to be proposed again after it left the timelock, the
  case in which a stale marker would matter.
* `oracle`: with three signers and threshold two, one signer is the faulty minority;
  two stamps put a submission inside or outside of the skew window; a history of one or
  two entries overflows. Registries of three feeds let a swap-removal move an element
  that is neither first nor last.
* `controller`: an opening of three or four calls, then three or four free ones; two
  prices suffice to make an account unhealthy or insolvent. `spokes` has two spokes,
  because usage is kept per spoke and totals are not.
* `liquidation`: two or three liquidations in a row, between price moves.
* `keeper`: in `margin` the time between two scans of an account and the margin are
  such that one ledger less would let it lapse. `faults` has each failure of a
  submission, a crash and a restart; the number of stops is bounded (`MaxStops`),
  because a process that is killed for ever keeps nothing alive. In `contention` the
  budget covers the chunks of the index loop: that loop plans from the front in every
  tick, so with fewer transactions than chunks the last markets are never refreshed,
  although the log speaks of "deferring remaining jobs to next tick". Reads do not fail
  there: with one transaction per tick, and outages as long as the time a restored entry
  lives, the first account could take every transaction. In `discovery` chunks have one
  entry and lists two, so a removal can hit either side of the walk.
* `periphery`: the router has programs of one or two instructions over every operand, and hand-picked
  longer ones in the other scenes; `programs` bounds calls to one because a program
  leaves nothing but fees behind. In `fees` a fee below the cap and one
  above it are offered, and the static and the referral fee are taken together. A vault's token withholds one unit of each deposit.
* `exporter`: two changes of the chain (one in `oracle`), one fault; a change may fall
  between any two calls of a scrape. Two changes remove a listing and bring it back, the
  case in which a pair that is still skipped would stay without series. `rest` has
  listings with and without a cap; `spokes` has the second spoke, whose flag must not be
  taken from the first.

Symmetry is used for accounts (`pool`), signers (`oracle`) and vaults (`periphery`),
which nothing orders. Where a scene has a bound on calls or rounds, the last state has
no successor and deadlock is not checked; in `pool`, `governance` and `exporter` it is.

### Fairness

Contracts have none: nobody must call. What one would want of their liveness is
stated as safety: `ExitsStayOpen` (users can leave), `TighteningsBounded` (a relaxation
can succeed against a guardian who keeps setting flags), `BoundsOrdered` (a quorum stays
possible).

The keeper has two kinds. Scheduling is weak fairness: tokio runs every task that is
ready, its timers fire, the container is restarted (`restart: unless-stopped`), and
`main` gives up on its loops after 30 seconds. The network is strong fairness: what is
asked again and again is answered some time, and a transaction for a key that is sent
again and again lands some time. Weak fairness would not do, because the other loop
may use up the sequence number each time; that is the contention `LoopsGetRound` is
about.

The exporter's scrape task and its timer are polled (weak fairness). Changes of the
chain and failing calls are bounded, so `Converges` says that no failure leaves a
series wrong for good: every gauge of a market, a listing or an oracle comes to show
what the chain has, and is gone where the chain has nothing to show. One gauge is
excepted, because the code never removes it: the deviation of an asset that has lost
its second source keeps its last value.

### The violated properties

`docs/reference/invariants.md` says of a change of the minimum delay (INV-AUTH-05)
that "a decrease takes effect only after the current, longer delay has passed". An
update that was proposed under a delay of 2 and runs after another update raised the
delay to 3 lowers it again after 2 ledgers: a scheduled operation keeps the delay it
was scheduled with. `gov_decrease` shows it. The floor itself holds
(`DelayKeepsFloor`, proved).

`services/keeper/README.md` says that the service "keeps XOXNO Lending storage,
instances, and WASM code entries alive" and, "When `contracts.governance` is set, keeper
also keeps governance alive". A pass collects the code of every contract it resolves but
governance, of which it has the instance and the role entries. `keeper_governance` shows
a completed pass without it. `SnapshotCovers` leaves that one entry out.

## 4. Proofs

All theorems are for every value of the constants that satisfies the named
assumptions of the modules (finite sets of accounts and markets, positive scales,
`MaxI128 >= Ray`, delays and bounds that the constructors accept). Every step is
checked by TLAPS. Temporal steps need only propositional temporal logic: an
inductive invariant, or an invariant and an action property.

### Pool

| theorem | states |
|---|---|
| `LedgerInvariant` | `Spec => []IInv` |
| `TypeCorrect` | `[]TypeOK` |
| `RevenueBounded` | `[]RevenueWithinSupply` |
| `BooksAddUp` | `[]BooksReconcile` |
| `CashIsBacked` | `[]CashIsCustody` |
| `DebtNeverStranded` | `NoStrandedDebt` |
| `IndexesOneWay` | `IndexesMoveOneWay` |
| `BackingNeverLost` | `BackingKept` |
| `FlashLeavesOnlyTheFee` | `FlashIsNeutral` |

The conjunction of the invariants is not inductive, for two reasons. A reverted
flash loan returns to the state saved at its start, so the saved state must
satisfy the ledger facts too. A completed one commits the copy loaded at its
start, so the copy must still be the synced market: `IInv` says that
`flash.cache` equals `Synced(hub_asset).m` while the loan runs. That is true
because the clock stands still and the only step that touches the market,
`UpdateParams`, commits the same sync.

The argument has layers, one module each.

* `PoolLegsProofs`: the conversions and index updates stay in range; every leg keeps a
  market well formed and changes shares, position and cash by matching amounts; sums over
  finite sets; leg by leg, what happens to the value of a market; and a sync of any
  number of chunks.
* `PoolLaws` names those facts as laws, quantified over everything. `PoolLedgerProofs`
  has the invariant, what follows from the laws about books and custody, and the
  operations of users; `PoolMarketProofs` has settlements, seizures, the owner's
  operations, flash loans and time. There is one lemma per action, with the laws as an
  assumption, so that the provers never see the arithmetic.
* `PoolProofs` has what a flash loan leaves behind, derives the laws (`LawsHold`), puts
  the actions together and has the theorems.

A sync runs over an unknown number of chunks, as a recursive function on 0..n.
`SyncChunksSound` shows what is needed of it (the borrow index does not fall, shares
and revenue grow alike, claims outgrow debt and cash by at most 2 Ray per chunk) by
induction on the set of chunk numbers for which it holds: `FiniteRecursion` unfolds
the function and `SetInduction` closes the set, from the well-foundedness of <.

`BackingKept` is about rounding. `Uncovered` is what suppliers may claim, rounded
down, less debt, rounded up, and cash. Each leg is shown not to raise it: shares are
minted for at most the amount paid in, burnt for at least the amount paid out, debt
is booked rounded up and released rounded down. A write-off lowers claims by what it
forgives, unless the index stops at its floor or there are no claims, the exception
in the property. An accrual chunk raises it by at most two Ray: one from the supply
index and one from the fee shares.

`FlashIsNeutral` needs more than `IInv`. `FlashTrace` says what the receiver can have
done so far: books as at the start, the balance of the lent token as at the start less
the amount, up to donations, every market at its start or at the sync of its start.
A second sync at the same time changes nothing (`SyncOnce`), so `UpdateParams` leads
from either to the second.

### Governance

| theorem | states |
|---|---|
| `GovernanceInvariant` | `Spec => []IInv` |
| `GovernanceTypeCorrect` | `[]TypeOK` |
| `RolesStaySeparated` | `[]RolesSeparated` |
| `MarkersAgree` | `[]MarkersMatch` |
| `InvalidationsBounded` | `[]TighteningsBounded` |
| `RecoveryCannotBeStopped` | `RecoveryStands` |
| `OvertakenStaysVoid` | `OvertakenNeverRelaxes` |
| `DelayFloorKept` | `DelayKeepsFloor` |
| `OpeningsWait` | `OpeningWaits` |

The strengthening is about operations while they wait. `ReadyAfterFloor`: the
ready ledger lies at least the floor of the tier after the proposal, which needs
`DelayFloor`, the bound on the delay at every proposal. `EpochsReached`: a waiting
relaxation names an epoch that the listing has reached, and an overtaken one an
epoch that it has left behind; epochs only grow, because removal keeps them, so
the two never meet again. `RecoveryStands` follows from `MarkersMatch`:
`Cancel` refuses what is marked, and every waiting reset is marked.

### Signed-price oracle

| theorem | states |
|---|---|
| `RegistryImplementsCatalog` | `ImplementsCatalog`: the registry refines `FeedCatalog` |
| `RegistryStaysCoherent` | `[]RegistryCoherent` |
| `NothingLeftBehind` | `[]SubmissionsOwned` |
| `BoundsStayOrdered` | `[]BoundsOrdered` |
| `MinorityNeverMoves` | `PriceNeedsHonestSupport` |
| `ReadsAgree` | `[]HistoryIsFaithful` |

`XoxnoFeedProofs` is about the operators. For one feed: the loop over signers, the
cluster, the lower median and whom it needs, the bounded history and the entry a
dated read finds. For the registry: `RegistryOK`, which adds to `RegistryCoherent` that
the lists have no duplicates and the domains fit, is kept by insertion and by
swap-removal, the case in which the last element moves into the freed slot and its
index must follow. Every step of the contract is then a step of the catalogue or none.

`XoxnoOracleProofs` has the invariant `OInv`: types, `RegistryOK`, ordered bounds, owned
submissions, and histories in the order of their writes, none later than now. That a
minority cannot move the price is a counting argument: with a threshold above half, the
members of a quorum that are not faulty outnumber the faulty ones on both sides of the
median. `HistoryIsFaithful` follows from the order of the history.

### Accounts

| theorem | states |
|---|---|
| `AccountsInvariant` | `Spec => []AInv` |
| `NftFollowsAccount` | `[]NftIsAccount` |
| `DelegatesHaveConsent` | `[]AuthorityIsConsent` |

`AuthorityIsConsent` is about the grant of the present owner, and is not inductive: a
transfer makes a stale grant stand for a past owner, and the next one may make it
current again. `GrantsAreConsent` says of every stored grant, stale or not, that it
lists only delegates its giver consented to and did not lose. `Entries` says that every
id lies below `next_id`, so that an account never inherits what is stored under its id.

## 5. Only model-checked

* Liveness (`LapsedIsRestored`, `LoopsGetRound`, `Converges`): fairness is out of the
  prover's reach.
* `Pool!ExitsStayOpen` and `SyncAsForeseen`: that no intermediate value of an accrual
  exceeds i128 depends on how the scales and limits of the deployment relate, which the
  assumptions on the constants leave open; for some constants the statements are
  false. The instance has the relation of the deployment.
* The properties of the runs `prices`, `liquidation`, `controller`, `keeper`
  and `exporter`, and those of the router in `periphery`. The price modules (`LpMath`, `PriceSources`, `PriceEngine`,
  `PriceAggregator`) recurse over oracle keys and Newton iterations with `RECURSIVE`
  operators, which take the SMT solver away. The others are built on folds over the legs
  of a transaction, the instructions of a program or the keys of a plan: what a fold
  computes for every input needs induction over data, which the installed provers cannot
  instantiate.
* `DefindexStrategy!ClaimsStayReachable`: it compares, to the unit, two chains of rounded
  conversions on one market, the report and the payment. It is not proved.

## 6. Not modelled

* Governance: creating hubs and spokes and setting sanity bands immediately (they
  open nothing that the module has), the deployment calls, address and parameter
  validation of operations (no state of governance is involved), the code that an
  upgrade installs, `testing.rs`.
* Controller: creation of hubs and spokes, replacement of the addresses of other
  contracts, the deposit rate and the other pure views.
* Ownership transfer and upgrade of the price aggregator, the oracle and the router,
  and the approvals of the NFT: library code.
* Foreign venues, price feeds, receivers and Blend pools: contracts outside of this
  repository, which enter as nondeterministic answers. Authorization entries and
  Comet's allowance are left out of the router.
* Keeper: metrics, configuration parsing, key encoding, signing, command-line tools.
  Exporter: decoding, number formats, counters, the HTTP server.
* Mock contracts, script runner, generated bindings, deployment scripts and the
  Certora rules: not part of the deployed system.
