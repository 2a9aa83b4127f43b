----------------------------- MODULE PriceEngine -----------------------------
(***************************************************************************)
(* How the price aggregator resolves a price: engine.rs, session.rs,       *)
(* observation.rs, tolerance.rs and providers/ of                          *)
(* contracts/price-aggregator/src.                                         *)
(*                                                                         *)
(* A resolution reads the registry, the clock, what the providers publish  *)
(* and what the liquidity pools report, and changes none of them; it is an *)
(* operator that threads the Session through.  The code's                  *)
(* Result<_, OracleError> is a record whose err is Fine or the error.      *)
(***************************************************************************)
EXTENDS PriceSources, LpMath

CONSTANTS
  Feeds,            \* one entry per feed a provider publishes
  FeedContract,     \* the provider contract of a feed
  FeedKind,         \* "Reflector", "RedStone", "Xoxno" or "Chainlink"
  Provider,         \* contract -> [base, decimals, resolution, maxAge], as reported
  TokenDecimals,    \* token -> decimals, as its contract reports
  MsPerSecond,      \* MS_PER_SECOND
  MaxSkew,          \* MAX_FUTURE_SKEW_SECONDS
  MaxLegAgeSpread,  \* MAX_LEG_AGE_SPREAD_SECONDS
  MinResolution,    \* MIN_ORACLE_RESOLUTION_SECONDS
  MinBulkFeeds,     \* MIN_BULK_FEEDS
  NoData            \* a provider or pool that answers nothing

VARIABLES
  oracles,  \* registry.rs: [Keys -> an oracle or NoOracle]
  now,      \* the ledger timestamp
  feeds,    \* external: [Feeds -> rounds [price, package, write], newest first, or NoData]
  pools     \* external: what each liquidity pool reports, or NoData

Fine == "fine"
MultiFeed == {"RedStone", "Xoxno"}

-----------------------------------------------------------------------------
(* observation.rs: a provider payload becomes a WAD price and a time.       *)

IsStale(ts, maxStale) == now > ts /\ now - ts > maxStale
IsFutureAt(ts) == ts > now + MaxSkew

Observation(price, ts, decimals) ==
  IF IsFutureAt(ts) \/ TryNormalizePositivePrice(price, decimals) = NoPrice THEN NoData
  ELSE [price |-> TryNormalizePositivePrice(price, decimals), ts |-> ts]

\* The package time and the write time are in milliseconds; the older counts.
FromMultiFeed(round, decimals) ==
  IF IsFutureAt(round.package \div MsPerSecond) \/ IsFutureAt(round.write \div MsPerSecond)
  THEN NoData
  ELSE Observation(round.price,
                   Least(round.package \div MsPerSecond, round.write \div MsPerSecond), decimals)

-----------------------------------------------------------------------------
(* reflector.rs: the mean of a history that covers the window asked for.    *)

TwapRequiredSpan(records, resolution) == (records - 1) * resolution

Spaced(history, resolution) ==
  \A i \in 2..Len(history) : history[i - 1].package >= history[i].package + resolution

TwapMean(history) ==
  IF \E i \in DOMAIN history : history[i].price <= 0 THEN 0
  ELSE FoldFunction(+, 0, [i \in DOMAIN history |-> history[i].price]) \div Len(history)

CoversWindow(history, records, resolution) ==
  history[1].package - history[Len(history)].package >= TwapRequiredSpan(records, resolution)

ReadTwap(history, decimals, records, resolution) ==
  IF history # << >> /\ Len(history) <= records + 1 /\ resolution >= MinResolution
     /\ (\A i \in DOMAIN history : ~IsFutureAt(history[i].package))
     /\ Spaced(history, resolution) /\ CoversWindow(history, records, resolution)
  THEN Observation(TwapMean(history), history[Len(history)].package, decimals)
  ELSE NoData

ReadReflector(f, feed) ==
  IF feed.provider.mode = 0
  THEN Observation(f[1].price, f[1].package, feed.decimals)
  ELSE ReadTwap(f, feed.decimals, feed.provider.mode, Provider[feed.provider.contract].resolution)

-----------------------------------------------------------------------------
(* session.rs: what one call has learnt so far.                             *)

NewSession ==
  [raw      |-> [f \in Feeds |-> NoData],     \* feed_cache
   stack    |-> << >>,                        \* resolving_keys
   prices   |-> [k \in Keys |-> NoPrice],     \* key_prices
   errors   |-> [k \in Keys |-> Fine],        \* key_errors
   statuses |-> [k \in Keys |-> NoData]]      \* key_statuses

IsResolving(s, key) == key \in Range(s.stack)
Push(s, key) == [s EXCEPT !.stack = Append(@, key)]
Pop(s) == [s EXCEPT !.stack = Front(@)]

\* The multi-feed ids a key and what it depends on would read.  A walk goes on
\* from [visited, feeds]; a key met before is not walked again.
CollectProvider(walk, s) ==
  IF ~IsLp(s) /\ s.feed.provider.kind \in MultiFeed
  THEN [walk EXCEPT !.feeds = @ \cup {s.feed.provider.feed}] ELSE walk

RECURSIVE CollectKey(_, _, _)
CollectKey(walk, key, depth) ==
  LET visit == [walk EXCEPT !.visited = @ \cup {key}]
      collect(w, s) == FoldLeft(LAMBDA v, k : CollectKey(v, k, depth + 1), CollectProvider(w, s), DependencyList(s))
  IN  IF depth > MaxResolutionDepth \/ key \in walk.visited THEN walk
      ELSE IF oracles[key] = NoOracle THEN visit
      ELSE FoldLeft(collect, visit, oracles[key].sources)

Wanted(keys) == FoldLeft(LAMBDA w, k : CollectKey(w, k, 0), [visited |-> {}, feeds |-> {}], keys).feeds

\* One bulk read per adapter; it fails as a whole and is then skipped.
BulkRead(wanted) ==
  LET of(f) == {g \in wanted : FeedContract[g] = FeedContract[f]}
  IN  {f \in wanted : Cardinality(of(f)) >= MinBulkFeeds /\ \A g \in of(f) : feeds[g] # NoData}

Warm(s, keys) ==
  LET read == BulkRead(Wanted(keys))
  IN  [s EXCEPT !.raw = [f \in Feeds |-> IF f \in read THEN feeds[f] ELSE @[f]]]

-----------------------------------------------------------------------------
(* engine.rs: one feed.                                                     *)

Payload(s, feed) ==
  IF feed.provider.kind \in MultiFeed /\ s.raw[feed.provider.feed] # NoData
  THEN s.raw[feed.provider.feed] ELSE feeds[feed.provider.feed]

ObserveFeed(f, feed) ==
  IF f = NoData THEN NoData
  ELSE CASE feed.provider.kind = "Reflector" -> ReadReflector(f, feed)
         [] feed.provider.kind = "Chainlink" -> Observation(f[1].price, f[1].package, feed.decimals)
         [] OTHER                            -> FromMultiFeed(f[1], feed.decimals)

CacheFeed(s, feed) ==
  IF feed.provider.kind \in MultiFeed
  THEN [s EXCEPT !.raw[feed.provider.feed] = Payload(s, feed)] ELSE s

\* An observation is a record [price, ts, stale], or NoData.
Dated(obs, maxStale) ==
  IF obs = NoData THEN NoData
  ELSE [price |-> obs.price, ts |-> obs.ts, stale |-> IsStale(obs.ts, maxStale)]

ReadFeed(s, feed) == Dated(ObserveFeed(Payload(s, feed), feed), feed.maxStale)

SourceNature(source) == IF IsLp(source) THEN "Market" ELSE Nature(source.feed.provider)

-----------------------------------------------------------------------------
(* tolerance.rs.                                                            *)

WithinToleranceBand(anchor, primary, upper) ==
  MulDivHalfUp(Greatest(anchor, primary), Bps, Least(anchor, primary)) <= upper

MidpointPriceOrZero(anchor, primary) ==
  IF Fits(anchor + primary) THEN (anchor + primary) \div 2 ELSE 0

-----------------------------------------------------------------------------
(* engine.rs: outcomes.                                                     *)

Blank == [price |-> 0, ts |-> 0, first |-> 0, second |-> 0,
          stale |-> FALSE, deviation |-> FALSE, err |-> Fine]

WithErr(err) == [Blank EXCEPT !.err = err]

OutcomeOne(r) == [Blank EXCEPT !.price = r.price, !.ts = r.ts, !.first = r.price,
                               !.second = r.price, !.stale = r.stale]

OutcomePartial(r, slot) ==
  [Blank EXCEPT !.ts = r.ts, !.stale = r.stale, !.deviation = TRUE,
                !.first  = IF slot = 1 THEN r.price ELSE 0,
                !.second = IF slot = 2 THEN r.price ELSE 0]

\* Mutant: a fresh leg vouches for a stale one.
OutcomeTwoEitherFresh(primary, anchor, upper) ==
  [Blank EXCEPT
     !.price     = MidpointPriceOrZero(anchor.price, primary.price),
     !.ts        = Least(primary.ts, anchor.ts),
     !.first     = primary.price,
     !.second    = anchor.price,
     !.stale     = primary.stale /\ anchor.stale,
     !.deviation = ~WithinToleranceBand(anchor.price, primary.price, upper)]

OutcomeTwo(primary, anchor, upper) ==
  [Blank EXCEPT
     !.price     = MidpointPriceOrZero(anchor.price, primary.price),
     !.ts        = Least(primary.ts, anchor.ts),
     !.first     = primary.price,
     !.second    = anchor.price,
     !.stale     = \/ primary.stale \/ anchor.stale
                   \/ /\ primary.nature = "Market" /\ anchor.nature = "Market"
                      /\ Greatest(primary.ts, anchor.ts) - Least(primary.ts, anchor.ts) > MaxLegAgeSpread,
     !.deviation = ~WithinToleranceBand(anchor.price, primary.price, upper)]

\* legs holds one reading, or NoData, per source.
Blend(oracle, legs) ==
  CASE Range(legs) = {NoData} -> WithErr("NoLastPrice")
    [] Len(legs) = 1 /\ legs[1] # NoData -> OutcomeOne(legs[1])
    [] Len(legs) = 2 /\ legs[1] # NoData /\ legs[2] = NoData -> OutcomePartial(legs[1], 1)
    [] Len(legs) = 2 /\ legs[1] = NoData /\ legs[2] # NoData -> OutcomePartial(legs[2], 2)
    [] OTHER -> OutcomeTwo(legs[1], legs[2], oracle.upper)

\* Outcome::failure, in the order the code tests.
Failure(out, oracle) ==
  CASE out.err # Fine -> out.err
    [] out.err = Fine /\ oracle = NoOracle -> "OracleNotConfigured"
    [] OTHER ->
         IF out.stale THEN "PriceFeedStale"
         ELSE IF out.deviation THEN "UnsafePriceNotAllowed"
         ELSE IF out.price <= 0 THEN "InvalidPrice"
         ELSE IF out.price < oracle.lo \/ out.price > oracle.hi THEN "SanityBoundViolated"
         ELSE Fine

ConfigErrors == {"OracleCycleDetected", "OracleDepthExceeded", "SourceCountOutOfRange", "OracleNotConfigured"}

ToFeed(out, decimals) == [price |-> out.price, decimals |-> decimals, ts |-> out.ts]

ToStatus(out, oracle) ==
  [final |-> out.price, primary |-> out.first, secondary |-> out.second, ts |-> out.ts,
   stale |-> out.stale, deviation |-> out.deviation,
   valid |-> Failure(out, oracle) = Fine, error |-> Failure(out, oracle)]

-----------------------------------------------------------------------------
(* engine.rs: resolution.  A result carries the session, the error or Fine, *)
(* and a value: a feed, an observation or the legs.                         *)

Ret(s, err, val) == [s |-> s, err |-> err, val |-> val]

RECURSIVE ValidateCachedPath(_, _, _)
ValidateCachedPath(stack, key, depth) ==
  IF depth > MaxResolutionDepth THEN "OracleDepthExceeded"
  ELSE IF key \in stack THEN "OracleCycleDetected"
  ELSE IF oracles[key] = NoOracle THEN "OracleNotConfigured"
  ELSE LET below == {ValidateCachedPath(stack \cup {key}, k, depth + 1) :
                       k \in UNION {Dependencies(src) : src \in Range(oracles[key].sources)}}
       IN  IF below \subseteq {Fine} THEN Fine ELSE CHOOSE e \in below : e # Fine

RECURSIVE ResolveOutcome(_, _, _, _)

\* What resolve_nested keeps for the rest of the call.
Memoise(r, key) ==
  LET err == Failure(r.out, r.oracle)
  IN  IF err = Fine
      THEN Ret([r.s EXCEPT !.prices[key] = ToFeed(r.out, r.oracle.decimals)], Fine,
               ToFeed(r.out, r.oracle.decimals))
      ELSE Ret(IF r.out.err \in ConfigErrors THEN r.s ELSE [r.s EXCEPT !.errors[key] = err], err, NoData)

ResolveNested(s, key, depth) ==
  IF s.prices[key] # NoPrice \/ s.errors[key] # Fine
  THEN LET path == ValidateCachedPath(Range(s.stack), key, depth)
       IN  IF path # Fine THEN Ret(s, path, NoData)
           ELSE Ret(s, IF s.prices[key] # NoPrice THEN Fine ELSE s.errors[key], s.prices[key])
  ELSE Memoise(ResolveOutcome(s, key, depth, NoOracle), key)

Observed(price, ts, stale) == [price |-> price, ts |-> ts, stale |-> stale]

Scaled(factor, q) ==
  IF q.err # Fine THEN Ret(q.s, q.err, NoData)
  ELSE IF ~Fits(MulDivHalfUp(factor.price, q.val.price, Wad)) THEN Ret(q.s, "InvalidPrice", NoData)
  ELSE Ret(q.s, Fine, Observed(MulDivHalfUp(factor.price, q.val.price, Wad),
                               Least(factor.ts, q.val.ts), factor.stale))

ReadScaled(s, source, factor, depth) ==
  IF factor = NoData THEN Ret(s, Fine, NoData)
  ELSE IF factor.price < source.minF \/ factor.price > source.maxF
  THEN Ret(s, "FactorOutOfBounds", NoData)
  ELSE Scaled(factor, ResolveNested(s, source.quote, depth + 1))

-----------------------------------------------------------------------------
(* aquarius.rs.  A pool reports [kind, share, tokens, reserves, shares, amp, *)
(* hash, coins, fixedRates, virtual]; the fields its kind lacks are unused.  *)

BoundTokens(key, lp, pool) ==
  /\ pool # NoData /\ key \in Tokens /\ pool.share = key
  /\ pool.tokens = <<lp.tokenA, lp.tokenB>>

PoolKindMatches(pool, tag) == pool.kind = (IF tag = "AquariusStableLp" THEN "stable" ELSE "constant_product")

DecimalsMatch(share, lp, decimals) ==
  /\ TokenDecimals[share] = decimals
  /\ TokenDecimals[lp.tokenA] = lp.decA /\ TokenDecimals[lp.tokenB] = lp.decB

AquariusBound(key, lp, decimals, pool) ==
  BoundTokens(key, lp, pool) /\ PoolKindMatches(pool, lp.tag) /\ DecimalsMatch(key, lp, decimals)

AquariusAttests(key, lp, decimals, pool) ==
  /\ AquariusBound(key, lp, decimals, pool)
  /\ lp.tag = "AquariusStableLp" => pool.amp > 0
  /\ pool.reserves[1] > 0 /\ pool.reserves[2] > 0 /\ pool.shares > 0

AquariusPrice(lp, decimals, pool, a, b) ==
  LET legA   == [reserve |-> pool.reserves[1], decimals |-> lp.decA, price |-> a.price]
      legB   == [reserve |-> pool.reserves[2], decimals |-> lp.decB, price |-> b.price]
      supply == [shares |-> pool.shares, decimals |-> decimals]
  IN  IF lp.tag = "AquariusStableLp" THEN FairStableLpPrice(legA, legB, supply, pool.amp)
      ELSE FairLpPrice(legA, legB, supply)

PoolValue(price, shares, unit) == MulDivHalfUp(price, shares, unit)

AquariusObserved(s, lp, decimals, pool, price, ts) ==
  IF price = NoPrice \/ ~Fits(PoolValue(price, pool.shares, 10^decimals)) THEN Ret(s, "InvalidPrice", NoData)
  ELSE IF PoolValue(price, pool.shares, 10^decimals) < lp.minValue
  THEN Ret(s, "InsufficientAquariusLiquidity", NoData)
  ELSE Ret(s, Fine, Observed(price, ts, FALSE))

AquariusLegs(lp, decimals, pool, a, b) ==
  IF b.err # Fine THEN Ret(b.s, b.err, NoData)
  ELSE AquariusObserved(b.s, lp, decimals, pool, AquariusPrice(lp, decimals, pool, a.val, b.val),
                        Least(a.val.ts, b.val.ts))

AquariusSecond(lp, decimals, pool, a, depth) ==
  IF a.err # Fine THEN Ret(a.s, a.err, NoData)
  ELSE AquariusLegs(lp, decimals, pool, a, ResolveNested(a.s, lp.keyB, depth + 1))

\* Mutant: the binding checked at admission is taken for granted.
ReadAquariusUnbound(s, key, lp, decimals, depth) ==
  IF pools[lp.pool] = NoData THEN Ret(s, "NoLastPrice", NoData)
  ELSE AquariusSecond(lp, decimals, pools[lp.pool], ResolveNested(s, lp.keyA, depth + 1), depth)

ReadAquarius(s, key, lp, decimals, depth) ==
  IF ~AquariusBound(key, lp, decimals, pools[lp.pool]) THEN Ret(s, "NoLastPrice", NoData)
  ELSE AquariusSecond(lp, decimals, pools[lp.pool], ResolveNested(s, lp.keyA, depth + 1), depth)

-----------------------------------------------------------------------------
(* curve.rs.                                                                *)

BoundPool(key, lp, decimals, pool) ==
  /\ pool # NoData /\ pool.kind = "curve"
  /\ key \in Tokens /\ key = lp.pool /\ decimals = WadDecimals
  /\ pool.hash = lp.hash /\ pool.coins = lp.coins /\ pool.fixedRates
  /\ \A c \in Range(lp.coins) : TokenDecimals[c] <= WadDecimals

RECURSIVE CurveCoins(_, _, _, _)
CurveCoins(r, coins, least, depth) ==
  IF r.err # Fine THEN r
  ELSE LET seen == IF r.val = NoData THEN least
                   ELSE [price |-> Least(least.price, r.val.price), ts |-> Least(least.ts, r.val.ts)]
       IN  IF coins = << >> THEN Ret(r.s, Fine, seen)
           ELSE CurveCoins(ResolveNested(r.s, Head(coins), depth + 1), Tail(coins), seen, depth)

CurveObserved(r, lp, pool) ==
  IF r.err # Fine THEN Ret(r.s, r.err, NoData)
  ELSE LET price == MulDivFloor(pool.virtual, r.val.price, Wad)
       IN  IF MulDivFloor(price, pool.shares, Wad) < lp.minValue
           THEN Ret(r.s, "InsufficientCurveLiquidity", NoData)
           ELSE Ret(r.s, Fine, Observed(price, r.val.ts, FALSE))

ReadCurve(s, key, lp, decimals, depth) ==
  IF ~BoundPool(key, lp, decimals, pools[lp.pool]) THEN Ret(s, "UnsupportedCurvePool", NoData)
  ELSE CurveObserved(CurveCoins(Ret(s, Fine, NoData), lp.coins, [price |-> MaxI128, ts |-> now], depth),
                     lp, pools[lp.pool])

-----------------------------------------------------------------------------
(* engine.rs: a source, the legs of an oracle, and its outcome.             *)

EvaluateSource(s, key, source, decimals, depth) ==
  CASE source.tag = "Feed" -> Ret(CacheFeed(s, source.feed), Fine, ReadFeed(s, source.feed))
    [] source.tag = "Scaled" ->
         ReadScaled(CacheFeed(s, source.feed), source, ReadFeed(s, source.feed), depth)
    [] source.tag = "CurveStableLp" -> ReadCurve(s, key, source, decimals, depth)
    [] OTHER -> ReadAquarius(s, key, source, decimals, depth)

AsReading(r, oracle, source) ==
  IF r.err # Fine \/ r.val = NoData THEN r
  ELSE [r EXCEPT !.val = [price |-> @.price, ts |-> @.ts, nature |-> SourceNature(source),
                          stale |-> @.stale \/ IsStale(@.ts, oracle.maxStale)]]

ReadSource(s, key, oracle, i, depth) ==
  AsReading(EvaluateSource(s, key, oracle.sources[i], oracle.decimals, depth), oracle, oracle.sources[i])

Both(first, second) ==
  IF second.err # Fine THEN second ELSE Ret(second.s, Fine, <<first.val, second.val>>)

AfterFirst(first, key, oracle, depth) ==
  IF first.err # Fine THEN first
  ELSE IF Len(oracle.sources) = 1 THEN [first EXCEPT !.val = <<@>>]
  ELSE Both(first, ReadSource(first.s, key, oracle, 2, depth))

Compose(s, key, oracle, depth) ==
  IF ~SourceCount(oracle.sources) THEN Ret(s, "SourceCountOutOfRange", NoData)
  ELSE AfterFirst(ReadSource(s, key, oracle, 1, depth), key, oracle, depth)

\* Mutant: an error returns before the key is taken off the stack.
ComposedEarlyReturn(r, oracle) ==
  IF r.err # Fine THEN [s |-> r.s, out |-> WithErr(r.err), oracle |-> oracle]
  ELSE [s |-> Pop(r.s), out |-> Blend(oracle, r.val), oracle |-> oracle]

Composed(r, oracle) ==
  [s |-> Pop(r.s), oracle |-> oracle,
   out |-> IF r.err # Fine THEN WithErr(r.err) ELSE Blend(oracle, r.val)]

Unresolved(s, err) == [s |-> s, out |-> WithErr(err), oracle |-> NoOracle]

ResolveOutcome(s, key, depth, override) ==
  LET oracle == IF override # NoOracle THEN override ELSE oracles[key]
  IN  IF depth > MaxResolutionDepth THEN Unresolved(s, "OracleDepthExceeded")
      ELSE IF IsResolving(s, key) THEN Unresolved(s, "OracleCycleDetected")
      ELSE IF oracle = NoOracle THEN Unresolved(s, "OracleNotConfigured")
      ELSE Composed(Compose(Push(s, key), key, oracle, depth), oracle)

-----------------------------------------------------------------------------
(* The entry points of lib.rs.                                              *)

Probe(key, oracle) ==
  ResolveOutcome(NewSession, key, 0, oracle).out.err \notin ConfigErrors

ProbePriceable(key, oracle) ==
  Failure(ResolveOutcome(NewSession, key, 0, oracle).out, oracle) = Fine

ResolveStatus(s, key) ==
  IF s.statuses[key] # NoData THEN s
  ELSE LET r == ResolveOutcome(s, key, 0, NoOracle)
       IN  [r.s EXCEPT !.statuses[key] = ToStatus(r.out, r.oracle)]

Quotes(keys) == FoldLeft(ResolveStatus, Warm(NewSession, keys), keys).statuses

\* resolve panics on an unusable price, and the whole call with it.
Resolve(r, key) ==
  IF r.err # Fine \/ r.s.prices[key] # NoPrice THEN r
  ELSE Memoise(ResolveOutcome(r.s, key, 0, NoOracle), key)

Prices(keys) ==
  LET r == FoldLeft(Resolve, Ret(Warm(NewSession, keys), Fine, NoData), keys)
  IN  IF r.err # Fine THEN NoData ELSE r.s.prices

PriceSpread(key) ==
  LET r == ResolveOutcome(Warm(NewSession, <<key>>), key, 0, NoOracle)
  IN  IF Failure(r.out, r.oracle) # Fine THEN NoData
      ELSE <<Least(r.out.first, r.out.second), Greatest(r.out.first, r.out.second)>>
=============================================================================
