-------------------------- MODULE PriceAggregator --------------------------
(***************************************************************************)
(* The price aggregator contract: the registry its owner edits             *)
(* (contracts/price-aggregator/src/admin.rs, registry.rs), over providers  *)
(* and pools that publish, fall silent and change under it.  A call that   *)
(* panics changes nothing, so a rejected edit is a disabled action.        *)
(***************************************************************************)
EXTENDS PriceEngine

CONSTANTS
  Candidates,          \* [Keys -> oracles the owner may try to register]
  Bands,               \* sanity bands the owner may try to set
  Tolerances,          \* tolerances the owner may try to set
  RedStoneDecimals, ChainlinkDecimals,
  RoundPrices,         \* prices a provider may publish
  PoolReports,         \* what a pool may report
  StartFeeds, StartPools,
  PublishedFeeds,      \* the feeds that move
  MaxTime,             \* bound on the clock
  MaxHistory           \* rounds a provider keeps

vars == <<oracles, now, feeds, pools>>

-----------------------------------------------------------------------------
(* Attestation: what the provider contract says of itself.                  *)

NoQuote == "no quote"

AttestBase(base, quote) ==
  IF quote = NoQuote THEN base = "USD" ELSE quote \in Tokens /\ base = quote

AttestReflector(feed, quote) ==
  LET provider == Provider[feed.provider.contract]
  IN  /\ AttestBase(provider.base, quote)
      /\ provider.decimals = feed.decimals
      /\ provider.resolution \in MinResolution..feed.maxStale
      /\ IsSmoothed(feed.provider) =>
           TwapRequiredSpan(feed.provider.mode, provider.resolution) <= feed.maxStale

AttestFeed(feed, quote) ==
  CASE feed.provider.kind = "Reflector" -> AttestReflector(feed, quote)
    [] feed.provider.kind = "RedStone"  -> feed.decimals = RedStoneDecimals
    [] feed.provider.kind = "Chainlink" -> feed.decimals = ChainlinkDecimals
    [] OTHER -> /\ Provider[feed.provider.contract].decimals = feed.decimals
                /\ feed.maxStale >= Provider[feed.provider.contract].maxAge

AttestSources(key, oracle) ==
  \A s \in Range(oracle.sources) :
    CASE s.tag = "Feed"          -> AttestFeed(s.feed, NoQuote)
      [] s.tag = "Scaled"        -> AttestFeed(s.feed, s.quote)
      [] s.tag = "CurveStableLp" -> TRUE
      [] OTHER                   -> AquariusAttests(key, s, oracle.decimals, pools[s.pool])

-----------------------------------------------------------------------------
(* admin.rs, registry.rs.                                                   *)

Init ==
  /\ oracles = [k \in Keys |-> NoOracle]
  /\ now = 1
  /\ feeds = StartFeeds
  /\ pools = StartPools

StoreOracle(key, oracle) == oracles' = [oracles EXCEPT ![key] = oracle]

SetOracle(key, oracle) ==
  /\ oracles[key] # NoOracle => oracles[key].decimals = oracle.decimals
  /\ ValidateOracle(oracles, key, oracle, TRUE)
  /\ AttestSources(key, oracle)
  /\ IF HasLpSource(oracle) THEN ProbePriceable(key, oracle) ELSE Probe(key, oracle)
  /\ StoreOracle(key, oracle)
  /\ RevalidateDependents(oracles', key)
  /\ UNCHANGED <<now, feeds, pools>>

Banded(oracle, band) == [oracle EXCEPT !.lo = band.lo, !.hi = band.hi]

SetSanityBand(key, band) ==
  /\ oracles[key] # NoOracle
  /\ band.lo >= oracles[key].lo /\ band.hi <= oracles[key].hi
  /\ ValidateOracle(oracles, key, Banded(oracles[key], band), FALSE)
  /\ Probe(key, Banded(oracles[key], band))
  /\ StoreOracle(key, Banded(oracles[key], band))
  /\ UNCHANGED <<now, feeds, pools>>

Tolerant(oracle, tolerance) == [oracle EXCEPT !.upper = tolerance.upper, !.lower = tolerance.lower]

SetTolerance(key, tolerance) ==
  /\ oracles[key] # NoOracle /\ ~HasLpSource(oracles[key])
  /\ ValidateOracleTolerance(tolerance.upper, tolerance.lower)
  /\ Probe(key, Tolerant(oracles[key], tolerance))
  /\ StoreOracle(key, Tolerant(oracles[key], tolerance))
  /\ UNCHANGED <<now, feeds, pools>>

-----------------------------------------------------------------------------
(* External: providers, pools and the clock.                                *)

Unit(f) == IF FeedKind[f] \in MultiFeed THEN MsPerSecond ELSE 1

Newest(rounds) == SubSeq(rounds, 1, Least(MaxHistory, Len(rounds)))

\* A round is written now; its package may have been signed earlier, and a
\* provider's clock may run ahead of the ledger's.
Publish(f, price, signed) ==
  /\ signed <= MaxTime
  /\ feeds' = [feeds EXCEPT ![f] =
       Newest(<<[price |-> price, package |-> signed * Unit(f), write |-> now * Unit(f)]>>
                \o (IF @ = NoData THEN << >> ELSE @))]
  /\ UNCHANGED <<oracles, now, pools>>

Outage(f) ==
  /\ feeds[f] # NoData
  /\ feeds' = [feeds EXCEPT ![f] = NoData]
  /\ UNCHANGED <<oracles, now, pools>>

PoolMoves(p, report) ==
  /\ report # pools[p]
  /\ pools' = [pools EXCEPT ![p] = report]
  /\ UNCHANGED <<oracles, now, feeds>>

Tick ==
  /\ now < MaxTime
  /\ now' = now + 1
  /\ UNCHANGED <<oracles, feeds, pools>>

Next ==
  \/ \E k \in Keys : \E o \in Candidates[k] : SetOracle(k, o)
  \/ \E k \in Keys, b \in Bands : SetSanityBand(k, b)
  \/ \E k \in Keys, t \in Tolerances : SetTolerance(k, t)
  \/ \E f \in PublishedFeeds, p \in RoundPrices, d \in {-1, 0, MaxSkew, MaxSkew + 1} : Publish(f, p, now + d)
  \/ \E f \in PublishedFeeds : Outage(f)
  \/ \E p \in DOMAIN StartPools : \E r \in PoolReports[p] : PoolMoves(p, r)
  \/ Tick

Spec == Init /\ [][Next]_vars

-----------------------------------------------------------------------------
(* Properties.  What a key rests on is read off the registry by closure,    *)
(* not by the walks the contract makes.                                     *)

Registered == {k \in Keys : oracles[k] # NoOracle}
SourcesOf(ks) == UNION {Range(oracles[k].sources) : k \in ks \cap Registered}

RECURSIVE Closure(_)
Closure(ks) ==
  LET next == ks \cup UNION {Dependencies(s) : s \in SourcesOf(ks)}
  IN  IF next = ks THEN ks ELSE Closure(next)

BehindSource(s) == {s} \cup SourcesOf(Closure(Dependencies(s)))
FeedsBehind(s) == {t.feed : t \in {u \in BehindSource(s) : ~IsLp(u)}}
ContractsBehind(s) == {f.provider.contract : f \in FeedsBehind(s)}
FeedsOf(k) == UNION {FeedsBehind(s) : s \in Range(oracles[k].sources)}

\* However keys are registered and replaced, a registered key never fails to
\* resolve for a structural reason (a cycle, too deep a composition, a
\* missing dependency): set_oracle revalidates every dependent.
ResolvesStructurally ==
  \A k \in Registered : Quotes(<<k>>)[k].error \notin ConfigErrors

\* The two legs of a key share no provider contract beyond the declared set,
\* at any depth, also after one of their dependencies was replaced.
LegsStayIndependent ==
  \A k \in Registered : Len(oracles[k].sources) = 2 =>
    ContractsBehind(oracles[k].sources[1]) \cap ContractsBehind(oracles[k].sources[2])
      \subseteq (IF oracles[k].shared = RequireDisjoint THEN {} ELSE oracles[k].shared)

\* No feed a key rests on may be older than the key's own staleness bound
\* allows, at any depth.
RootBoundsEveryLeg ==
  \A k \in Registered : \A f \in FeedsOf(k) : f.maxStale <= oracles[k].maxStale

\* A key without a pool keeps one leg that reads no spot market anywhere
\* below it.
OneLegStaysSmoothed ==
  \A k \in Registered : ~HasLpSource(oracles[k]) =>
    \E s \in Range(oracles[k].sources) : \A t \in BehindSource(s) :
      ~IsLp(t) /\ ~IsUnsmoothedMarketLeg(t.feed.provider)

\* What set_oracle admitted stays true of every registered key, at any depth,
\* however the keys below it are replaced: set_oracle revalidates every dependent.
AdmissionStands ==
  ResolvesStructurally /\ LegsStayIndependent /\ RootBoundsEveryLeg /\ OneLegStaysSmoothed

\* When a provider last spoke, as the engine dates it.
LeafTime(f) ==
  LET rounds == feeds[f.provider.feed]
  IN  CASE f.provider.kind \in MultiFeed ->
             Least(rounds[1].package, rounds[1].write) \div MsPerSecond
        [] IsSmoothed(f.provider) -> rounds[Len(rounds)].package
        [] OTHER -> rounds[1].package

\* The rounds of a TWAP feed span the window asked for: two rounds at least,
\* never the newest alone.
SpansWindow(f) ==
  \E i, j \in DOMAIN feeds[f.provider.feed] :
    feeds[f.provider.feed][i].package - feeds[f.provider.feed][j].package
      >= TwapRequiredSpan(f.provider.mode, Provider[f.provider.contract].resolution)

\* A usable price stands on every feed below it: each publishes, is within its
\* own bound, is not from the future and, if smoothed, spans its window.  One leg
\* going silent never leaves the other to price alone, and the timestamp is that
\* of the oldest, so that a caller's own staleness check sees every leg.
UsablePriceNeedsEveryFeed ==
  \A k \in Registered :
    LET quote == Quotes(<<k>>)[k]
    IN  quote.valid => \A f \in FeedsOf(k) :
          /\ feeds[f.provider.feed] # NoData
          /\ LeafTime(f) \in (now - f.maxStale)..(now + MaxSkew)
          /\ quote.ts <= LeafTime(f)
          /\ IsSmoothed(f.provider) => SpansWindow(f)

\* Asking for keys together gives each the answer it gets alone: what the
\* session memoises for one key never changes another.  prices() agrees with
\* quotes() and fails when one of them is unusable; price_spread() answers for
\* the same keys and brackets their price.
BatchTransparent ==
  \A l \in Registered :
    LET alone  == Quotes(<<l>>)[l]
        spread == PriceSpread(l)
    IN  /\ (spread # NoData) = alone.valid
        /\ alone.valid => alone.final \in spread[1]..spread[2]
        /\ \A k \in Registered :
             LET paid == Prices(<<k, l>>)
             IN  /\ Quotes(<<k, l>>)[l] = alone
                 /\ paid # NoData => alone.valid /\ paid[l].price = alone.final
                 /\ paid = NoData => ~alone.valid \/ ~Quotes(<<k>>)[k].valid

\* A usable pool-share price never values the whole supply above what the
\* pool's own reserves fetch at the prices of the tokens it reports now.
ShareWithinBacking ==
  \A k \in Registered : HasLpSource(oracles[k]) /\ Quotes(<<k>>)[k].valid =>
    LET lp   == oracles[k].sources[1]
        pool == pools[lp.pool]
        of(t) == Quotes(<<t>>)[t].final
        worth == IF lp.tag = "CurveStableLp"
                 THEN MulDivCeil(pool.virtual * Max({of(t) : t \in Range(pool.coins)}), pool.shares, Wad * Wad)
                 ELSE MulDivCeil(pool.reserves[1], of(pool.tokens[1]), 10^TokenDecimals[pool.tokens[1]])
                       + MulDivCeil(pool.reserves[2], of(pool.tokens[2]), 10^TokenDecimals[pool.tokens[2]])
    IN  MulDivFloor(Quotes(<<k>>)[k].final, pool.shares, 10^oracles[k].decimals) <= worth + 2
=============================================================================
