------------------------- MODULE MCPriceAggregator -------------------------
(***************************************************************************)
(* Instances of PriceAggregator.  WAD is 10, a whole in basis points is    *)
(* 100, times are small numbers of seconds with two milliseconds each.  A  *)
(* behaviour plays one of five scenes; the last one is a two-coin pool     *)
(* under trade, over which the share arithmetic of LpMath is checked.      *)
(***************************************************************************)
EXTENDS PriceAggregator

VARIABLES
  scene,
  lp      \* the pool of the last scene: [a, b, amp]

MCKeys == {"a", "b", "c", "d", "t", "x", "y", "z", "u", "v", "w"}
MCDecimals == [k \in MCKeys |-> IF k = "x" THEN 0 ELSE 1]
Only(candidates) == candidates @@ [k \in MCKeys |-> {}]

FeedOf(kind, contract, feed, mode, nature, stale) ==
  [provider |-> [kind |-> kind, contract |-> contract, feed |-> feed, mode |-> mode, nature |-> nature],
   decimals |-> 1, maxStale |-> stale]

Twap(stale)   == FeedOf("Reflector", "R", "rf", 2, "Market", stale)
Named(stale)  == FeedOf("Reflector", "R", "rx", 2, "Market", stale)
Rate(stale)   == FeedOf("RedStone", "S", "rs", 0, "ExchangeRate", stale)
Rate2(stale)  == FeedOf("RedStone", "S", "rt", 0, "ExchangeRate", stale)
Signed(stale) == FeedOf("Xoxno", "X", "xo", 0, "Market", stale)
Chain(stale)  == FeedOf("Chainlink", "L", "cl", 0, "Market", stale)

Feed(f) == [tag |-> "Feed", feed |-> f]
Times(f, q) == [tag |-> "Scaled", feed |-> f, quote |-> q, minF |-> 5, maxF |-> 20]

OracleOf(sources, shared, stale) ==
  [decimals |-> 1, maxStale |-> stale, sources |-> sources, upper |-> 125, lower |-> 80,
   shared |-> shared, lo |-> 4, hi |-> 16]

Single(s, stale) == OracleOf(<<s>>, RequireDisjoint, stale)

Round(p, t) == <<[price |-> p, package |-> t, write |-> t]>>

MCFeeds == {"rf", "rx", "rs", "rt", "xo", "cl"}
MCFeedContract == [rf |-> "R", rx |-> "R", rs |-> "S", rt |-> "S", xo |-> "X", cl |-> "L"]
MCFeedKind == [rf |-> "Reflector", rx |-> "Reflector", rs |-> "RedStone", rt |-> "RedStone", xo |-> "Xoxno", cl |-> "Chainlink"]
MCProvider ==
  [R |-> [base |-> "USD", decimals |-> 1, resolution |-> 1, maxAge |-> 0],
   S |-> [base |-> "USD", decimals |-> 1, resolution |-> 1, maxAge |-> 0],
   X |-> [base |-> "USD", decimals |-> 1, resolution |-> 1, maxAge |-> 2],
   L |-> [base |-> "USD", decimals |-> 1, resolution |-> 1, maxAge |-> 0]]
NoPools == [p \in {} |-> {}]

-----------------------------------------------------------------------------
(* Registry: every legal sequence of registrations over four keys.          *)

MCFeedsStart ==
  [rf |-> Round(10, 1), rx |-> Round(10, 1), rs |-> Round(10, 2), rt |-> Round(10, 2), xo |-> Round(10, 2),
   cl |-> Round(10, 1)]
RegLeaves == {Feed(Twap(2)), Feed(Rate(3)), Feed(Signed(2)), Feed(Chain(2))}
RegCandidates ==
  [d |-> {Single(Feed(f), 3) : f \in {Twap(2), Named(2), [Twap(2) EXCEPT !.decimals = 0]}},
   c |-> {Single(s, 3) : s \in RegLeaves \cup {Times(Rate2(2), k) : k \in {"a", "b", "d"}}}
           \cup {OracleOf(<<Feed(Twap(2)), Feed(Chain(2))>>, RequireDisjoint, 3)},
   b |-> {Single(s, m) : s \in {Feed(Twap(2)), Times(Signed(2), "c"), Times(Rate2(2), "c")}, m \in {2, 3}}
           \cup {OracleOf(<<Feed(Twap(2)), Times(Signed(2), "c")>>, p, 3) : p \in {RequireDisjoint, {"R"}, {"X"}}},
   a |-> {OracleOf(<<x, y>>, p, m) : x \in {Feed(Twap(2)), Times(Rate2(2), "c")},
                                   y \in {Feed(Chain(2)), Times(Chain(2), "b")},
                                   p \in {RequireDisjoint, {"R"}, {"R", "X"}}, m \in {2, 3}}
           \cup {OracleOf(<<Times(Rate2(2), "c"), Feed(Chain(2))>>, {"L"}, 3), Single(Times(Rate2(2), "b"), 3)}]

-----------------------------------------------------------------------------
(* Market: a reference rate, a key scaled by it, and a dual key, while the  *)
(* feeds below them move, fall silent and run ahead of the clock.           *)

MktCandidates ==
  [c |-> {Single(Feed(Rate(2)), 2)},
   b |-> {Single(Times(Rate2(3), "c"), 3)},
   a |-> {OracleOf(<<Times(Rate2(3), "b"), Feed(Chain(2))>>, RequireDisjoint, 3)}]

-----------------------------------------------------------------------------
(* Twap: one key read over a window of three rounds.                        *)

TwapCandidates == [t |-> {Single(Feed(FeedOf("Reflector", "R", "rf", 3, "Market", 4)), 4)}]

-----------------------------------------------------------------------------
(* Lp: a constant-product, a stable and a Curve share over three tokens.    *)

LpFeeds ==
  [rf |-> Round(10, 1), rx |-> Round(10, 1), rs |-> Round(10, 2), rt |-> Round(8, 2), xo |-> Round(4, 2),
   cl |-> Round(10, 1)]
LpOf(tag, pool) ==
  [tag |-> tag, pool |-> pool, tokenA |-> "x", tokenB |-> "y", keyA |-> "x", keyB |-> "y",
   decA |-> 0, decB |-> 1, minValue |-> 40]
Curve == [tag |-> "CurveStableLp", pool |-> "w", coins |-> <<"x", "y">>, hash |-> 1, minValue |-> 40]
OneRate(f, d) == [Single(Feed(f), 2) EXCEPT !.decimals = d]
LpCandidates ==
  [x |-> {OneRate(Rate(2), 0)}, y |-> {OneRate(Rate2(2), 1)},
   z |-> {OneRate(FeedOf("Xoxno", "X", "xo", 0, "ExchangeRate", 2), 1)},
   u |-> {Single(LpOf("AquariusLp", "pu"), 2)}, v |-> {Single(LpOf("AquariusStableLp", "pv"), 2)},
   w |-> {Single(Curve, 2)}]
Report(kind, share, tokens, reserves, shares) ==
  [kind |-> kind, share |-> share, tokens |-> tokens, reserves |-> reserves, shares |-> shares,
   amp |-> 3, hash |-> 1, coins |-> tokens, fixedRates |-> TRUE, virtual |-> 11]
Pair == <<"x", "y">>
LpReports ==
  [pu |-> {Report("constant_product", "u", Pair, r, 100) : r \in {<<10, 120>>, <<30, 40>>, <<2, 20>>}}
            \cup {Report("constant_product", "u", t, <<10, 120>>, 100) : t \in {<<"z", "y">>, <<"y", "x">>}}
            \cup {NoData},
   pv |-> {Report("stable", "v", Pair, r, 100) : r \in {<<10, 100>>, <<15, 40>>}}
            \cup {Report("constant_product", "v", Pair, <<10, 100>>, 100),
                  Report("stable", "v", <<"z", "y">>, <<10, 100>>, 100), NoData},
   w |-> {Report("curve", "w", c, <<0, 0>>, s) : c \in {Pair, <<"z", "y">>}, s \in {30, 60}}
            \cup {[Report("curve", "w", Pair, <<0, 0>>, 60) EXCEPT !.hash = 2], NoData}]
LpStart ==
  [pu |-> Report("constant_product", "u", Pair, <<10, 120>>, 100),
   pv |-> Report("stable", "v", Pair, <<10, 100>>, 100),
   w  |-> Report("curve", "w", Pair, <<0, 0>>, 60)]

-----------------------------------------------------------------------------
(* Grid: the reserves aquarius_pool_reserves_call reads, under trade.  The  *)
(* pool is external; all the model says of it is that a swap never lowers   *)
(* the product of the reserves.                                             *)

CONSTANTS MaxA, MaxB, MaxSwap, Amps, GridPrices

Grid == INSTANCE LpMath WITH
  Ray <- 1, MaxI128 <- 100000000, MaxU256 <- 100000000, MaxNormalizedReserve <- 400, MaxDIterations <- 40

Swap ==
  \E dx \in 1..MaxSwap, dy \in 0..MaxSwap :
    /\ lp.a + dx <= MaxA /\ dy < lp.b
    /\ (lp.a + dx) * (lp.b - dy) >= lp.a * lp.b
    /\ lp' = [lp EXCEPT !.a = @ + dx, !.b = @ - dy]

SwapBack ==
  \E dx \in 0..MaxSwap, dy \in 1..MaxSwap :
    /\ lp.b + dy <= MaxB /\ dx < lp.a
    /\ (lp.a - dx) * (lp.b + dy) >= lp.a * lp.b
    /\ lp' = [lp EXCEPT !.a = @ - dx, !.b = @ + dy]

\* Coin a has all the decimals of WAD and coin b has none, so that both ends of the
\* conversion to WAD are taken.
LegA(reserve, price) == [reserve |-> reserve, decimals |-> WadDecimals, price |-> price]
LegB(reserve, price) == [reserve |-> reserve, decimals |-> 0, price |-> price]
Supply == [shares |-> 1, decimals |-> WadDecimals]
Xa == Grid!TryAmountToWad(lp.a, WadDecimals)
Xb == Grid!TryAmountToWad(lp.b, 0)

\* Newton's iteration of isqrt_of_product ends exactly on the floor of the
\* square root of the product.
IsqrtExact ==
  scene = "grid" =>
    LET root == Grid!IsqrtOfProduct(Xa, Xb)
    IN  root * root <= Xa * Xb /\ Xa * Xb < (root + 1) * (root + 1)

\* solve_stable_d converges for every pool of the domain, to within two units
\* of the root of the StableSwap invariant
\* D^3 + (2A - 1) 4xy D = 2A (x + y) 4xy, whatever the imbalance.
Residual(d, xy) == d * d * d + (2 * lp.amp - 1) * 4 * xy * d - 2 * lp.amp * (Xa + Xb) * 4 * xy

StableDSolvesInvariant ==
  scene = "grid" =>
    LET d == Grid!SolveStableD(Xa, Xb, lp.amp)
    IN  d # NoPrice /\ Residual(d - 2, Xa * Xb) <= 0 /\ Residual(d + 2, Xa * Xb) >= 0

\* A stable share is valued at the cheaper coin: never above the reserves at
\* that price.
StableShareIsConservative ==
  scene = "grid" => \A p, q \in GridPrices :
    Grid!FairStableLpPrice(LegA(lp.a, p), LegB(lp.b, q), Supply, lp.amp) <= (Xa + Xb) * Least(p, q)

\* The solvers behind a share price are exact over the whole grid of reserves,
\* amplifications and prices: isqrt_of_product, solve_stable_d and the stable
\* value built on it.
ShareMathIsExact == IsqrtExact /\ StableDSolvesInvariant /\ StableShareIsConservative

-----------------------------------------------------------------------------
(* The scenes.                                                              *)

Quiet ==
  [candidates |-> Only(<<>>), bands |-> {}, tolerances |-> {}, prices |-> {}, reports |-> NoPools,
   feeds |-> MCFeedsStart, pools |-> NoPools, moving |-> {}, end |-> 1, history |-> 1]

Scenes ==
  [registry |-> [Quiet EXCEPT !.candidates = Only(RegCandidates), !.bands = {[lo |-> 6, hi |-> 12]}, !.history = 2],
   market   |-> [Quiet EXCEPT !.candidates = Only(MktCandidates), !.tolerances = {[upper |-> 110, lower |-> 91]},
                              !.prices = {12}, !.moving = {"rs", "cl"}, !.end = 3],
   twap     |-> [Quiet EXCEPT !.candidates = Only(TwapCandidates), !.prices = {0, 8}, !.moving = {"rf"},
                              !.end = 3, !.history = 3],
   shares   |-> [Quiet EXCEPT !.candidates = Only(LpCandidates), !.prices = {12}, !.moving = {"rt"},
                              !.reports = LpReports, !.pools = LpStart, !.feeds = LpFeeds, !.end = 2],
   grid     |-> Quiet]

In(c) == INSTANCE PriceAggregator WITH
  Candidates <- c.candidates, Bands <- c.bands, Tolerances <- c.tolerances, RoundPrices <- c.prices,
  PoolReports <- c.reports, StartFeeds <- c.feeds, StartPools <- c.pools, PublishedFeeds <- c.moving,
  MaxTime <- c.end, MaxHistory <- c.history

MCInit ==
  /\ \E name \in DOMAIN Scenes : scene = name /\ In(Scenes[name])!Init
  /\ lp \in [a : {1}, b : {1}, amp : IF scene = "grid" THEN Amps ELSE {1}]

MCNext ==
  \/ /\ \E name \in DOMAIN Scenes \ {"grid"} : scene = name /\ In(Scenes[name])!Next
     /\ Cardinality({p \in DOMAIN pools : pools'[p] # LpStart[p]}) <= 1
     /\ UNCHANGED <<scene, lp>>
  \/ /\ scene = "grid"
     /\ Swap \/ SwapBack
     /\ UNCHANGED <<vars, scene>>

MCSpec == MCInit /\ [][MCNext]_<<vars, scene, lp>>
=============================================================================
