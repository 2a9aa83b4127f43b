---------------------------- MODULE PriceSources ----------------------------
(***************************************************************************)
(* What an asset oracle is made of (common/src/types/composable_oracle.rs) *)
(* and what the price aggregator checks before it admits one               *)
(* (contracts/price-aggregator/src: properties.rs, validation.rs and the   *)
(* validators of common/src/validation.rs).                                *)
(*                                                                         *)
(* A price key is a member of Keys; a member of Tokens is PriceKey::Token  *)
(* of that address, any other key is PriceKey::Ref.  An oracle is a record *)
(*   [decimals, maxStale, sources, upper, lower, shared, lo, hi]           *)
(* where shared is the set an AllowShared policy declares, or              *)
(* RequireDisjoint.  A source is tagged Feed, Scaled, AquariusLp,          *)
(* AquariusStableLp or CurveStableLp.  A panic is the value Rejected: a    *)
(* rejected admission changes nothing, so which error it carries is left   *)
(* out.                                                                    *)
(***************************************************************************)
EXTENDS FixedPoint, Sequences, FiniteSets, FiniteSetsExt, SequencesExt

CONSTANTS
  Keys,                    \* price keys
  Tokens,                  \* the keys that are token addresses
  NoOracle,                \* an unregistered key
  Rejected,                \* a panic
  RequireDisjoint,         \* IndependencePolicy::RequireDisjoint
  MaxResolutionDepth,      \* MAX_RESOLUTION_DEPTH
  MaxPrice,                \* MAX_REASONABLE_PRICE_WAD
  MinStale, MaxStale,      \* MIN_ and MAX_PRICE_STALE_SECONDS
  MinBand, SingleBand, LpBand,  \* bounds on a sanity band, in Bps
  MinTolerance, MaxTolerance,   \* bounds on a tolerance, in Bps
  MinTwap, MaxTwap,        \* records a Twap read may ask for
  MinDecimals, MaxDecimals,     \* MIN_ and MAX_ASSET_DECIMALS
  MinFeedDecimals, MaxFeedDecimals,  \* MIN_ and MAX_ORACLE_DECIMALS
  StringFeeds,             \* the feeds a provider names by OracleAssetRef::String
  MaxCurveCoins

ASSUME PriceKeyAssumption == Tokens \subseteq Keys /\ NoOracle \notin Keys

-----------------------------------------------------------------------------
(* Providers and sources.                                                   *)

LpTags == {"AquariusLp", "AquariusStableLp", "CurveStableLp"}
IsLp(source) == source.tag \in LpTags
HasLpSource(oracle) == Len(oracle.sources) > 0 /\ IsLp(oracle.sources[1])

\* mode 0 is a spot read, a positive mode n is Twap(n).
IsSmoothed(provider) == provider.kind = "Reflector" /\ provider.mode > 0

Nature(provider) ==
  IF provider.kind \in {"RedStone", "Xoxno"} THEN provider.nature ELSE "Market"

IsUnsmoothedMarketLeg(provider) ==
  Nature(provider) = "Market" /\ ~IsSmoothed(provider)

DependencyList(source) ==
  CASE source.tag = "Feed"          -> <<>>
    [] source.tag = "Scaled"        -> <<source.quote>>
    [] source.tag = "CurveStableLp" -> source.coins
    [] OTHER                        -> <<source.keyA, source.keyB>>
Dependencies(source) == Range(DependencyList(source))

-----------------------------------------------------------------------------
(* properties.rs: what a composition trusts, how old its oldest leg may be, *)
(* whether a market leg is read unsmoothed, and how deep it nests.          *)

EmptyProperties == [spot |-> FALSE, trust |-> {}, loosest |-> 0, depth |-> 0]

OfFeed(feed) ==
  [spot |-> IsUnsmoothedMarketLeg(feed.provider), trust |-> {feed.provider.contract},
   loosest |-> feed.maxStale, depth |-> 0]

LocalProperties(source) ==
  IF IsLp(source) THEN [EmptyProperties EXCEPT !.spot = TRUE] ELSE OfFeed(source.feed)

\* Joining is idempotent and commutative, so a set of parts is joined at once.
Join(parts) ==
  IF Rejected \in parts THEN Rejected
  ELSE [spot    |-> \E p \in parts : p.spot,
        trust   |-> UNION {p.trust : p \in parts},
        loosest |-> Max({0} \cup {p.loosest : p \in parts}),
        depth   |-> Max({0} \cup {p.depth : p \in parts})]

RECURSIVE PropertiesOfKey(_, _, _, _)

PropertiesOfSource(reg, source, depth, stack) ==
  IF depth > MaxResolutionDepth THEN Rejected
  ELSE Join({[LocalProperties(source) EXCEPT !.depth = depth]}
              \cup {PropertiesOfKey(reg, k, depth + 1, stack) : k \in Dependencies(source)})

PropertiesOfKey(reg, key, depth, stack) ==
  IF depth > MaxResolutionDepth \/ key \in stack \/ reg[key] = NoOracle THEN Rejected
  ELSE Join({PropertiesOfSource(reg, s, depth, stack \cup {key}) :
               s \in Range(reg[key].sources)})

SourceCount(sources) == Len(sources) \in 1..2

\* One entry per source, or Rejected in its place.
PropertiesOfConfig(reg, key, sources) ==
  [i \in 1..Len(sources) |-> PropertiesOfSource(reg, sources[i], 0, {key})]

SharedContracts(p, q) == p.trust \cap q.trust

-----------------------------------------------------------------------------
(* validation.rs.                                                           *)

CompositionDepth(p) == p.depth <= MaxResolutionDepth

StalenessEnvelope(maxStale, p) ==
  maxStale \in MinStale..MaxStale /\ p.loosest <= maxStale

Smoothing(derived) == \E i \in DOMAIN derived : ~derived[i].spot

\* Mutant: a later revalidation takes the admission's word for it.
IndependenceOnce(shared, policy, exact) ==
  ~exact \/ (IF policy = RequireDisjoint THEN shared = {} ELSE policy # {} /\ shared = policy)

\* exact: an admission must declare the shared set itself, a later
\* revalidation accepts a declaration that still covers it.
Independence(shared, policy, exact) ==
  IF policy = RequireDisjoint THEN shared = {}
  ELSE policy # {} /\ shared \subseteq policy /\ (exact => policy \subseteq shared)

FeedShape(feed) ==
  /\ feed.decimals \in MinFeedDecimals..MaxFeedDecimals
  /\ feed.maxStale \in MinStale..MaxStale
  /\ feed.provider.kind = "Reflector" => feed.provider.feed \notin StringFeeds
  /\ IsSmoothed(feed.provider) => feed.provider.mode \in MinTwap..MaxTwap

FactorBounds(source) ==
  source.minF > 0 /\ source.maxF >= source.minF /\ source.maxF <= MaxPrice

\* A Ref key may price any token; a Token key only itself.
KeyPricesToken(key, token) == key \in Tokens => key = token

AquariusLpShape(lp) ==
  /\ {lp.decA, lp.decB} \subseteq MinDecimals..MaxDecimals
  /\ lp.tokenA # lp.tokenB /\ lp.keyA # lp.keyB
  /\ KeyPricesToken(lp.keyA, lp.tokenA) /\ KeyPricesToken(lp.keyB, lp.tokenB)
  /\ lp.minValue > 0

SourceShape(source) ==
  CASE source.tag = "Feed"          -> FeedShape(source.feed)
    [] source.tag = "Scaled"        -> FeedShape(source.feed) /\ FactorBounds(source)
    [] source.tag = "CurveStableLp" -> Len(source.coins) \in 2..MaxCurveCoins /\ source.minValue > 0
    [] OTHER                        -> AquariusLpShape(source)

AssetDecimals(key, decimals) ==
  IF key \in Tokens THEN decimals \in MinDecimals..MaxDecimals ELSE decimals = 0

-----------------------------------------------------------------------------
(* common/src/validation.rs.                                                *)

ValidateSanityBounds(lo, hi) ==
  /\ lo > 0 /\ lo < hi /\ hi <= MaxPrice
  /\ MulDivFloor(hi - lo, Bps, hi + lo) >= MinBand

ValidateSingleSourceSanityBand(exempt, lo, hi) ==
  exempt \/ MulDivCeil(hi - lo, Bps, hi + lo) <= SingleBand

ValidateLpSanityBand(lo, hi) == MulDivCeil(hi - lo, Bps, hi + lo) <= LpBand

ValidateOracleTolerance(upper, lower) ==
  /\ upper \in (Bps + MinTolerance)..(Bps + MaxTolerance)
  /\ lower \in (Bps - MaxTolerance)..Bps
  /\ lower = MulDivHalfUp(Bps, Bps, upper)

-----------------------------------------------------------------------------
(* admin.rs: validate_oracle against the registry reg.                      *)

\* Two legs that trust different contracts back each other up.
ExemptFromBandCap(derived) == Len(derived) = 2 /\ derived[1].trust # derived[2].trust

ValidateDerived(derived, key, oracle, exact) ==
  /\ ValidateSanityBounds(oracle.lo, oracle.hi)
  /\ IF HasLpSource(oracle)
     THEN ValidateLpSanityBand(oracle.lo, oracle.hi)
     ELSE /\ ValidateSingleSourceSanityBand(ExemptFromBandCap(derived), oracle.lo, oracle.hi)
          /\ Smoothing(derived)
          /\ ValidateOracleTolerance(oracle.upper, oracle.lower)
  /\ AssetDecimals(key, oracle.decimals)
  /\ \A s \in Range(oracle.sources) : SourceShape(s)
  /\ (\E s \in Range(oracle.sources) : IsLp(s)) => Len(oracle.sources) = 1
  /\ \A i \in DOMAIN derived : CompositionDepth(derived[i])
  /\ StalenessEnvelope(oracle.maxStale, Join(Range(derived)))
  /\ Len(derived) = 2 =>
       Independence(SharedContracts(derived[1], derived[2]), oracle.shared, exact)

ValidateOracleWith(derived, key, oracle, exact) ==
  Rejected \notin Range(derived) /\ ValidateDerived(derived, key, oracle, exact)

ValidateOracle(reg, key, oracle, exact) ==
  /\ SourceCount(oracle.sources)
  /\ ValidateOracleWith(PropertiesOfConfig(reg, key, oracle.sources), key, oracle, exact)

\* Whether root's composition reaches target; a key already on the path does
\* not match.
RECURSIVE DependsOn(_, _, _, _)
DependsOn(reg, root, target, path) ==
  /\ root \notin path /\ reg[root] # NoOracle
  /\ \E s \in Range(reg[root].sources) : \E k \in Dependencies(s) :
       k = target \/ DependsOn(reg, k, target, path \cup {root})

\* Structural only, over the registry as just written.
RevalidateDependents(reg, changed) ==
  \A k \in Keys \ {changed} :
    reg[k] # NoOracle /\ DependsOn(reg, k, changed, {})
      => ValidateOracle(reg, k, reg[k], FALSE)
=============================================================================
