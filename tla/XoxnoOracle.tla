---------------------------- MODULE XoxnoOracle ----------------------------
(***************************************************************************)
(* The price oracle XOXNO runs itself (contracts/xoxno-oracle).  Signers   *)
(* post their own latest price of a feed; once a threshold of them is      *)
(* fresh and close together in time, the lower median becomes the price    *)
(* of the feed and joins a bounded history.  The owner changes signers,    *)
(* bounds and feeds underneath.                                            *)
(*                                                                         *)
(* The ledger clock counts seconds, package timestamps count units of      *)
(* MS_PER_SECOND to the second.  A call that fails reverts, so every       *)
(* operation is one step.  Signers are a set and a signer's feed list is a *)
(* set: the code keeps both free of duplicates and never uses their order. *)
(* Renewals of storage lifetimes are left out: an archived entry is        *)
(* restored with its value.                                                *)
(***************************************************************************)
EXTENDS Integers, Sequences, FiniteSetsExt

CONSTANTS
  Signer, Feed, Asset, None,
  Prices,                   \* submitted prices, valid ones and others
  Stamps,                   \* submitted package timestamps
  Seconds, Spreads,         \* values the owner gives to the bounds
  MS_PER_SECOND, MAX_FUTURE_SKEW_SECONDS, MAX_SUBMITTED_PRICE, MAX_HISTORY_LEN, BPS,
  DEFAULT_MAX_STALE_SECONDS, DEFAULT_MAX_SUBMISSION_AGE_SECONDS,
  DEFAULT_MAX_CLUSTER_SPREAD_BPS,
  InitialSigners, InitialThreshold, InitialResolution, StartTime,
  MaxTime, MaxBatch         \* bounds: the last second, the longest batch

ASSUME ConstructorAccepts ==
  /\ InitialSigners \subseteq Signer
  /\ InitialThreshold \in 1..Cardinality(InitialSigners)

ASSUME ConstantsAreSound ==
  /\ IsFiniteSet(Signer) /\ Prices \subseteq Int /\ Stamps \subseteq Nat
  /\ Seconds \subseteq Nat /\ Spreads \subseteq Nat
  /\ MS_PER_SECOND \in Nat \ {0} /\ MAX_FUTURE_SKEW_SECONDS \in Nat
  /\ MAX_HISTORY_LEN \in Nat \ {0} /\ BPS \in Nat \ {0}
  /\ DEFAULT_MAX_STALE_SECONDS \in Nat /\ DEFAULT_MAX_CLUSTER_SPREAD_BPS \in Nat
  /\ DEFAULT_MAX_SUBMISSION_AGE_SECONDS \in (MAX_FUTURE_SKEW_SECONDS + 1)..DEFAULT_MAX_STALE_SECONDS
  /\ InitialResolution \in Nat /\ StartTime \in Nat /\ MaxTime \in Nat /\ MaxBatch \in Nat

ASSUME NoneIsNoRecord ==
  None \notin [price : Nat, package : Nat, write : Nat] \cup [price : Nat, timestamp : Nat]

VARIABLES
  now,         \* ledger time
  config,      \* instance storage
  signerFeeds, \* signer -> the feeds it has submitted for
  feeds,       \* feed -> latest submissions, current aggregate, history
  reg          \* the registry: two indexed lists and the two-way mapping

vars == <<now, config, signerFeeds, feeds, reg>>

MIN_SUBMISSION_AGE_SECONDS == MAX_FUTURE_SKEW_SECONDS + 1

Monus(a, b) == IF a > b THEN a - b ELSE 0

Lesser(a, b) == IF a < b THEN a ELSE b

\* A loop over a list, from its first entry to its last.
Loop(op(_, _), base, list) ==
  MapThenFoldSet(LAMBDA e, acc : op(acc, e), base, LAMBDA i : list[i], Max, DOMAIN list)

\* A map with one more key, or a new value at that key.
Bind(map, key, value) ==
  [k \in DOMAIN map \cup {key} |-> IF k = key THEN value ELSE map[k]]

-----------------------------------------------------------------------------
(* Submissions: what is accepted and what is kept.                          *)

ValidatePrice(price) == 0 < price /\ price <= MAX_SUBMITTED_PRICE

NotFuture(ts) == ts \div MS_PER_SECOND <= now + MAX_FUTURE_SKEW_SECONDS

FreshSubmission(ts) == Monus(now, ts \div MS_PER_SECOND) <= config.maxAge

MonotonicPackage(f, s, ts) ==
  feeds[f].latest[s] # None => ts >= feeds[f].latest[s].ts

RegisteredSigner(s) == s \in config.signers

KnownFeed(f) == f \in DOMAIN reg.feed.index

StoreSubmission(rec, s, price, ts) ==
  [rec EXCEPT !.latest[s] = [price |-> price, ts |-> ts]]

-----------------------------------------------------------------------------
(* Aggregation.                                                             *)

MaxRelativeSkew(c) == Lesser(c.maxSkew, c.maxAge)

\* The submissions of current signers that are not too old.
Kept(c, rec) ==
  {s \in c.signers : /\ rec.latest[s] # None
                     /\ Monus(now, rec.latest[s].ts \div MS_PER_SECOND) <= c.maxAge}

\* The newest of them, but no later than the ledger.
NewestStamp(kept, rec) ==
  Lesser(Max({0} \cup {rec.latest[s].ts : s \in kept}), now * MS_PER_SECOND)

Cluster(c, rec) ==
  LET kept == Kept(c, rec)
  IN {s \in kept : Monus(NewestStamp(kept, rec), rec.latest[s].ts)
                     <= MaxRelativeSkew(c) * MS_PER_SECOND}

WithinAnySpread(lowest, highest, bps) == TRUE

WithinSpread(lowest, highest, bps) == highest * BPS <= lowest * (BPS + bps)

\* A cluster this large has a correct median however far its prices spread.
SpreadFree(c) == 2 * Monus(Cardinality(c.signers), c.threshold) + 1

PricesOf(rec, S) == {rec.latest[s].price : s \in S}

\* The price at place rank of the sorted copy, counted from zero: no more than
\* rank prices are lower, and more than rank are no higher.
AtRank(rec, S, rank, price) ==
  /\ Cardinality({s \in S : rec.latest[s].price < price}) <= rank
  /\ Cardinality({s \in S : rec.latest[s].price <= price}) > rank

MedianOf(rec, S) ==
  CHOOSE price \in PricesOf(rec, S) : AtRank(rec, S, (Cardinality(S) - 1) \div 2, price)

PushHistory(c, history, agg) ==
  IF history # <<>> /\ agg.write < history[Len(history)].write + c.resolution * MS_PER_SECOND
    THEN [history EXCEPT ![Len(history)] = agg]
    ELSE Append(IF Len(history) >= MAX_HISTORY_LEN THEN Tail(history) ELSE history, agg)

ApplyQuorumMiss(rec, onMiss) ==
  IF onMiss = "Clear" THEN [rec EXCEPT !.aggregate = None] ELSE rec

Quorum(c, rec, cluster) ==
  /\ Cardinality(Kept(c, rec)) >= c.threshold
  /\ Cardinality(cluster) >= c.threshold
  /\ \/ Cardinality(cluster) >= SpreadFree(c)
     \/ WithinSpread(Min(PricesOf(rec, cluster)), Max(PricesOf(rec, cluster)), c.spread)

WriteAggregate(c, rec, agg) ==
  [rec EXCEPT !.aggregate = agg, !.history = PushHistory(c, @, agg)]

RecomputeWith(c, rec, onMiss, cluster) ==
  IF ~Quorum(c, rec, cluster) THEN ApplyQuorumMiss(rec, onMiss)
  ELSE WriteAggregate(c, rec,
         [price |-> MedianOf(rec, cluster),
          package |-> Min({rec.latest[s].ts : s \in cluster}),
          write |-> now * MS_PER_SECOND])

RecomputeAggregate(c, rec, onMiss) == RecomputeWith(c, rec, onMiss, Cluster(c, rec))

-----------------------------------------------------------------------------
(* The registry: lists of ledger slots with a reverse index.  Removal moves *)
(* the last slot into the gap.                                              *)

EmptyIndex == [at |-> <<>>, index |-> <<>>]

DropLast(at) == SubSeq(at, 1, Len(at) - 1)

IndexInsert(ix, e) ==
  [at |-> Append(ix.at, e), index |-> Bind(ix.index, e, Len(ix.at) + 1)]

FillSlotKeepsIndex(ix, index, slot) ==
  [at |-> DropLast([ix.at EXCEPT ![slot] = ix.at[Len(ix.at)]]), index |-> index]

\* index has lost the removed element; slot is where it was.
FillSlot(ix, index, slot) ==
  IF slot = Len(ix.at)
    THEN [at |-> DropLast(ix.at), index |-> index]
    ELSE [at    |-> DropLast([ix.at EXCEPT ![slot] = ix.at[Len(ix.at)]]),
          index |-> Bind(index, ix.at[Len(ix.at)], slot)]

IndexRemove(ix, e) ==
  IF e \notin DOMAIN ix.index THEN ix
  ELSE FillSlot(ix, Restrict(ix.index, DOMAIN ix.index \ {e}), ix.index[e])

EnsureKnownFeed(r, f) ==
  IF f \in DOMAIN r.feed.index THEN r ELSE [r EXCEPT !.feed = IndexInsert(@, f)]

MapFeed(r, a, f) == [r EXCEPT !.mapping = Bind(@, a, f), !.owner = Bind(@, f, a)]

RemoveFeedMapping(r, a) ==
  [r EXCEPT !.mapping = Restrict(@, DOMAIN @ \ {a}), !.asset = IndexRemove(@, a)]

Blank == [latest |-> [s \in Signer |-> None], aggregate |-> None, history |-> <<>>]

\* clear_feed_state visits the signers registered now.
ClearedFeed(c, rec) ==
  [Blank EXCEPT !.latest = [s \in Signer |-> IF s \in c.signers THEN None ELSE rec.latest[s]]]

ClearStateKeepsFeed(f, r) ==
  /\ feeds' = [feeds EXCEPT ![f] = ClearedFeed(config, @)]
  /\ signerFeeds' = [s \in Signer |-> IF s \in config.signers
                                        THEN signerFeeds[s] \ {f} ELSE signerFeeds[s]]
  /\ reg' = [r EXCEPT !.owner = Restrict(@, DOMAIN @ \ {f})]

ClearFeedState(f, r) ==
  /\ feeds' = [feeds EXCEPT ![f] = ClearedFeed(config, @)]
  /\ signerFeeds' = [s \in Signer |-> IF s \in config.signers
                                        THEN signerFeeds[s] \ {f} ELSE signerFeeds[s]]
  /\ reg' = [r EXCEPT !.owner = Restrict(@, DOMAIN @ \ {f}), !.feed = IndexRemove(@, f)]

-----------------------------------------------------------------------------
(* Operations of a signer.                                                  *)

SubmitEntries(s, entries, ts) ==
  /\ feeds' = Loop(LAMBDA m, e : [m EXCEPT ![e.feed] =
                      RecomputeAggregate(config, StoreSubmission(@, s, e.price, ts), "Retain")],
                   feeds, entries)
  /\ signerFeeds' = [signerFeeds EXCEPT ![s] = @ \cup {entries[i].feed : i \in DOMAIN entries}]
  /\ UNCHANGED <<now, config, reg>>

SubmitPrice(s, f, price, ts) ==
  /\ RegisteredSigner(s) /\ KnownFeed(f) /\ ValidatePrice(price)
  /\ NotFuture(ts) /\ FreshSubmission(ts) /\ MonotonicPackage(f, s, ts)
  /\ SubmitEntries(s, <<[feed |-> f, price |-> price]>>, ts)

\* A batch is checked as a whole before anything is stored, so an entry is
\* not compared with an earlier entry of its own batch.
SubmitPrices(s, entries, ts) ==
  /\ RegisteredSigner(s) /\ NotFuture(ts) /\ FreshSubmission(ts)
  /\ \A i \in DOMAIN entries :
       /\ KnownFeed(entries[i].feed) /\ MonotonicPackage(entries[i].feed, s, ts)
       /\ ValidatePrice(entries[i].price)
  /\ SubmitEntries(s, entries, ts)

-----------------------------------------------------------------------------
(* Operations of the owner.                                                 *)

Configure(c) == config' = c /\ UNCHANGED <<now, signerFeeds, feeds, reg>>

AddSigner(s) ==
  /\ s \notin config.signers
  /\ Configure([config EXCEPT !.signers = @ \cup {s}])

ForgetNothing(s, c, rec) == RecomputeAggregate(c, rec, "Clear")

Forget(s, c, rec) == RecomputeAggregate(c, [rec EXCEPT !.latest[s] = None], "Clear")

RemoveSignerTo(s, c) ==
  /\ config' = c
  /\ feeds' = [f \in Feed |-> IF f \in signerFeeds[s] THEN Forget(s, c, feeds[f]) ELSE feeds[f]]
  /\ signerFeeds' = [signerFeeds EXCEPT ![s] = {}]
  /\ UNCHANGED <<now, reg>>

RemoveSigner(s) ==
  /\ s \in config.signers
  /\ Cardinality(config.signers) - 1 >= config.threshold
  /\ RemoveSignerTo(s, [config EXCEPT !.signers = @ \ {s}])

SetThreshold(n) ==
  /\ n # 0 /\ n <= Cardinality(config.signers)
  /\ Configure([config EXCEPT !.threshold = n])

SetMaxStaleSeconds(n) == n >= config.maxAge /\ Configure([config EXCEPT !.maxStale = n])

SetMaxSubmissionAgeSeconds(n) ==
  /\ n >= MIN_SUBMISSION_AGE_SECONDS /\ n <= config.maxStale
  /\ Configure([config EXCEPT !.maxAge = n])

SetMaxRelativeSkewSeconds(n) ==
  /\ n <= config.maxAge /\ n > MAX_FUTURE_SKEW_SECONDS
  /\ Configure([config EXCEPT !.maxSkew = n])

SetMaxClusterSpreadBps(n) ==
  /\ n # 0 /\ n <= BPS
  /\ Configure([config EXCEPT !.spread = n])

SetResolution(n) == Configure([config EXCEPT !.resolution = n])

\* Repeating an id in one call is the same as calling twice.
RecomputeFeeds(F) ==
  /\ \A f \in F : KnownFeed(f)
  /\ feeds' = [f \in Feed |-> IF f \in F THEN RecomputeAggregate(config, feeds[f], "Clear")
                                         ELSE feeds[f]]
  /\ UNCHANGED <<now, config, signerFeeds, reg>>

RegisterFeed(f) ==
  /\ ~KnownFeed(f)
  /\ reg' = EnsureKnownFeed(reg, f)
  /\ UNCHANGED <<now, config, signerFeeds, feeds>>

AddFeed(f, a) ==
  /\ a \notin DOMAIN reg.mapping /\ f \notin DOMAIN reg.owner
  /\ reg' = [EnsureKnownFeed(MapFeed(reg, a, f), f) EXCEPT !.asset = IndexInsert(@, a)]
  /\ UNCHANGED <<now, config, signerFeeds, feeds>>

RemoveFeed(a) ==
  /\ a \in DOMAIN reg.mapping
  /\ ClearFeedState(reg.mapping[a], RemoveFeedMapping(reg, a))
  /\ UNCHANGED <<now, config>>

PurgeFeed(f) ==
  /\ KnownFeed(f)
  /\ ClearFeedState(f, IF f \in DOMAIN reg.owner THEN RemoveFeedMapping(reg, reg.owner[f]) ELSE reg)
  /\ UNCHANGED <<now, config>>

Tick == now < MaxTime /\ now' = now + 1 /\ UNCHANGED <<config, signerFeeds, feeds, reg>>

-----------------------------------------------------------------------------

Init ==
  /\ now = StartTime
  /\ config = [signers |-> InitialSigners, threshold |-> InitialThreshold,
               maxStale |-> DEFAULT_MAX_STALE_SECONDS,
               maxAge |-> DEFAULT_MAX_SUBMISSION_AGE_SECONDS,
               maxSkew |-> DEFAULT_MAX_SUBMISSION_AGE_SECONDS,
               spread |-> DEFAULT_MAX_CLUSTER_SPREAD_BPS, resolution |-> InitialResolution]
  /\ signerFeeds = [s \in Signer |-> {}]
  /\ feeds = [f \in Feed |-> Blank]
  /\ reg = [feed |-> EmptyIndex, asset |-> EmptyIndex, mapping |-> <<>>, owner |-> <<>>]

Entry == [feed : Feed, price : Prices]

SignerNext ==
  \E s \in Signer, ts \in Stamps :
    \/ \E f \in Feed, price \in Prices : SubmitPrice(s, f, price, ts)
    \/ \E n \in 2..MaxBatch : \E entries \in [1..n -> Entry] : SubmitPrices(s, entries, ts)

RegistryNext ==
  \/ \E f \in Feed : RegisterFeed(f) \/ PurgeFeed(f)
  \/ \E f \in Feed, a \in Asset : AddFeed(f, a)
  \/ \E a \in Asset : RemoveFeed(a)

ConfigNext ==
  \/ \E s \in Signer : AddSigner(s) \/ RemoveSigner(s)
  \/ \E n \in 0..Cardinality(Signer) : SetThreshold(n)
  \/ \E n \in Seconds : \/ SetMaxStaleSeconds(n) \/ SetMaxSubmissionAgeSeconds(n)
                        \/ SetMaxRelativeSkewSeconds(n) \/ SetResolution(n)
  \/ \E n \in Spreads : SetMaxClusterSpreadBps(n)
  \/ \E F \in SUBSET Feed : RecomputeFeeds(F)

Next == SignerNext \/ RegistryNext \/ ConfigNext \/ Tick

Spec == Init /\ [][Next]_vars

-----------------------------------------------------------------------------
(* Reads.                                                                   *)

\* read_price_data_for_feed: the age is that of the write, not of the package.
ReadPriceData(f) ==
  LET agg == feeds[f].aggregate
  IN IF agg = None THEN None
     ELSE IF Monus(now, agg.write \div MS_PER_SECOND) > config.maxStale THEN None ELSE agg

ReadPriceHistory(f, limit) ==
  IF ReadPriceData(f) = None THEN <<>>
  ELSE LET h == feeds[f].history IN [i \in 1..Lesser(limit, Len(h)) |-> h[Len(h) - i + 1]]

ToReflector(entry) == [price |-> entry.price, timestamp |-> entry.package \div MS_PER_SECOND]

LastPrice(a) ==
  IF a \notin DOMAIN reg.mapping \/ ReadPriceData(reg.mapping[a]) = None THEN None
  ELSE ToReflector(ReadPriceData(reg.mapping[a]))

CloserEntryOldest(best, entry, timestamp) ==
  IF entry.package \div MS_PER_SECOND <= timestamp THEN entry ELSE best

\* The loop of price(): newest first, an entry replaces the best so far only
\* with a later package.
CloserEntry(best, entry, timestamp) ==
  IF entry.package \div MS_PER_SECOND <= timestamp /\ (best = None \/ entry.package > best.package)
    THEN entry ELSE best

ClosestEntry(a, timestamp) ==
  IF a \notin DOMAIN reg.mapping THEN None
  ELSE Loop(LAMBDA best, entry : CloserEntry(best, entry, timestamp), None,
            ReadPriceHistory(reg.mapping[a], MAX_HISTORY_LEN))

PriceAt(a, timestamp) ==
  LET entry == ClosestEntry(a, timestamp) IN IF entry = None THEN None ELSE ToReflector(entry)

RecentPrices(a, records) ==
  IF a \notin DOMAIN reg.mapping THEN <<>>
  ELSE LET history == ReadPriceHistory(reg.mapping[a], records)
       IN [i \in DOMAIN history |-> ToReflector(history[i])]

LoadAll(ix) == Range(ix.at)

-----------------------------------------------------------------------------
(* Properties.                                                              *)

\* Whatever order the owner changes the bounds in, they stay ordered as the
\* setters demand: a reachable threshold, an age between its floor and the
\* staleness bound, and an effective skew window wider than the future
\* tolerance, so that an on-time price is never clustered out by an early one.
BoundsOrdered ==
  /\ 1 <= config.threshold /\ config.threshold <= Cardinality(config.signers)
  /\ MIN_SUBMISSION_AGE_SECONDS <= config.maxAge /\ config.maxAge <= config.maxStale
  /\ MAX_FUTURE_SKEW_SECONDS < MaxRelativeSkew(config)

\* Nothing of a removed signer or a purged feed is left to count again later:
\* a stored submission belongs to a current signer and a registered feed, and
\* the signer's feed list, which remove_signer walks, names it.
SubmissionsOwned ==
  \A f \in DOMAIN feeds, s \in DOMAIN signerFeeds :
    feeds[f].latest[s] # None => s \in config.signers /\ KnownFeed(f) /\ f \in signerFeeds[s]

\* The reverse index and the slots of both lists agree after any sequence of
\* swap-removals, the two directions of the asset mapping are inverse, and an
\* asset only ever names a registered feed.
RegistryCoherent ==
  /\ \A ix \in {reg.feed, reg.asset} :
       /\ DOMAIN ix.index = Range(ix.at)
       /\ \A slot \in DOMAIN ix.at : ix.index[ix.at[slot]] = slot
  /\ Range(reg.asset.at) = DOMAIN reg.mapping
  /\ Range(reg.mapping) = DOMAIN reg.owner /\ DOMAIN reg.owner \subseteq DOMAIN reg.feed.index
  /\ \A a \in DOMAIN reg.mapping : reg.owner[reg.mapping[a]] = a

\* The history is bounded, in the order of its writes, and ends with the
\* current aggregate whenever there is one, so the price and the price series
\* of an asset never disagree.
HistoryCurrent ==
  \A f \in DOMAIN feeds :
    LET h == feeds[f].history
    IN /\ Len(h) <= MAX_HISTORY_LEN
       /\ \A i \in 1..(Len(h) - 1) : h[i].write <= h[i + 1].write
       /\ feeds[f].aggregate # None => h # <<>> /\ h[Len(h)] = feeds[f].aggregate

\* price() returns an entry of the history no later than asked, and no other
\* such entry has a later package or the same package and a later write.
PriceAtIsNewest ==
  \A a \in DOMAIN reg.mapping, t \in 0..MaxTime :
    LET seen == {e \in Range(feeds[reg.mapping[a]].history) : e.package \div MS_PER_SECOND <= t}
        got  == ClosestEntry(a, t)
    IN IF ReadPriceData(reg.mapping[a]) = None \/ seen = {} THEN PriceAt(a, t) = None
       ELSE /\ got \in seen /\ PriceAt(a, t).timestamp <= t
            /\ \A e \in seen : e.package < got.package
                               \/ (e.package = got.package /\ e.write <= got.write)

\* lastprice(), prices() and price() of an asset never disagree: the history is
\* in the order of the writes and ends with the current aggregate, which is the
\* newest record served, and a dated read finds its newest entry.
HistoryIsFaithful ==
  /\ HistoryCurrent
  /\ \A a \in DOMAIN reg.mapping :
       RecentPrices(a, 1) = (IF LastPrice(a) = None THEN <<>> ELSE <<LastPrice(a)>>)
  /\ PriceAtIsNewest

\* A faulty minority cannot move the price: with a majority threshold and at
\* most signers - threshold of the signers wrong, whichever they are, an
\* aggregate written in this step lies, up to the configured spread, between
\* two prices that the others posted.  (A batch may post a feed twice and miss
\* the quorum with the second price only; the stored prices are then no longer
\* the ones behind the aggregate.)
BetweenHonest(c, honest, price) ==
  \E low, high \in honest : /\ low * BPS <= price * (BPS + c.spread)
                            /\ price * BPS <= high * (BPS + c.spread)

MinorityCannotMove(c, rec, cluster) ==
  2 * c.threshold > Cardinality(c.signers) =>
    \A F \in SUBSET c.signers :
      Cardinality(F) <= Cardinality(c.signers) - c.threshold
        => BetweenHonest(c, PricesOf(rec, cluster \ F), rec.aggregate.price)

HonestlySupported(c, rec, cluster) == Quorum(c, rec, cluster) => MinorityCannotMove(c, rec, cluster)

PriceNeedsHonestSupport ==
  [][\A f \in DOMAIN feeds : feeds'[f].aggregate \notin {feeds[f].aggregate, None}
       => HonestlySupported(config, feeds[f], Cluster(config, feeds[f]))']_vars

\* The slots, indexes and mappings implement the plain registry.
Catalog == INSTANCE FeedCatalog WITH known <- LoadAll(reg.feed), feedOf <- reg.mapping

ImplementsCatalog == Catalog!CatalogSpec
=============================================================================
