------------------------------ MODULE Exporter ------------------------------
(***************************************************************************)
(* The metrics exporter (services/lending-exporter): one scrape after      *)
(* another reads contract views over RPC, one call at a time, while the    *)
(* chain moves on and calls fail, and sets, keeps or removes gauges; what  *)
(* is served is the rendering made at the end of a scrape.                 *)
(*                                                                         *)
(* A series is a set: empty when it is not published, else its one value.  *)
(* Of series set by one rule one stands for all: the amount supplied for   *)
(* every amount and rate of a market, `terms' for all flags and            *)
(* percentages of a listing, the supply side for both sides.  A market's   *)
(* parameters and its indexes are left out.                                *)
(***************************************************************************)
EXTENDS Integers, Sequences, FiniteSets, FiniteSetsExt, Functions, TLC

CONSTANTS
  Markets,     \* contracts.markets, a sequence of [hub, asset]
  Spoke,       \* cfg.spokes, 1..n
  ChunkSize,   \* INDEX_CHUNK_SIZE
  HasFallback, \* is contracts.price_aggregator configured
  Listings,    \* what a listing may be: [state, terms, cap]
  Statuses,    \* soft oracle status of an asset: [valid, price, gap], gap its primary's from its anchor
  Sources,     \* oracle configurations: sequences of [leg, lp, max_stale], <<>> if none is stored
  Amounts,     \* usage of a listing
  Ttl,         \* UNLISTED_SPOKE_ASSET_TTL, in ticks
  MaxAge,      \* bound on the age of a feed that is told apart
  MaxLag,      \* bound on the ticks of one scrape
  MaxChanges,  \* bound on the changes of the chain
  MaxFaults    \* bound on failing calls and restarts

VARIABLES
  chain,   \* what the contracts hold: [listing, held, status, sources, deprecated]
  age,     \* ticks since the timestamp of each feed, up to MaxAge + MaxLag
  reg,     \* Metrics: the registered series
  served,  \* Metrics.rendered
  skip,    \* unlisted_spoke_assets: ticks until a pair is probed again
  job,     \* the scrape: its program counter and locals
  lag,     \* ticks since the scrape read the ledger time
  changes, faults

vars == <<chain, age, reg, served, skip, job, lag, changes, faults>>

Market == DOMAIN Markets
Key    == Spoke \X Market
Asset  == {Markets[m].asset : m \in Market}
Leg    == 1..2

Blank ==
  [healthy    |-> [a \in Asset |-> {}], price       |-> [a \in Asset |-> {}],
   deviation  |-> [a \in Asset |-> {}], config      |-> [a \in Asset |-> {}],
   countdown  |-> [a \in Asset |-> {}], floor       |-> [a \in Asset |-> {}],
   supplied   |-> [m \in Market |-> {}], terms      |-> [k \in Key |-> {}],
   closed     |-> [k \in Key |-> {}],   utilization |-> [k \in Key |-> {}],
   deprecated |-> [k \in Key |-> {}],   cap         |-> [k \in Key |-> {}],
   tvl        |-> {}]

Idle ==
  [pc |-> "idle", m |-> 1, s |-> 1, last |-> 0, rows |-> [m \in Market |-> {}],
   decimals |-> [m \in Market |-> FALSE], pool |-> FALSE, oracle |-> FALSE, deprecated |-> {},
   feeds |-> <<>>, worst |-> {}, cap |-> 0, sum |-> 0]

Init ==
  /\ chain \in [listing : [Key -> {l \in Listings : l.state = "listed"}], held : [Key -> {0}],
                status : [Asset -> Statuses], sources : [Asset -> Sources],
                deprecated : [Spoke -> {FALSE}]]
  /\ age = [a \in Asset |-> [l \in Leg |-> 0]]
  /\ reg = Blank /\ served = Blank
  /\ skip = [k \in Key |-> 0]
  /\ job = Idle
  /\ lag = 0 /\ changes = 0 /\ faults = 0

world == <<chain, age, changes>>

\* A call that fails uses up one of the faults explored.
Answer(ok) == IF ok THEN UNCHANGED faults ELSE faults < MaxFaults /\ faults' = faults + 1

Unpublished == UNCHANGED <<served, lag, world>>

ThisAsset == Markets[job.m].asset
ThisKey == <<job.s, job.m>>

-----------------------------------------------------------------------------
(* scrape_once: ledger time, market indexes, addresses.                     *)

\* The interval fires: read_ledger_now.  Ledger and wall clock agree.
Begin ==
  /\ job.pc = "idle"
  /\ job' = [Idle EXCEPT !.pc = "indexes"]
  /\ lag' = 0
  /\ UNCHANGED <<reg, served, skip, faults, world>>

ChunkEnd == IF job.m + ChunkSize - 1 < Len(Markets) THEN job.m + ChunkSize - 1 ELSE Len(Markets)

\* get_market_indexes_detailed of an asset: an anchor price only with a second source.
View(a) == [chain.status[a] EXCEPT !.gap = IF Len(chain.sources[a]) = 2 THEN @ ELSE {}]
RowOf(m) == {View(Markets[m].asset)}

\* After the rows up to m come those of the next chunk, or the addresses.
IndexesRead(j, m) ==
  IF m = Len(Markets) THEN [j EXCEPT !.pc = "addresses", !.m = 1] ELSE [j EXCEPT !.pc = "indexes", !.m = m + 1]

\* One simulation for a chunk; if it fails its keys are read one by one.
ReadIndexes(ok) ==
  /\ job.pc = "indexes"
  /\ job' = IF ok
              THEN IndexesRead([job EXCEPT !.rows = [m \in job.m..ChunkEnd |-> RowOf(m)] @@ @], ChunkEnd)
              ELSE [job EXCEPT !.pc = "index", !.last = ChunkEnd]
  /\ Answer(ok)
  /\ UNCHANGED <<reg, skip>> /\ Unpublished

ReadIndex(ok) ==
  /\ job.pc = "index"
  /\ LET read == [job EXCEPT !.rows[job.m] = IF ok THEN RowOf(job.m) ELSE {}]
     IN  job' = IF job.m = job.last THEN IndexesRead(read, job.m) ELSE [read EXCEPT !.m = @ + 1]
  /\ Answer(ok)
  /\ UNCHANGED <<reg, skip>> /\ Unpublished

\* resolve_pool_id and resolve_price_aggregator, which falls back on the configuration.
ResolvePool(ok) ==
  /\ job.pc = "addresses"
  /\ job' = [job EXCEPT !.pc = "aggregator", !.pool = ok]
  /\ Answer(ok)
  /\ UNCHANGED <<reg, skip>> /\ Unpublished

ResolveAggregator(ok) ==
  /\ job.pc = "aggregator"
  /\ job' = [job EXCEPT !.pc = "market", !.oracle = ok \/ HasFallback]
  /\ Answer(ok)
  /\ UNCHANGED <<reg, skip>> /\ Unpublished

-----------------------------------------------------------------------------
(* scrape_once: the markets, in order.                                      *)

\* publish_market_index_view: an unread row counts as unhealthy and leaves the
\* prices alone, and a row without an anchor leaves the deviation alone.
PublishIndexView(r, a, row) ==
  LET gap == UNION {x.gap : x \in row}
  IN  [r EXCEPT !.healthy[a] = IF row = {} THEN {FALSE} ELSE {x.valid : x \in row},
                !.price[a] = IF row = {} THEN @ ELSE {x.price : x \in row},
                !.deviation[a] = IF gap = {} THEN @ ELSE gap]

\* read_sync_data gives the decimals; without a pool it is not called.
ReadSync(ok) ==
  /\ job.pc = "market"
  /\ reg' = PublishIndexView(reg, ThisAsset, job.rows[job.m])
  /\ IF job.pool
       THEN /\ job' = [job EXCEPT !.pc = IF ok THEN "amounts" ELSE "oracle", !.decimals[job.m] = ok]
            /\ Answer(ok)
       ELSE ok /\ job' = [job EXCEPT !.pc = "oracle"] /\ UNCHANGED faults
  /\ UNCHANGED skip /\ Unpublished

\* get_supplied_amount: what the listings of all spokes hold.
SuppliedAmount(m) == MapThenSumSet(LAMBDA s : chain.held[<<s, m>>], Spoke)

\* An unread row prices at zero.
Usd(amount, row) == amount * MapThenSumSet(LAMBDA x : x.price, row)

\* publish_market_amounts: the series and the protocol total.
ReadAmounts(ok) ==
  /\ job.pc = "amounts"
  /\ LET usd == Usd(SuppliedAmount(job.m), job.rows[job.m])
     IN  IF ok THEN /\ reg' = [reg EXCEPT !.supplied[job.m] = {usd}]
                    /\ job' = [job EXCEPT !.pc = "oracle", !.sum = @ + usd]
               ELSE /\ job' = [job EXCEPT !.pc = "oracle"]
                    /\ UNCHANGED reg
  /\ Answer(ok)
  /\ UNCHANGED skip /\ Unpublished

NextMarket(j) ==
  IF j.m = Len(Markets) THEN [j EXCEPT !.pc = "spoke", !.m = 1, !.feeds = <<>>, !.worst = {}]
  ELSE [j EXCEPT !.pc = "market", !.m = @ + 1, !.feeds = <<>>, !.worst = {}]

RemoveOracleConfigAndFreshness(r, a) == [r EXCEPT !.config[a] = {}, !.countdown[a] = {}, !.floor[a] = {}]

\* decode_oracle_config: legs with a feed are probed, an LP leg gives the floor.
Feeds(sources)  == SelectSeq(sources, LAMBDA x : ~x.lp)
SoleLp(sources) == Len(sources) = 1 /\ sources[1].lp

\* publish_oracle_config_and_freshness, up to the probes.
PublishOracleConfig(r, sources) ==
  [r EXCEPT !.config[ThisAsset] = {sources},
            !.floor[ThisAsset] = IF SoleLp(sources) /\ job.decimals[job.m] THEN {TRUE} ELSE {}]

ReadOracleConfig(ok) ==
  /\ job.pc = "oracle"
  /\ LET cleared == RemoveOracleConfigAndFreshness(reg, ThisAsset)
         sources == chain.sources[ThisAsset]
     IN  IF job.oracle /\ ok /\ sources # <<>>
           THEN /\ reg' = PublishOracleConfig(cleared, sources)
                /\ job' = IF Feeds(sources) = <<>> THEN NextMarket(job)
                          ELSE [job EXCEPT !.pc = "feeds", !.feeds = Feeds(sources)]
           ELSE reg' = cleared /\ job' = NextMarket(job)
  /\ IF job.oracle THEN Answer(ok) ELSE ok /\ UNCHANGED faults
  /\ UNCHANGED skip /\ Unpublished

\* seconds_until_stale, `since' ticks after the ledger time that it is measured at.
UntilStale(a, source, since) == source.max_stale - Min({age[a][source.leg] - since, MaxAge})

\* The ledger time was read when the scrape began.
WorstLeg(worst, source) == {Min(worst \cup {UntilStale(ThisAsset, source, lag)})}

\* read_feed_timestamp of the next leg.  The worst leg is published, or nothing
\* if a leg cannot be read.
ReadFeed(ok) ==
  /\ job.pc = "feeds"
  /\ LET worst == WorstLeg(job.worst, Head(job.feeds))
     IN  IF ~ok THEN job' = NextMarket(job) /\ UNCHANGED reg
         ELSE IF Len(job.feeds) = 1
           THEN reg' = [reg EXCEPT !.countdown[ThisAsset] = worst] /\ job' = NextMarket(job)
           ELSE job' = [job EXCEPT !.feeds = Tail(@), !.worst = worst] /\ UNCHANGED reg
  /\ Answer(ok)
  /\ UNCHANGED skip /\ Unpublished

-----------------------------------------------------------------------------
(* publish_spokes                                                           *)

ReadSpoke(ok) ==
  /\ job.pc = "spoke"
  /\ job' = [job EXCEPT !.pc = "listing", !.m = 1,
                        !.deprecated = IF ok THEN {chain.deprecated[job.s]} ELSE {}]
  /\ Answer(ok)
  /\ UNCHANGED <<reg, skip>> /\ Unpublished

NextListing(j) ==
  IF j.m < Len(Markets) THEN [j EXCEPT !.pc = "listing", !.m = @ + 1, !.cap = 0]
  ELSE IF j.s + 1 \in Spoke THEN [j EXCEPT !.pc = "spoke", !.s = @ + 1, !.cap = 0]
  ELSE [j EXCEPT !.pc = "publish", !.cap = 0]

\* A pair that was not listed is left alone until its time is up.
SkipUnlisted ==
  /\ job.pc = "listing"
  /\ skip[ThisKey] > 0
  /\ job' = NextListing(job)
  /\ UNCHANGED <<reg, skip, faults>> /\ Unpublished

RemoveSpokeAsset(r, k) ==
  [r EXCEPT !.terms[k] = {}, !.closed[k] = {}, !.deprecated[k] = {}, !.cap[k] = {}, !.utilization[k] = {}]

PublishListing(r, k, listing) ==
  [r EXCEPT !.terms[k] = {listing.terms}, !.closed[k] = {listing.cap = 0},
            !.deprecated[k] = IF job.deprecated = {} THEN @ ELSE job.deprecated,
            !.cap[k] = IF job.decimals[job.m] THEN {listing.cap} ELSE @]

\* publish_spoke_asset after its probe: caps need decimals, usage decimals and indexes.
ListingRead(listing) ==
  CASE listing.state = "unlisted" ->
         /\ reg' = RemoveSpokeAsset(reg, ThisKey)
         /\ skip' = [skip EXCEPT ![ThisKey] = Ttl]
         /\ job' = NextListing(job)
    [] listing.state = "broken" ->
         /\ reg' = RemoveSpokeAsset(reg, ThisKey)
         /\ job' = NextListing(job)
         /\ UNCHANGED skip
    [] listing.state = "listed" ->
         /\ reg' = PublishListing(reg, ThisKey, listing)
         /\ job' = IF job.decimals[job.m] /\ job.rows[job.m] # {}
                     THEN [job EXCEPT !.pc = "usage", !.cap = listing.cap]
                     ELSE NextListing(job)
         /\ UNCHANGED skip

\* Mutant: any failure of the probe counts as a removal.
ListingUnanswered == ListingRead([state |-> "unlisted"])

\* Any other failure is counted, and the series keep their last values.
ListingFailed == job' = NextListing(job) /\ UNCHANGED <<reg, skip>>

ReadListing(ok) ==
  /\ job.pc = "listing"
  /\ skip[ThisKey] = 0
  /\ IF ok THEN ListingRead(chain.listing[ThisKey]) ELSE ListingFailed
  /\ Answer(ok)
  /\ Unpublished

\* get_spoke_usage and set_or_remove: a closed market has no utilization.
ReadUsage(ok) ==
  /\ job.pc = "usage"
  /\ reg' = IF ok THEN [reg EXCEPT !.utilization[ThisKey] = IF job.cap = 0 THEN {} ELSE {<<chain.held[ThisKey], job.cap>>}]
            ELSE reg
  /\ job' = NextListing(job)
  /\ Answer(ok)
  /\ UNCHANGED skip /\ Unpublished

-----------------------------------------------------------------------------
(* The end of scrape_once, publish_snapshot, and the process.               *)

Publish ==
  /\ job.pc = "publish"
  /\ reg' = [reg EXCEPT !.tvl = {job.sum}]
  /\ served' = reg'
  /\ job' = Idle
  /\ lag' = 0
  /\ UNCHANGED <<skip, faults, world>>

\* The process ends, in the middle of a scrape or not, and is started again:
\* publish_startup serves a snapshot without any of these series.
Restart ==
  /\ faults < MaxFaults
  /\ faults' = faults + 1
  /\ reg' = Blank /\ served' = Blank
  /\ skip' = [k \in Key |-> 0]
  /\ job' = Idle
  /\ lag' = 0
  /\ UNCHANGED world

-----------------------------------------------------------------------------
(* Time and the chain.                                                      *)

\* Mutant: a pair that was found unlisted is never probed again.
NeverExpires(left) == left

Expiring(left) == IF left > 0 THEN left - 1 ELSE 0

Tick ==
  /\ job.pc = "idle" \/ lag < MaxLag
  /\ skip' = [k \in Key |-> Expiring(skip[k])]
  /\ age' = [a \in Asset |-> [l \in Leg |->
               IF \E i \in DOMAIN chain.sources[a] : chain.sources[a][i].leg = l
                 THEN Min({age[a][l] + 1, MaxAge + MaxLag}) ELSE age[a][l]]]
  /\ lag' = IF job.pc = "idle" THEN 0 ELSE lag + 1
  /\ UNCHANGED <<chain, reg, served, job, changes, faults>>

Moved ==
  /\ changes < MaxChanges
  /\ changes' = changes + 1
  /\ chain' # chain
  /\ UNCHANGED <<age, reg, served, skip, job, lag, faults>>

\* Only a listing without usage can be removed.
ListingChanges(k, listing) ==
  /\ listing.state = "unlisted" => chain.held[k] = 0
  /\ chain' = [chain EXCEPT !.listing[k] = listing]
  /\ Moved

UsageChanges(k, amount) ==
  /\ chain.listing[k].state # "unlisted"
  /\ chain' = [chain EXCEPT !.held[k] = amount]
  /\ Moved

StatusChanges(a, status)   == chain' = [chain EXCEPT !.status[a] = status] /\ Moved
SourcesChange(a, sources)  == chain' = [chain EXCEPT !.sources[a] = sources] /\ Moved
SpokeDeprecated(s)         == chain' = [chain EXCEPT !.deprecated[s] = TRUE] /\ Moved

FeedUpdated(a, l) ==
  /\ changes < MaxChanges
  /\ age[a][l] > 0
  /\ changes' = changes + 1
  /\ age' = [age EXCEPT ![a][l] = 0]
  /\ UNCHANGED <<chain, reg, served, skip, job, lag, faults>>

ChainMoves ==
  \/ \E k \in Key, listing \in Listings : ListingChanges(k, listing)
  \/ \E k \in Key, amount \in Amounts : UsageChanges(k, amount)
  \/ \E a \in Asset, status \in Statuses : StatusChanges(a, status)
  \/ \E a \in Asset, sources \in Sources : SourcesChange(a, sources)
  \/ \E s \in Spoke : SpokeDeprecated(s)
  \/ \E a \in Asset, l \in Leg : FeedUpdated(a, l)

Scrape ==
  \/ Begin
  \/ SkipUnlisted
  \/ Publish
  \/ \E ok \in BOOLEAN :
       \/ ReadIndexes(ok)
       \/ ReadIndex(ok)
       \/ ResolvePool(ok)
       \/ ResolveAggregator(ok)
       \/ ReadSync(ok)
       \/ ReadAmounts(ok)
       \/ ReadOracleConfig(ok)
       \/ ReadFeed(ok)
       \/ ReadSpoke(ok)
       \/ ReadListing(ok)
       \/ ReadUsage(ok)

Next == Scrape \/ Restart \/ Tick \/ ChainMoves

Spec == Init /\ [][Next]_vars

-----------------------------------------------------------------------------
(* Properties.                                                              *)

Restarted == faults' # faults /\ job'.pc = "idle"

\* "When a listing is removed on chain, or the exporter cannot decode it, every
\* series of that listing is removed" - and only then: neither a failing call nor
\* a skipped pair nor a change of the chain between two calls makes a series of a
\* listing vanish.  That a removal is published is part of Converges.
OnlyDelistedVanish ==
  [][\A k \in DOMAIN skip, series \in {"terms", "closed", "deprecated", "cap"} :
       reg[series][k] # {} /\ reg'[series][k] = {} => chain.listing[k].state # "listed" \/ Restarted]_vars

UtilizationOf(k) ==
  IF chain.listing[k].cap = 0 THEN {} ELSE {<<chain.held[k], chain.listing[k].cap>>}

ListingServed(k) ==
  IF chain.listing[k].state = "listed"
    THEN /\ served.terms[k] = {chain.listing[k].terms}
         /\ served.closed[k] = {chain.listing[k].cap = 0}
         /\ served.deprecated[k] = {chain.deprecated[k[1]]}
         /\ served.cap[k] = {chain.listing[k].cap}
         /\ served.utilization[k] = UtilizationOf(k)
    ELSE \A series \in {"terms", "closed", "deprecated", "cap", "utilization"} : served[series][k] = {}

MarketServed(m) ==
  served.supplied[m] = {Usd(SuppliedAmount(m), RowOf(m))}

CountdownOf(a) ==
  IF Feeds(chain.sources[a]) = <<>> THEN {}
  ELSE {Min({UntilStale(a, source, 0) : source \in Range(Feeds(chain.sources[a]))})}

\* Of the deviation of an asset without an anchor nothing is said: the last one
\* published stays.
OracleServed(a) ==
  /\ served.healthy[a] = {View(a).valid}
  /\ served.price[a] = {View(a).price}
  /\ View(a).gap # {} => served.deviation[a] = View(a).gap
  /\ served.config[a] = IF chain.sources[a] = <<>> THEN {} ELSE {chain.sources[a]}
  /\ served.floor[a] = IF SoleLp(chain.sources[a]) THEN {TRUE} ELSE {}
  /\ served.countdown[a] = CountdownOf(a)

Agrees ==
  /\ \A k \in Key : ListingServed(k)
  /\ \A m \in Market : MarketServed(m)
  /\ \A a \in Asset : OracleServed(a)
  /\ served.tvl = {MapThenSumSet(LAMBDA m : Usd(SuppliedAmount(m), RowOf(m)), Market)}
=============================================================================
