----------------------------- MODULE MCExporter -----------------------------
(***************************************************************************)
(* Instances of Exporter.  A behaviour plays one of four scenes: an asset  *)
(* with a market in two hubs, and three chains that come to rest, with an  *)
(* oracle that changes, with one spoke and with two.                       *)
(***************************************************************************)
EXTENDS Exporter

VARIABLE scene

OneMarket == <<[hub |-> 1, asset |-> "usdc"]>>
TwoHubs   == <<[hub |-> 1, asset |-> "usdc"], [hub |-> 2, asset |-> "usdc"]>>

Unlisted == [state |-> "unlisted", terms |-> 0, cap |-> 0]
Broken   == [state |-> "broken", terms |-> 0, cap |-> 0]
Open     == [state |-> "listed", terms |-> 1, cap |-> 5]
Closed   == [state |-> "listed", terms |-> 2, cap |-> 0]

Priced   == [valid |-> TRUE, price |-> 2, gap |-> {1}]
Apart    == [valid |-> FALSE, price |-> 2, gap |-> {3}]
Unusable == [valid |-> FALSE, price |-> 0, gap |-> {}]

Feed(leg, max_stale) == [leg |-> leg, lp |-> FALSE, max_stale |-> max_stale]
Lp(leg)              == [leg |-> leg, lp |-> TRUE, max_stale |-> 0]
AnyOracle == {<<>>, <<Feed(1, 2)>>, <<Feed(1, 2), Feed(2, 1)>>, <<Lp(1)>>}

Scenes ==
  [series |-> [markets |-> TwoHubs, spokes |-> {1}, chunk |-> 2, fallback |-> FALSE,
               listings |-> {Unlisted, Broken, Open}, statuses |-> {Priced, Unusable}, sources |-> {<<>>},
               amounts |-> {0}, age |-> 1, changes |-> 2, faults |-> 1],
   oracle |-> [markets |-> OneMarket, spokes |-> {1}, chunk |-> 1, fallback |-> FALSE,
               listings |-> {Open}, statuses |-> {Priced, Apart}, sources |-> AnyOracle,
               amounts |-> {0}, age |-> 1, changes |-> 1, faults |-> 1],
   rest   |-> [markets |-> OneMarket, spokes |-> {1}, chunk |-> 1, fallback |-> TRUE,
               listings |-> {Unlisted, Open, Closed}, statuses |-> {Priced}, sources |-> {<<>>},
               amounts |-> {0, 3}, age |-> 1, changes |-> 2, faults |-> 1],
   spokes |-> [markets |-> OneMarket, spokes |-> {1, 2}, chunk |-> 1, fallback |-> TRUE,
               listings |-> {Unlisted, Open}, statuses |-> {Priced}, sources |-> {<<>>},
               amounts |-> {0, 3}, age |-> 1, changes |-> 2, faults |-> 1]]

In(c) == INSTANCE Exporter WITH
  Markets <- c.markets, Spoke <- c.spokes, ChunkSize <- c.chunk, HasFallback <- c.fallback,
  Listings <- c.listings, Statuses <- c.statuses, Sources <- c.sources, Amounts <- c.amounts,
  MaxAge <- c.age, MaxChanges <- c.changes, MaxFaults <- c.faults

MCInit == \E name \in DOMAIN Scenes : scene = name /\ In(Scenes[name])!Init
MCNext == UNCHANGED scene /\ \E name \in DOMAIN Scenes : scene = name /\ In(Scenes[name])!Next

Resting == {"oracle", "rest", "spokes"}

\* The runtime polls the scrape task and its timer, and time passes.
Fairness ==
  /\ WF_vars(\E name \in Resting : scene = name /\ In(Scenes[name])!Scrape)
  /\ WF_vars(\E name \in Resting : scene = name /\ In(Scenes[name])!Tick)

MCSpec == MCInit /\ [][MCNext]_<<vars, scene>> /\ Fairness

\* Once the chain rests and calls are answered, what is served comes to agree
\* with the chain and stays so, whatever was read, missed, removed or cached
\* before: every series of a market, a listing and an oracle, the countdown as of
\* the scrape.  One gauge is excepted, as publish_market_index_view never removes
\* it: the deviation of an asset that has lost its anchor keeps its last value.
Converges == <>[](\A name \in Resting : scene = name => In(Scenes[name])!Agrees)
=============================================================================
