----------------------------- MODULE MCKeeper ------------------------------
(***************************************************************************)
(* Small instances of the keeper.  A behaviour plays one scene: a keeper   *)
(* that never misses a tick, one whose reads, submissions and process go   *)
(* wrong, an index loop on bad reads, the two loops at the limit of their  *)
(* budget and on one sequence number, or a discovery pass while the        *)
(* protocol works.                                                         *)
(***************************************************************************)
EXTENDS Keeper

CONSTANT Played  \* the scenes of a run

VARIABLES scene, config, ledger, pass, snap, skipped, before, missed, changes, outages

discovery == <<config, ledger, pass, snap, skipped, before, missed, changes, outages>>

Discovery == INSTANCE KeeperDiscovery WITH
  Markets   <- <<<<1, "usdc">>, <<2, "xlm">>>>,
  BlendPools <- <<"blend", "blend">>, Managers <- <<"manager">>,
  Configs   <- {{"governance", "adapter", "aggregator", "redstone", "scan_users"}, {"flash", "router", "other"}},
  Wirings   <- {{"pool", "nft"}, {"nft"}},
  Missing   <- {{}, {"nft", "adapter", "aggregator"}, {"controller"}},
  Signers   <- <<"s1", "s2">>, Holders <- {"h1", "h2"}, StartFeeds <- <<"f1", "f2">>,
  MaxAccountsScan <- 1, ChunkSize <- 1, PoolWasm <- "pool", Hashes <- {"new"},
  MaxChanges <- 2, Outages <- 1

-----------------------------------------------------------------------------
(* The scenes of the service itself.                                        *)

NoRows == <<>>
TwoMarkets == <<<<"market", 1>>, <<"market", 2>>>>

Quiet ==
  [shared |-> <<>>, instances |-> <<>>, accounts |-> 2, markets |-> <<>>, scan |-> 1, keys |-> 1, txs |-> 2,
   margin |-> 1, index |-> FALSE, dry |-> {FALSE}, extend |-> 1, restore |-> 1, new |-> 1, start |-> {1},
   ttls |-> {1}, closers |-> {}, tick |-> 1, faults |-> {}, stops |-> 0]

AllFaults == {"rpc", "failed", "late", "lost"}

Scenes ==
  [margin     |-> [Quiet EXCEPT !.shared = <<<<"pool", 0>>>>, !.instances = <<<<"nft", 0>>>>, !.accounts = 3,
                     !.scan = 2, !.keys = 2, !.margin = 6, !.extend = 8, !.restore = 6, !.new = 7,
                     !.start = {0, 1, 2}, !.ttls = {6, 7}, !.closers = {1}, !.tick = 2],
   faults     |-> [Quiet EXCEPT !.txs = 1, !.faults = AllFaults, !.stops = 1],
   refresh    |-> [Quiet EXCEPT !.markets = TwoMarkets, !.keys = 2, !.index = TRUE, !.dry = {TRUE, FALSE},
                     !.start = {2}, !.faults = {"rpc"}],
   contention |-> [Quiet EXCEPT !.markets = <<TwoMarkets[1]>>, !.index = TRUE, !.start = {2}, !.scan = 2,
                     !.txs = 1, !.extend = 2, !.restore = 2]]

In(c) == INSTANCE Keeper WITH
  Shared <- c.shared, Instances <- c.instances, MaxAccounts <- c.accounts, Markets <- c.markets,
  MaxAccountsScan <- c.scan, MaxKeys <- c.keys, AssetChunk <- 1, MaxTxsPerTick <- c.txs,
  SafetyMargin <- c.margin, IndexRefresh <- c.index, DryRuns <- c.dry, ExtendTo <- c.extend,
  RestoreTtl <- c.restore, NewTtl <- c.new, StartAccounts <- c.start, StartTtls <- c.ttls,
  Closers <- c.closers, TickLedgers <- c.tick, Faults <- c.faults, MaxStops <- c.stops

\* The service, or the discovery, that a scene is not about.
Unplugged == [Quiet EXCEPT !.start = {0}]
NotDiscovering ==
  /\ config = {} /\ ledger = <<>> /\ pass = Discovery!Idle /\ snap = Discovery!NoRows
  /\ skipped = {} /\ before = <<>> /\ missed = {} /\ changes = 0 /\ outages = 0

MCInit ==
  \/ \E name \in Played \cap DOMAIN Scenes : scene = name /\ In(Scenes[name])!Init /\ NotDiscovering
  \/ "discovery" \in Played /\ scene = "discovery" /\ In(Unplugged)!Init /\ Discovery!Init

MCNext ==
  /\ UNCHANGED scene
  /\ \/ \E name \in DOMAIN Scenes : scene = name /\ In(Scenes[name])!Next /\ UNCHANGED discovery
     \/ scene = "discovery" /\ Discovery!Next /\ UNCHANGED vars

MCSpec == MCInit /\ [][MCNext]_<<vars, discovery, scene>>

-----------------------------------------------------------------------------
(* Fairness.  tokio runs every task that is ready and the timers fire; the  *)
(* container is restarted; main gives up on its loops after 30 seconds.     *)
(* Of the network: what is asked again and again is answered some time, and *)
(* a transaction for a key that is sent again and again lands some time.    *)
(* A scene does not change, so a condition on a step of one scene and one   *)
(* on a step of another are stated together.                                *)

Covers(job, x) == Contains(job.keys, x)

During(names, op(_)) == \E name \in names : scene = name /\ op(Scenes[name])
Either(op(_)) == During({"faults", "refresh", "contention"}, op)

Plans(c) == In(c)!TtlPlan
Restarts(c) == In(c)!Boot \/ In(c)!Drained

\* What is sent, and what arrives, for the i-th account or for the i-th market.
SendsTtl(c, i)     == In(c)!Prepare("ttl") /\ Covers(Job("ttl"), Account(i))
SendsIndex(c, i)   == In(c)!Prepare("index") /\ Covers(Job("index"), TwoMarkets[i])
ArrivesTtl(c, i)   == In(c)!Lands("ttl") /\ Covers(loop["ttl"].tx[1], Account(i))
ArrivesIndex(c, i) == In(c)!Lands("index") /\ Covers(loop["index"].tx[1], TwoMarkets[i])

Scheduling ==
  /\ WF_vars(Either(Restarts))
  /\ \A l \in Loops : WF_vars(Either(LAMBDA c : In(c)!Works(l)))

Network ==
  /\ SF_vars(Either(Plans))
  /\ SF_vars(During({"refresh"}, LAMBDA c : In(c)!IndexPlan))
  /\ \A i \in 1..2 :
       /\ SF_vars(\/ During({"faults"}, LAMBDA c : SendsTtl(c, i))
                 \/ During({"refresh"}, LAMBDA c : SendsIndex(c, i))
                 \/ During({"contention"}, LAMBDA c : ArrivesIndex(c, i)))
       /\ SF_vars(\/ During({"faults", "contention"}, LAMBDA c : ArrivesTtl(c, i))
                 \/ During({"refresh"}, LAMBDA c : ArrivesIndex(c, i)))

MCFairSpec == MCSpec /\ Scheduling /\ Network

-----------------------------------------------------------------------------
(* What the runs check of the discovery, and of the keeper that keeps time. *)

\* A completed pass has found every entry that existed throughout it, in the parts
\* whose reads did not fail: snapshot().
SnapshotCovers == Discovery!SnapshotCovers

\* "When `contracts.governance` is set, keeper also keeps governance alive"
\* (services/keeper/README.md): a pass that read governance found the code it runs.
GovernanceIsKeptAlive == Discovery!GovernanceIsKeptAlive

\* No entry lapses under a keeper whose margin covers the time between two scans
\* and which misses no tick: classify, plan_user_scan.
MarginSuffices == scene = "margin" => NothingLapses

\* A lapsed entry does not stay lapsed: the TTL loop restores it, or its account
\* is gone.  In one scene through failed ticks, rejected, lost and late
\* transactions and restarts; in the other while the index loop takes the
\* sequence numbers the TTL loop has read, and a tick's budget of one transaction
\* is all there is for two lapsed accounts and the extensions due.
LapsedIsRestored ==
  \A k \in Entries : (scene # "refresh" /\ Expired(k)) ~> ~Expired(k)
=============================================================================
