-------------------------- MODULE KeeperDiscovery --------------------------
(***************************************************************************)
(* One discovery pass of the keeper: snapshot() of services/keeper/src/    *)
(* discovery.rs, which follows the protocol's own indexes from the         *)
(* controller instance to every ledger entry it keeps alive.  A pass is a  *)
(* long series of RPC reads, and the protocol goes on working between      *)
(* them: spokes, accounts, roles and feeds come and go.                    *)
(*                                                                         *)
(* A batch of reads whose keys do not depend on one another's replies is   *)
(* one step.  A key is <<contract, kind, argument...>>.                    *)
(***************************************************************************)
EXTENDS KeeperPlanning, FiniteSets

CONSTANTS
  Markets,          \* configured_market_assets: a sequence of <<hub, asset>>
  BlendPools,       \* contracts.blend_pools, as configured
  Managers,         \* contracts.position_managers, as configured
  Configs,          \* the optional settings explored: contracts, and schedule.scan_users
  Wirings,          \* what the controller instance names: subsets of {"pool", "nft"}
  Missing,          \* the sets of contracts whose instance row the RPC does not return
  Signers,          \* the adapter's signers, in order
  Holders,          \* accounts that may hold the governance role
  MaxAccountsScan,  \* schedule.max_accounts_scan
  ChunkSize,        \* schedule.asset_chunk
  PoolWasm,         \* contracts.pool_wasm_hash
  Hashes,           \* the Wasm hashes a contract may be upgraded to
  StartFeeds,       \* the adapter's feeds at the start
  MaxChanges,       \* bound on protocol changes during a pass
  Outages           \* bound on reads that fail

VARIABLES
  config,  \* the optional settings that are on
  ledger,  \* the protocol's indexes, as they are stored now
  pass,    \* the locals of snapshot() and of the discover_ function it is in
  snap,    \* the rows collected: persistent, instance and wasm keys
  skipped, \* the parts this pass gave up on
  before,  \* the ledger when the pass began
  missed,  \* what ceased to exist, or to be listed ahead of the walk, during the pass
  changes, outages

vars == <<config, ledger, pass, snap, skipped, before, missed, changes, outages>>

Keys(op(_), s) == [i \in DOMAIN s |-> op(s[i])]
Count(n) == [i \in 1..n |-> i]

InstanceKey(c) == <<c, "Instance">>
CodeKey(hash)  == <<"code", hash>>

-----------------------------------------------------------------------------
(* keys.rs: the storage keys of each contract.                              *)

SpokeKeys(spoke, market) ==
  <<<<"controller", "SpokeAsset", spoke, market>>, <<"controller", "SpokeUsage", spoke, market>>,
    <<"controller", "SpokeFlagsEpoch", spoke, market>>>>
PoolKeys(market) == <<<<"pool", "Params", market>>, <<"pool", "State", market>>>>
OracleKey(key) == <<"aggregator", "Oracle", key>>
Token(asset) == <<"Token", asset>>
UserKeys(id) ==
  [i \in 1..4 |-> <<"controller", <<"AccountMeta", "SupplyPositions", "BorrowPositions", "Delegates">>[i], id>>]
    \o <<<<"nft", "Owner", id>>>>
RoleKeys(c) == <<<<c, "RoleAccountsCount">>, <<c, "RoleAdmin">>>>
HasRole(c, account) == <<c, "HasRole", account>>
AssetKeys(asset) == <<<<"adapter", "AssetIndex", asset>>, <<"adapter", "FeedMapping", asset>>>>
FeedKeys(feed) ==
  [i \in 1..4 |-> <<"adapter", <<"FeedIndex", "FeedOwner", "CurrentAggregate", "History">>[i], feed>>]
    \o [i \in DOMAIN Signers |-> <<"adapter", "LatestSubmission", feed, Signers[i]>>]
SignerKeys == Keys(LAMBDA s : <<"adapter", "SignerFeeds", s>>, Signers)

-----------------------------------------------------------------------------
(* The protocol.  The controller defines no roles; governance's one role    *)
(* stands for its five.  Feed f prices asset f.                             *)

Optional == config \ {"scan_users"}
Contracts == {"controller", "pool", "nft"} \cup Optional
\* "other" stands for contracts.extra_instances.
Extras == SelectSeq(<<"other", "redstone", "router">>, LAMBDA c : c \in config)

Idle == [pc |-> "idle", of |-> "controller", pool |-> FALSE, nft |-> FALSE, spokes |-> 0, hubs |-> 0,
         accounts |-> 0, hash |-> PoolWasm, count |-> 0, read |-> 0, rows |-> <<>>, derived |-> <<>>,
         code |-> <<>>, instances |-> <<>>, wasm |-> <<>>]
NoRows == [persistent |-> <<>>, instance |-> <<>>, wasm |-> <<>>]

Init ==
  /\ config \in Configs
  /\ \E wired \in Wirings, missing \in Missing, indexed \in BOOLEAN :
       ledger = [spokes |-> 1, hubs |-> 1, minted |-> 1, wired |-> wired, missing |-> missing,
                 indexed |-> indexed,  \* OracleKeys has been written
                 oracles |-> Keys(Token, <<Markets[1][2]>>) \o <<<<"Ref", "BTC">>>>,
                 listed |-> {<<1, Markets[1]>>},
                 holders |-> <<CHOOSE h \in Holders : TRUE>>, feeds |-> StartFeeds,
                 hash |-> [c \in Contracts |-> IF c = "pool" THEN PoolWasm ELSE c]]
  /\ pass = Idle /\ snap = NoRows /\ skipped = {} /\ before = ledger /\ missed = {}
  /\ changes = 0 /\ outages = 0

-----------------------------------------------------------------------------
(* The entries the contracts themselves store, from their own key types.    *)
(* Left out, as the keeper's README leaves them out: timelock operations,   *)
(* which no index lists, and the NFT's balances and enumeration.            *)

ControllerEntries(l) ==
  {<<"controller", "Hub", h>> : h \in 1..l.hubs} \cup {<<"controller", "Spoke", s>> : s \in 1..l.spokes}
    \cup UNION {ToSet(SpokeKeys(x[1], x[2])) : x \in l.listed}
    \cup {<<"controller", "BlendPoolAllowed", a>> : a \in ToSet(BlendPools)}
    \cup {<<"controller", "PositionManager", a>> : a \in ToSet(Managers)}
AccountEntries(l, ids) == UNION {ToSet(UserKeys(id)) : id \in ids \cap 1..l.minted}
PoolEntries == UNION {ToSet(PoolKeys(Markets[i])) : i \in DOMAIN Markets}
OracleEntries(l) == {OracleKey(k) : k \in ToSet(l.oracles)}
GovernanceEntries(l) ==
  {<<"governance", "ExistingRoles">>}
    \cup IF l.holders = <<>> THEN {}
         ELSE ToSet(RoleKeys("governance")) \cup {HasRole("governance", h) : h \in ToSet(l.holders)}
                \cup {<<"governance", "RoleAccounts", i - 1>> : i \in DOMAIN l.holders}
AdapterEntries(l) ==
  {<<"adapter", "AssetCount">>, <<"adapter", "FeedCount">>} \cup ToSet(SignerKeys)
    \cup UNION {{<<"adapter", "AssetAt", i - 1>>, <<"adapter", "FeedAt", i - 1>>} : i \in DOMAIN l.feeds}
    \cup UNION {ToSet(AssetKeys(f)) \cup ToSet(FeedKeys(f)) : f \in ToSet(l.feeds)}
CodeOf(l, c) == IF c \in l.missing THEN {} ELSE {CodeKey(l.hash[c])}
Stored(l) ==
  ControllerEntries(l) \cup AccountEntries(l, 1..l.minted) \cup PoolEntries \cup OracleEntries(l)
    \cup GovernanceEntries(l) \cup AdapterEntries(l) \cup UNION {CodeOf(l, c) : c \in Contracts}

-----------------------------------------------------------------------------
(* What the protocol may do between two reads.                              *)

Present(c) == c \notin ledger.missing

SwapRemove(s, i) == SubSeq([s EXCEPT ![i] = s[Len(s)]], 1, Len(s) - 1)

\* The walk has read the i-th place of its list and has yet to read the last.
Behind(i, list) == i <= pass.read /\ pass.read < Len(list)

Change(next, unlisted) ==
  /\ changes < MaxChanges
  /\ ledger' = next
  /\ missed' = IF pass.pc \in {"idle", "done"} THEN missed
               ELSE missed \cup unlisted \cup (Stored(ledger) \ Stored(next))
  /\ changes' = changes + 1
  /\ UNCHANGED <<config, pass, snap, skipped, before, outages>>

CreateSpoke == Change([ledger EXCEPT !.spokes = @ + 1], {})
CreateHub == Change([ledger EXCEPT !.hubs = @ + 1], {})
OpenAccount == Change([ledger EXCEPT !.minted = @ + 1], {})
ListMarket(spoke, i) ==
  /\ <<spoke, Markets[i]>> \notin ledger.listed
  /\ Change([ledger EXCEPT !.listed = @ \cup {<<spoke, Markets[i]>>}], {})
RegisterOracle(i) ==
  /\ ~Contains(ledger.oracles, Token(Markets[i][2]))
  /\ Change([ledger EXCEPT !.oracles = Append(@, Token(Markets[i][2]))], {})
GrantRole(h) ==
  /\ ~Contains(ledger.holders, h)
  /\ Change([ledger EXCEPT !.holders = Append(@, h)], {})
RevokeRole(i) ==
  Change([ledger EXCEPT !.holders = SwapRemove(@, i)],
         IF pass.pc = "accounts" /\ pass.of = "governance" /\ Behind(i, ledger.holders)
           THEN {HasRole("governance", Last(ledger.holders))} ELSE {})
AddFeed(f) ==
  /\ ~Contains(ledger.feeds, f)
  /\ Change([ledger EXCEPT !.feeds = Append(@, f)], {})
RemoveFeed(i) ==
  Change([ledger EXCEPT !.feeds = SwapRemove(@, i)],
         IF ~Behind(i, ledger.feeds) THEN {}
         ELSE CASE pass.pc = "assets" -> ToSet(AssetKeys(Last(ledger.feeds)))
                [] pass.pc = "feeds"  -> ToSet(FeedKeys(Last(ledger.feeds)))
                [] OTHER -> {})
Upgrade(c, hash) ==
  /\ ledger.hash[c] # hash
  /\ Change([ledger EXCEPT !.hash[c] = hash], {})

-----------------------------------------------------------------------------
(* snapshot(): the steps every pass takes.                                  *)

AfterAdapter    == "extras"
AfterGovernance == IF "adapter" \in config THEN "adapter" ELSE AfterAdapter
AfterUsers      == IF "governance" \in config THEN "governance" ELSE AfterGovernance

Begin ==
  /\ pass.pc \in {"idle", "done"}
  /\ pass' = [Idle EXCEPT !.pc = "controller"]
  /\ snap' = NoRows /\ skipped' = {} /\ before' = ledger /\ missed' = {}
  /\ UNCHANGED <<config, ledger, changes, outages>>

\* The end of a read: new locals, the persistent rows it adds, what it gave up on.
Reads(locals, rows, lost) ==
  /\ pass' = locals
  /\ snap' = [snap EXCEPT !.persistent = @ \o rows]
  /\ skipped' = skipped \cup lost
  /\ UNCHANGED <<config, ledger, before, missed, changes>>

ReadController ==
  /\ pass.pc = "controller" /\ Present("controller")
  /\ Reads([pass EXCEPT !.pc = "counter", !.pool = "pool" \in ledger.wired, !.nft = "nft" \in ledger.wired,
                        !.spokes = ledger.spokes, !.hubs = ledger.hubs, !.hash = ledger.hash["controller"]], <<>>, {})
  /\ UNCHANGED outages

MaxAccountId(next_token_id) == IF next_token_id = 0 THEN 0 ELSE next_token_id - 1

ReadCounter ==
  /\ pass.pc = "counter"
  /\ IF pass.nft /\ Present("nft")
       THEN Reads([pass EXCEPT !.pc = "pool", !.accounts = MaxAccountId(ledger.minted + 1)], <<>>, {})
       ELSE Reads([pass EXCEPT !.pc = "pool"], <<>>, {"users"})
  /\ UNCHANGED outages

PoolRows == IF pass.pool THEN FlattenSeq(Keys(PoolKeys, Markets)) ELSE <<>>

ReadPool ==
  /\ pass.pc = "pool"
  /\ Reads([pass EXCEPT !.pc = "oracles"], PoolRows, {})
  /\ UNCHANGED outages

\* lookup_oracle_keys, or the configured markets when there is no index to read.
OracleRows(registered) ==
  Keys(OracleKey, IF registered THEN ledger.oracles ELSE Keys(LAMBDA m : Token(m[2]), Markets))

ReadOracles ==
  /\ pass.pc = "oracles"
  /\ \E readable \in {Present("aggregator")} \cup {x \in {FALSE} : outages < Outages} :
       /\ outages' = outages + IF readable = Present("aggregator") THEN 0 ELSE 1
       /\ LET registered == readable /\ ledger.indexed
          IN Reads([pass EXCEPT !.pc = "shared"],
                   IF "aggregator" \in config THEN OracleRows(registered) ELSE <<>>,
                   IF registered THEN {} ELSE {"oracles"})

ControllerSharedKeys(spokes) ==
  DedupKeys(FlattenSeq(Keys(LAMBDA s : FlattenSeq(Keys(LAMBDA m : SpokeKeys(s, m), Markets)), Count(spokes)))
            \o Keys(LAMBDA a : <<"controller", "BlendPoolAllowed", a>>, BlendPools)
            \o Keys(LAMBDA a : <<"controller", "PositionManager", a>>, Managers))

ReadShared ==
  /\ pass.pc = "shared"
  /\ Reads([pass EXCEPT !.pc = "roles"],
           Keys(LAMBDA s : <<"controller", "Spoke", s>>, Count(pass.spokes))
             \o Keys(LAMBDA h : <<"controller", "Hub", h>>, Count(pass.hubs))
             \o ControllerSharedKeys(pass.spokes), {})
  /\ UNCHANGED outages

UserRows ==
  IF "scan_users" \notin config \/ pass.accounts = 0 THEN <<>>
  ELSE FlattenSeq(Keys(UserKeys, PlanUserScan(1, pass.accounts, MaxAccountsScan).ids))

ReadUsers ==
  /\ pass.pc = "users"
  /\ Reads([pass EXCEPT !.pc = AfterUsers], UserRows, {})
  /\ UNCHANGED outages

-----------------------------------------------------------------------------
(* discover_role_keys, for the controller and for governance.               *)

Holds(c) == IF c = "governance" THEN ledger.holders ELSE <<>>

\* The rows of a part are kept once all of it has been read.
PartDone(rows) ==
  IF pass.of = "controller"
    THEN Reads([pass EXCEPT !.pc = "users", !.rows = <<>>, !.derived = <<>>], rows, {})
    ELSE Reads([pass EXCEPT !.pc = AfterGovernance, !.rows = <<>>, !.derived = <<>>,
                            !.instances = Append(@, InstanceKey("governance"))], rows, {})

ReadExistingRoles ==
  /\ pass.pc = "roles"
  /\ IF Holds(pass.of) = <<>>
       THEN PartDone(Append(pass.rows, <<pass.of, "ExistingRoles">>))
       ELSE Reads([pass EXCEPT !.pc = "counts", !.rows = Append(@, <<pass.of, "ExistingRoles">>)], <<>>, {})
  /\ UNCHANGED outages

ReadRoleCounts ==
  /\ pass.pc = "counts"
  /\ Reads([pass EXCEPT !.pc = "accounts", !.count = Len(Holds(pass.of)), !.read = 0,
                        !.rows = @ \o RoleKeys(pass.of)], <<>>, {})
  /\ UNCHANGED outages

\* The indexes of the next chunk: `read' of them have been read.
NextChunk == SelectSeq([i \in 1..ChunkSize |-> pass.read + i - 1], LAMBDA i : i < pass.count)
At(list, i) == IF i < Len(list) THEN <<list[i + 1]>> ELSE <<>>
Found(list) == FlattenSeq(Keys(LAMBDA i : At(list, i), NextChunk))
\* Mutant: one chunk is read.
OneChunk(next) == [pass EXCEPT !.read = 0, !.pc = next]

Advance(next) ==
  [pass EXCEPT !.read = IF pass.read + ChunkSize < pass.count THEN @ + ChunkSize ELSE 0,
               !.pc = IF pass.read + ChunkSize < pass.count THEN @ ELSE next]

ReadRoleAccounts ==
  /\ pass.pc = "accounts"
  /\ Reads([Advance("has_role") EXCEPT
              !.rows = @ \o Keys(LAMBDA i : <<pass.of, "RoleAccounts", i>>, NextChunk),
              !.derived = @ \o Keys(LAMBDA h : HasRole(pass.of, h), Found(Holds(pass.of)))], <<>>, {})
  /\ UNCHANGED outages

ReadHasRole ==
  /\ pass.pc = "has_role"
  /\ PartDone(pass.rows \o pass.derived)
  /\ UNCHANGED outages

ReadGovernance ==
  /\ pass.pc = "governance"
  /\ Reads([pass EXCEPT !.pc = "roles", !.of = "governance"], <<>>, {})
  /\ UNCHANGED outages

-----------------------------------------------------------------------------
(* discover_oracle_adapter                                                  *)

WasmOf(c) == IF Present(c) THEN <<CodeKey(ledger.hash[c])>> ELSE <<>>

\* Without an instance there are no signers and no counts worth reading.
ReadAdapter ==
  /\ pass.pc = "adapter"
  /\ IF Present("adapter")
       THEN Reads([pass EXCEPT !.pc = "adapter_counts", !.code = WasmOf("adapter"),
                               !.derived = SignerKeys], <<>>, {})
       ELSE Reads([pass EXCEPT !.pc = AfterAdapter,
                               !.instances = Append(@, InstanceKey("adapter"))], <<>>, {"adapter"})
  /\ UNCHANGED outages

ReadAdapterCounts ==
  /\ pass.pc = "adapter_counts"
  /\ Reads([pass EXCEPT !.pc = "assets", !.count = Len(ledger.feeds), !.read = 0,
                        !.rows = @ \o <<<<"adapter", "AssetCount">>, <<"adapter", "FeedCount">>>>], <<>>, {})
  /\ UNCHANGED outages

ReadAssets ==
  /\ pass.pc = "assets"
  /\ Reads([Advance("feeds") EXCEPT
              !.rows = @ \o Keys(LAMBDA i : <<"adapter", "AssetAt", i>>, NextChunk),
              !.derived = @ \o FlattenSeq(Keys(AssetKeys, Found(ledger.feeds)))], <<>>, {})
  /\ UNCHANGED outages

ReadFeeds ==
  /\ pass.pc = "feeds"
  /\ Reads([Advance("derived") EXCEPT
              !.rows = @ \o Keys(LAMBDA i : <<"adapter", "FeedAt", i>>, NextChunk),
              !.derived = @ \o FlattenSeq(Keys(FeedKeys, Found(ledger.feeds)))], <<>>, {})
  /\ UNCHANGED outages

ReadDerived ==
  /\ pass.pc = "derived"
  /\ Reads([pass EXCEPT !.pc = AfterAdapter, !.rows = <<>>, !.derived = <<>>, !.code = <<>>,
                        !.instances = Append(@, InstanceKey("adapter")), !.wasm = @ \o pass.code],
           pass.rows \o pass.derived, {})
  /\ UNCHANGED outages

-----------------------------------------------------------------------------
(* The instances, and the code each of them runs.                           *)

ReadExtras ==
  /\ pass.pc = "extras"
  /\ Reads([pass EXCEPT !.pc = IF "aggregator" \in config THEN "aggregator" ELSE "instances",
                        !.instances = @ \o Keys(InstanceKey, Extras),
                        !.wasm = @ \o FlattenSeq(Keys(WasmOf, Extras))], <<>>, {})
  /\ UNCHANGED outages

ReadAggregator ==
  /\ pass.pc = "aggregator"
  /\ Reads([pass EXCEPT !.pc = "instances", !.instances = Append(@, InstanceKey("aggregator")),
                        !.wasm = @ \o WasmOf("aggregator")], <<>>, {})
  /\ UNCHANGED outages

\* A contract of the plan, and the row of the reply it is looked up in.
PlannedContracts ==
  <<"controller">> \o (IF pass.pool THEN <<"pool">> ELSE <<>>)
    \o (IF "flash" \in config THEN <<"flash">> ELSE <<>>) \o (IF pass.nft THEN <<"nft">> ELSE <<>>)

RowOf(c) == SelectSeq([i \in DOMAIN PlannedContracts |-> i], LAMBDA i : PlannedContracts[i] = c)

\* `.get(i)' of the reply: no code for a contract that is not planned, or is absent.
PlannedCode(c) ==
  FlattenSeq(Keys(LAMBDA i : IF i \in DOMAIN PlannedContracts THEN WasmOf(PlannedContracts[i]) ELSE <<>>, RowOf(c)))

ReadInstances ==
  /\ pass.pc = "instances"
  /\ pass' = [pass EXCEPT !.pc = "code",
                !.wasm = DedupKeys(<<CodeKey(PoolWasm), CodeKey(pass.hash)>> \o PlannedCode("pool")
                                   \o PlannedCode("flash") \o PlannedCode("nft") \o @)]
  /\ snap' = [snap EXCEPT !.instance = Keys(InstanceKey, PlannedContracts) \o pass.instances]
  /\ UNCHANGED <<config, ledger, skipped, before, missed, changes, outages>>

ReadCode ==
  /\ pass.pc = "code"
  /\ pass' = [Idle EXCEPT !.pc = "done", !.accounts = pass.accounts, !.pool = pass.pool, !.nft = pass.nft]
  /\ snap' = [snap EXCEPT !.wasm = pass.wasm]
  /\ UNCHANGED <<config, ledger, skipped, before, missed, changes, outages>>

-----------------------------------------------------------------------------
(* A read that fails on every endpoint.  Governance, the adapter and the    *)
(* aggregator's instance are skipped; anything else ends the tick.          *)

InGovernance ==
  pass.pc \in {"governance"} \cup {x \in {"roles", "counts", "accounts", "has_role"} : pass.of = "governance"}
InAdapter == pass.pc \in {"adapter", "adapter_counts", "assets", "feeds", "derived"}

Fails ==
  /\ pass.pc \notin {"idle", "done"}
  /\ outages < Outages
  /\ outages' = outages + 1
  /\ UNCHANGED <<config, ledger, before, missed, changes>>

SkipPart(part, next) ==
  /\ Fails
  /\ pass' = [pass EXCEPT !.pc = next, !.rows = <<>>, !.derived = <<>>, !.code = <<>>]
  /\ snap' = snap
  /\ skipped' = skipped \cup {part}

\* snapshot() returns the error, or the controller's instance cannot be read.
Abort ==
  /\ pass' = Idle /\ snap' = NoRows /\ skipped' = {}

ReadFails ==
  \/ InGovernance /\ SkipPart("governance", AfterGovernance)
  \/ InAdapter /\ SkipPart("adapter", AfterAdapter)
  \/ pass.pc = "aggregator" /\ SkipPart("aggregator", "instances")
  \/ ~InGovernance /\ ~InAdapter /\ pass.pc # "aggregator" /\ Fails /\ Abort

NoController ==
  /\ pass.pc = "controller" /\ ~Present("controller")
  /\ Abort
  /\ UNCHANGED <<config, ledger, before, missed, changes, outages>>

Protocol ==
  \/ CreateSpoke \/ CreateHub \/ OpenAccount
  \/ \E i \in DOMAIN Markets, spoke \in 1..ledger.spokes : ListMarket(spoke, i)
  \/ "aggregator" \in Contracts /\ \E i \in DOMAIN Markets : RegisterOracle(i)
  \/ "governance" \in Contracts /\ ((\E h \in Holders : GrantRole(h)) \/ \E i \in DOMAIN ledger.holders : RevokeRole(i))
  \/ "adapter" \in Contracts /\ ((\E f \in ToSet(StartFeeds) : AddFeed(f)) \/ \E i \in DOMAIN ledger.feeds : RemoveFeed(i))
  \/ \E c \in Contracts, hash \in Hashes : Upgrade(c, hash)

Next ==
  \/ Protocol
  \/ Begin \/ ReadController \/ ReadCounter \/ ReadPool \/ ReadOracles \/ ReadShared \/ ReadUsers
  \/ ReadExistingRoles \/ ReadRoleCounts \/ ReadRoleAccounts \/ ReadHasRole \/ ReadGovernance
  \/ ReadAdapter \/ ReadAdapterCounts \/ ReadAssets \/ ReadFeeds \/ ReadDerived
  \/ ReadExtras \/ ReadAggregator \/ ReadInstances \/ ReadCode
  \/ ReadFails \/ NoController

Spec == Init /\ [][Next]_vars

-----------------------------------------------------------------------------
(* What a pass finds.                                                       *)

Scanned ==
  IF "scan_users" \notin config \/ pass.accounts = 0 THEN {}
  ELSE ToSet(PlanUserScan(1, pass.accounts, MaxAccountsScan).ids)
Resolved ==
  {"controller"} \cup {c \in {"pool"} : pass.pool} \cup {c \in {"nft"} : pass.nft} \cup (Optional \ skipped)

\* The entries of the parts that this pass read.
Entries(l) ==
  ControllerEntries(l) \cup AccountEntries(l, Scanned)
    \cup (IF pass.pool THEN PoolEntries ELSE {})
    \cup (IF "aggregator" \in config
            THEN {k \in OracleEntries(l) :
                    "oracles" \in skipped => k \in {OracleKey(Token(Markets[i][2])) : i \in DOMAIN Markets}}
            ELSE {})
    \cup (IF "governance" \in Resolved THEN GovernanceEntries(l) ELSE {})
    \cup (IF "adapter" \in Resolved THEN AdapterEntries(l) ELSE {})
    \cup {InstanceKey(c) : c \in Resolved} \cup UNION {CodeOf(l, c) : c \in Resolved \ {"governance"}}

Collected == ToSet(snap.persistent) \cup ToSet(snap.instance) \cup ToSet(snap.wasm)

\* A pass that completes has found every protocol entry that existed throughout
\* it, whatever was created, granted, listed, upgraded or removed meanwhile.  A
\* part that fails takes no other part's entries with it.  Two things escape: what
\* belongs to the one entry that a removal behind the walk moved from the end of
\* its list to a place already read, which the next pass finds, and the code of
\* governance, which is GovernanceIsKeptAlive.
SnapshotCovers ==
  pass.pc = "done" => Entries(before) \ missed \subseteq Collected

\* "When `contracts.governance` is set, keeper also keeps governance alive"
\* (services/keeper/README.md): a pass that read governance has found the code it
\* runs, as it has for every other contract.
GovernanceIsKeptAlive ==
  (pass.pc = "done" /\ "governance" \in Resolved) => CodeOf(before, "governance") \ missed \subseteq Collected

=============================================================================
