------------------------------- MODULE Keeper -------------------------------
(***************************************************************************)
(* The keeper service at work: the TTL loop and the index loop of          *)
(* scheduler/mod.rs, which share one signing account, submitting through   *)
(* stellar/tx.rs to a network that may reject, delay or lose what it is    *)
(* sent, in a process that is stopped, crashes and is started again.       *)
(*                                                                         *)
(* Ledgers are counted relative to now: ttl[k] is live_until of entry k    *)
(* minus the current ledger, negative once it has lapsed.  A transaction   *)
(* is `fresh' while the sequence number it was built on is still the next  *)
(* one of the account; every fresh transaction carries the same number.    *)
(***************************************************************************)
EXTENDS KeeperPlanning, FiniteSets, TLC

CONSTANTS
  Shared,           \* the discovered persistent keys that are not per user, in order
  Instances,        \* the discovered instance keys, in order
  MaxAccounts,      \* bound on accounts minted
  Markets,          \* the configured markets, in order
  MaxAccountsScan,  \* schedule.max_accounts_scan
  MaxKeys,          \* MAX_KEYS_PER_EXTEND_OP
  AssetChunk,       \* schedule.asset_chunk
  MaxTxsPerTick,    \* schedule.max_txs_per_tick
  SafetyMargin,     \* safety_margin_ledgers
  IndexRefresh,     \* schedule.enable_index_refresh
  DryRuns,          \* the values of --dry-run explored
  ExtendTo,         \* MAX_LEDGERS_TO_EXTEND
  RestoreTtl,       \* the TTL the network gives a restored entry
  NewTtl,           \* the TTL of a newly opened account
  StartAccounts,    \* the numbers of accounts to start from
  StartTtls,        \* the TTLs to start from
  Closers,          \* the accounts whose owners may close them
  TickLedgers,      \* ledgers between two TTL ticks: no tick is later than that
  Faults,           \* what may go wrong: subset of {"rpc", "failed", "late", "lost"}
  MaxStops          \* bound on crashes and shutdowns

VARIABLES
  ttl,       \* entry -> ledgers to live
  minted,    \* the highest account id
  stale,     \* markets whose indexes have not been refreshed
  process,   \* "down", "running" or "draining"
  dry_run,
  index_on,  \* the index loop was started
  loop,      \* the state of each loop
  cursor,    \* USER_SCAN_CURSOR
  scanned,   \* the account ids of the last TTL snapshot
  late,      \* jobs sent, given up on, and still able to land
  since,     \* ledgers since the last TTL tick began
  stops

vars == <<ttl, minted, stale, process, dry_run, index_on, loop, cursor, scanned, late, since, stops>>
chain == <<ttl, minted, stale>>
boot  == <<process, dry_run, index_on>>

Loops == {"ttl", "index"}
Account(id) == <<"account", id>>
Entries == ToSet(Shared) \cup ToSet(Instances) \cup {Account(id) : id \in 1..MaxAccounts}

Lapsed == -(TickLedgers + 1) \* lapsed for longer than a snapshot takes
Absent == Lapsed - 1         \* no such entry

Live(k) == ttl[k] >= 0
Expired(k) == ttl[k] < 0 /\ ttl[k] # Absent

\* A loop at its select!, off, and in a tick.
Waiting == [pc |-> "wait", jobs |-> <<>>, later |-> <<>>, budget |-> 0,
            tx |-> <<>>, fresh |-> FALSE, lag |-> 0]
At(pc) == [Waiting EXCEPT !.pc = pc]
Driving == {"restore", "extend", "index"}

Init ==
  /\ minted \in StartAccounts
  /\ ttl \in {f \in [Entries -> StartTtls \cup {Absent}] :
                \A k \in Entries : (f[k] = Absent) = (\E id \in (minted + 1)..MaxAccounts : k = Account(id))}
  /\ stale = ToSet(Markets)
  /\ process = "down" /\ dry_run \in DryRuns /\ index_on = FALSE
  /\ loop = [l \in Loops |-> At("off")]
  /\ cursor = 1 /\ scanned = {}
  /\ late = {}
  /\ since = 0 /\ stops = 0

-----------------------------------------------------------------------------
(* main.rs and the spawning of the loops                                    *)

\* A failed index preflight turns the index loop off; the TTL loop starts anyway.
Boot ==
  /\ process = "down"
  /\ process' = "running"
  /\ index_on' \in IF IndexRefresh THEN {TRUE} \cup {x \in {FALSE} : "rpc" \in Faults} ELSE {FALSE}
  /\ loop' = [l \in Loops |-> IF l = "ttl" THEN At("prime") ELSE IF index_on' THEN Waiting ELSE At("off")]
  /\ cursor' = 1
  /\ UNCHANGED <<chain, dry_run, scanned, late, since, stops>>

\* prime_storage_metrics reads and sends nothing; the immediate tick is discarded.
Prime ==
  /\ process # "down" /\ loop["ttl"].pc = "prime"
  /\ loop' = [loop EXCEPT !["ttl"] = Waiting]
  /\ UNCHANGED <<chain, boot, cursor, scanned, late, since, stops>>

Cancel ==
  /\ process = "running" /\ stops < MaxStops
  /\ process' = "draining"
  /\ stops' = stops + 1
  /\ UNCHANGED <<chain, dry_run, index_on, loop, cursor, scanned, late, since>>

\* The cancelled branch of select!: a loop stops between two ticks only.
LoopReturns(l) ==
  /\ process = "draining" /\ loop[l].pc = "wait"
  /\ loop' = [loop EXCEPT ![l] = At("off")]
  /\ UNCHANGED <<chain, boot, cursor, scanned, late, since, stops>>

\* The process ends: what was in memory is gone, what was sent may still land.
Exits(landing) ==
  /\ process' = "down" /\ index_on' = FALSE
  /\ loop' = [l \in Loops |-> At("off")]
  /\ late' = late \cup landing
  /\ UNCHANGED <<chain, dry_run, cursor, scanned, since>>

InFlight == UNION {ToSet(loop[l].tx) : l \in {x \in Loops : loop[x].fresh}}

\* Both loops have returned, or main has waited 30 seconds for them.
Drained ==
  /\ process = "draining"
  /\ \E landing \in {{}, InFlight} : Exits(landing)
  /\ UNCHANGED stops

Crash ==
  /\ process # "down" /\ stops < MaxStops
  /\ \E landing \in {{}, InFlight} : Exits(landing)
  /\ stops' = stops + 1

-----------------------------------------------------------------------------
(* scheduler/mod.rs                                                         *)

\* select! takes a ready tick even when the loop has been cancelled.
TickBegins(l) ==
  /\ process # "down" /\ loop[l].pc = "wait"
  /\ loop' = [loop EXCEPT ![l] = At("read")]
  /\ since' = IF l = "ttl" THEN 0 ELSE since
  /\ UNCHANGED <<chain, boot, cursor, scanned, late, stops>>

SnapshotFails(l) ==
  /\ "rpc" \in Faults
  /\ loop[l].pc = "read"
  /\ loop' = [loop EXCEPT ![l] = Waiting]
  /\ UNCHANGED <<chain, boot, cursor, scanned, late, since, stops>>

Settle(ls) ==
  IF ls.jobs # <<>> /\ ls.budget > 0 THEN ls
  ELSE IF ls.pc = "restore" /\ ls.later # <<>> /\ ls.budget > 0
    THEN [ls EXCEPT !.pc = "extend", !.jobs = ls.later, !.later = <<>>]
  ELSE Waiting

\* A tick that starts to drive: `first', and when those are done `later'.
Drive(pc, first, later) ==
  Settle([At(pc) EXCEPT !.jobs = first, !.later = later, !.budget = MaxTxsPerTick])

Row(k) == [key |-> k, present |-> ttl[k] # Absent,
           live_until |-> IF ttl[k] = Absent THEN None ELSE Some(ttl[k])]
Rows(keys) == [i \in DOMAIN keys |-> Row(keys[i])]

\* The user ids of a snapshot and the cursor after it.
UserScan == IF minted = 0 THEN [ids |-> <<>>, next |-> cursor]
            ELSE PlanUserScan(cursor, minted, MaxAccountsScan)

\* snapshot: the ledger number was read `lag' ledgers before the rows.
Snapshot(lag) ==
  [current_ledger |-> -lag,
   persistent |-> Rows(Shared \o [i \in DOMAIN UserScan.ids |-> Account(UserScan.ids[i])]),
   instance |-> Rows(Instances), wasm |-> <<>>]

\* run_ttl_tick after its snapshot: plan, move the window, start driving.
TtlPlan ==
  /\ loop["ttl"].pc = "read"
  /\ \E snap \in {Snapshot(loop["ttl"].lag)} :
       \E restores \in {PlanRestores(snap, SafetyMargin, MaxKeys)},
          extends \in {PlanExtends(snap, SafetyMargin, MaxKeys)} :
         loop' = [loop EXCEPT !["ttl"] =
           Drive("restore", restores,
                 extends \o IF dry_run THEN <<>> ELSE PlanExtendsForKeys(RestoredKeys(restores), MaxKeys))]
  /\ cursor' = UserScan.next
  /\ scanned' = ToSet(UserScan.ids)
  /\ UNCHANGED <<chain, boot, late, since, stops>>

\* run_index_tick: its snapshot scans the users too, and leaves the window alone.
IndexPlan ==
  /\ loop["index"].pc = "read"
  /\ loop' = [loop EXCEPT !["index"] = Drive("index", PlanIndexRefresh(Markets, AssetChunk), <<>>)]
  /\ UNCHANGED <<chain, boot, cursor, scanned, late, since, stops>>

-----------------------------------------------------------------------------
(* stellar/tx.rs                                                            *)

Done(l) == [loop EXCEPT ![l] = Settle([loop[l] EXCEPT !.tx = <<>>, !.fresh = FALSE])]

Job(l) == Head(loop[l].jobs)
HasJob(l) == loop[l].pc \in Driving /\ loop[l].tx = <<>>
Spent(l) == [loop[l] EXCEPT !.jobs = Tail(@), !.budget = @ - 1]

\* An extend of an entry that has lapsed does not simulate.
SimulationAccepts(job) ==
  job.kind = "extend_footprint_ttl" => \A k \in ToSet(job.keys) : ~Expired(k)

\* try_spend, the account sequence is read and the job simulated and signed.
Prepare(l) ==
  /\ HasJob(l) /\ ~dry_run
  /\ SimulationAccepts(Job(l))
  /\ loop' = [loop EXCEPT ![l] = [Spent(l) EXCEPT !.tx = <<Job(l)>>, !.fresh = TRUE]]
  /\ UNCHANGED <<chain, boot, cursor, scanned, late, since, stops>>

NotSent(l) ==
  /\ HasJob(l)
  /\ dry_run \/ ~SimulationAccepts(Job(l)) \/ "rpc" \in Faults
  /\ loop' = [loop EXCEPT ![l] = Settle(Spent(l))]
  /\ UNCHANGED <<chain, boot, cursor, scanned, late, since, stops>>

\* A transaction uses up the sequence number: no other fresh one can land.
UsesSequence(after) ==
  /\ loop' = [l \in Loops |-> [after[l] EXCEPT !.fresh = FALSE]]
  /\ late' = {}

Applied(job) ==
  /\ ttl' = [k \in Entries |->
       CASE ~Contains(job.keys, k) -> ttl[k]
         [] job.kind = "restore_footprint" /\ Expired(k) -> RestoreTtl
         [] job.kind = "extend_footprint_ttl" /\ Live(k) /\ ttl[k] < ExtendTo -> ExtendTo
         [] OTHER -> ttl[k]]
  /\ stale' = IF job.kind = "update_indexes" THEN stale \ ToSet(job.keys) ELSE stale
  /\ UNCHANGED minted

\* The outcomes of submit_polling.  Success:
Lands(l) ==
  /\ loop[l].tx # <<>> /\ loop[l].fresh
  /\ Applied(loop[l].tx[1])
  /\ UsesSequence(Done(l))
  /\ UNCHANGED <<boot, cursor, scanned, since, stops>>

\* included, and failed on chain:
FailsOnChain(l) ==
  /\ "failed" \in Faults
  /\ loop[l].tx # <<>> /\ loop[l].fresh
  /\ UsesSequence(Done(l))
  /\ UNCHANGED <<chain, boot, cursor, scanned, since, stops>>

\* refused for its sequence number, or lost on the way:
NotIncluded(l) ==
  /\ loop[l].tx # <<>>
  /\ ~loop[l].fresh \/ "lost" \in Faults
  /\ loop' = Done(l)
  /\ UNCHANGED <<chain, boot, cursor, scanned, late, since, stops>>

\* the poll timed out, and the network still has the transaction.
TimesOut(l) ==
  /\ "late" \in Faults
  /\ loop[l].tx # <<>> /\ loop[l].fresh
  /\ loop' = Done(l)
  /\ late' = late \cup ToSet(loop[l].tx)
  /\ UNCHANGED <<chain, boot, cursor, scanned, since, stops>>

LandsLate(job) ==
  /\ Applied(job)
  /\ UsesSequence(loop)
  /\ UNCHANGED <<boot, cursor, scanned, since, stops>>

-----------------------------------------------------------------------------
(* The ledger and its users                                                 *)

LedgerCloses ==
  /\ since < TickLedgers
  /\ since' = since + 1
  /\ ttl' = [k \in Entries |-> IF ttl[k] \in {Absent, Lapsed} THEN ttl[k] ELSE ttl[k] - 1]
  /\ stale' = ToSet(Markets)
  /\ loop' = [l \in Loops |-> IF loop[l].pc = "read" /\ l = "ttl" THEN [loop[l] EXCEPT !.lag = @ + 1] ELSE loop[l]]
  /\ UNCHANGED <<minted, boot, cursor, scanned, late, stops>>

OpenAccount ==
  /\ minted < MaxAccounts
  /\ minted' = minted + 1
  /\ ttl' = [ttl EXCEPT ![Account(minted + 1)] = NewTtl]
  /\ UNCHANGED <<stale, boot, loop, cursor, scanned, late, since, stops>>

CloseAccount(id) ==
  /\ id <= minted /\ Live(Account(id))
  /\ ttl' = [ttl EXCEPT ![Account(id)] = Absent]
  /\ UNCHANGED <<minted, stale, boot, loop, cursor, scanned, late, since, stops>>

Works(l) ==
  \/ l = "ttl" /\ (Prime \/ TtlPlan)
  \/ l = "index" /\ IndexPlan
  \/ TickBegins(l) \/ SnapshotFails(l)
  \/ Prepare(l) \/ NotSent(l)
  \/ Lands(l) \/ FailsOnChain(l) \/ NotIncluded(l) \/ TimesOut(l)

Next ==
  \/ Boot \/ Cancel \/ Drained \/ Crash
  \/ \E l \in Loops : Works(l) \/ LoopReturns(l)
  \/ \E job \in late : LandsLate(job)
  \/ LedgerCloses \/ OpenAccount
  \/ \E id \in Closers : CloseAccount(id)

Spec == Init /\ [][Next]_vars

-----------------------------------------------------------------------------

\* The scan window reaches every account again and again, however the index
\* loop's snapshots fall between the TTL ticks and however many accounts open.
EveryAccountIsScanned ==
  \A id \in 1..MaxAccounts : (minted >= id) ~> (id \in scanned)

\* While the index loop runs, every market's indexes are refreshed.
MarketsAreRefreshed ==
  \A m \in ToSet(Markets) : (m \in stale /\ index_on /\ ~dry_run) ~> (m \notin stale \/ ~index_on)

\* Neither loop starves, although both sign with one account and one may use the
\* sequence number the other has read.
LoopsGetRound == EveryAccountIsScanned /\ MarketsAreRefreshed

\* No entry ever lapses, when nothing fails and SafetyMargin covers the ledgers
\* between two scans of an account and the ledgers one tick takes.
NothingLapses == \A k \in DOMAIN ttl : ~Expired(k)
=============================================================================
