--------------------------- MODULE KeeperPlanning ---------------------------
(***************************************************************************)
(* What the keeper (services/keeper) decides from the ledger entries it    *)
(* has read: policy.rs, scheduler/tasks.rs, scheduler/budget.rs and the    *)
(* rotating user scan of discovery.rs.                                     *)
(*                                                                         *)
(* A row is a LedgerEntryQuery: [key, present, live_until], where present  *)
(* says that the RPC returned a value and live_until is an Option, the     *)
(* empty set for None.  A job is a TxJob: its kind and its footprint.      *)
(***************************************************************************)
EXTENDS Integers, Sequences, SequencesExt

None == {}
Some(x) == {x}

CeilDiv(n, d) == (n + d - 1) \div d

\* [T]::chunks
Chunks(s, n) ==
  [i \in 1..CeilDiv(Len(s), n) |->
     SubSeq(s, (i - 1) * n + 1, IF i * n < Len(s) THEN i * n ELSE Len(s))]

DedupKeys(keys) ==
  FoldLeft(LAMBDA kept, key : IF Contains(kept, key) THEN kept ELSE Append(kept, key), <<>>, keys)

-----------------------------------------------------------------------------
(* policy.rs                                                                *)

\* Mutant: an entry whose TTL has lapsed is extended like any other.
NeverRestores(row, current_ledger, safety) ==
  IF row.present /\ (\E live_until \in row.live_until : live_until - current_ledger < safety)
    THEN "Extend" ELSE "Skip"

\* Mutant: an entry is left until its last ledger.
IgnoresMargin(row, current_ledger, safety) ==
  CASE ~row.present \/ row.live_until = None -> "Skip"
    [] \E live_until \in row.live_until : live_until < current_ledger -> "Restore"
    [] \E live_until \in row.live_until : live_until = current_ledger -> "Extend"
    [] OTHER -> "Skip"

Classify(row, current_ledger, safety) ==
  CASE ~row.present \/ row.live_until = None -> "Skip"
    [] \E live_until \in row.live_until : live_until < current_ledger -> "Restore"
    [] \E live_until \in row.live_until : live_until >= current_ledger
                                          /\ live_until - current_ledger < safety -> "Extend"
    [] OTHER -> "Skip"

-----------------------------------------------------------------------------
(* The per-user scan window of discovery.rs.                                *)

\* Mutant: every pass scans the first accounts.
FixedPrefix(cursor, max_account_id, max_accounts_scan) ==
  LET window == IF max_accounts_scan < max_account_id THEN max_accounts_scan ELSE max_account_id
  IN [ids |-> [i \in 1..window |-> i], next |-> 1]

PlanUserScan(cursor, max_account_id, max_accounts_scan) ==
  LET wanted == IF max_accounts_scan > 0 THEN max_accounts_scan ELSE 1
      window == IF wanted < max_account_id THEN wanted ELSE max_account_id
      start  == IF cursor \in 1..max_account_id THEN cursor ELSE 1
  IN [ids  |-> [i \in 1..window |-> 1 + ((start - 1 + i - 1) % max_account_id)],
      next |-> 1 + ((start - 1 + window) % max_account_id)]

-----------------------------------------------------------------------------
(* scheduler/tasks.rs.  A snapshot has the rows of the three storage tiers. *)

CollectMatching(rows, current_ledger, safety, want) ==
  LET matching == SelectSeq(rows, LAMBDA row : Classify(row, current_ledger, safety) = want)
  IN [i \in DOMAIN matching |-> matching[i].key]

JobsOf(kind, keys, chunk) ==
  LET footprints == Chunks(keys, chunk)
  IN [i \in DOMAIN footprints |-> [kind |-> kind, keys |-> footprints[i]]]

PlanWithChunk(snap, safety, want, kind, chunk) ==
  JobsOf(kind, CollectMatching(snap.persistent, snap.current_ledger, safety, want)
               \o CollectMatching(snap.instance, snap.current_ledger, safety, want)
               \o CollectMatching(snap.wasm, snap.current_ledger, safety, want), chunk)

PlanRestores(snap, safety, chunk) == PlanWithChunk(snap, safety, "Restore", "restore_footprint", chunk)
PlanExtends(snap, safety, chunk)  == PlanWithChunk(snap, safety, "Extend", "extend_footprint_ttl", chunk)

RestoredKeys(jobs) == FlattenSeq([i \in DOMAIN jobs |-> jobs[i].keys])

PlanExtendsForKeys(keys, chunk) == JobsOf("extend_footprint_ttl", keys, chunk)

PlanIndexRefresh(assets, asset_chunk) == JobsOf("update_indexes", assets, asset_chunk)
=============================================================================
