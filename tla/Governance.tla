----------------------------- MODULE Governance -----------------------------
(***************************************************************************)
(* The governance contract (contracts/governance/src): roles, ownership,   *)
(* the timelock, the recovery of the canceller set and the immediate       *)
(* operations of guardians, together with the part of the controller they  *)
(* open and close.  An operation waits in the timelock while everything it *)
(* was checked against may change: roles, owner, minimum delay, flags.     *)
(*                                                                         *)
(* The timelock library (stellar_governance), ownership and roles          *)
(* (stellar_access) are external; they are modelled from how the contract  *)
(* uses them.  An operation id is a hash of the operation and its salt:    *)
(* here it is that pair.  The mirror of the owner as access-control admin, *)
(* storage lifetime and events are left out, and the code an upgrade       *)
(* installs is not this program.                                           *)
(***************************************************************************)
EXTENDS Integers, FiniteSets, Functions

CONSTANTS
  Address,        \* accounts and contracts that call governance
  Admin,          \* the owner set by the constructor
  InitialDelay,   \* min_delay of the constructor
  MinDelay,       \* TIMELOCK_MIN_DELAY_LEDGERS
  MaxDelay,       \* TIMELOCK_MAX_DELAY_LEDGERS
  SensitiveDelay, \* TIMELOCK_SENSITIVE_MIN_DELAY_LEDGERS
  RecoveryDelay,  \* TIMELOCK_RECOVERY_MIN_DELAY_LEDGERS
  Grace,          \* TIMELOCK_OPERATION_GRACE_LEDGERS
  AdminOps,       \* operations that proposers may think of
  ResetSets,      \* canceller sets that the owner may propose
  Flag,           \* the halt flags of a listing
  Salt,
  MaxLedger       \* bound: the ledger sequence stops here

Role == {"ORACLE", "PROPOSER", "EXECUTOR", "CANCELLER", "GUARDIAN"}

-----------------------------------------------------------------------------
(* A spoke's listing of an asset (contracts/controller/src/config/asset.rs  *)
(* and storage/spoke.rs), reduced to its halt flags (paused, frozen,        *)
(* no_seize) and the epoch that counts their changes.  Each operation       *)
(* returns `ok', FALSE where the code panics, and the listing it stores.    *)
(* The epoch outlives the listing: removal does not touch it.               *)

ListingState == [listed : BOOLEAN, flags : SUBSET Flag, epoch : Nat]

NoListing == [listed |-> FALSE, flags |-> {}, epoch |-> 0]

\* require_flag_ratchet: no flag that is set is cleared.
FlagRatchet(l, flags) == l.flags \subseteq flags

WriteFlags(l, flags) == [l EXCEPT !.epoch = @ + 1, !.flags = flags]

\* Mutant: a new listing starts its own count.
AddAssetRestartsEpoch(l, flags) ==
  [ok |-> ~l.listed, l |-> [listed |-> TRUE, flags |-> flags, epoch |-> 1]]

AddAsset(l, flags) ==
  [ok |-> ~l.listed, l |-> WriteFlags([l EXCEPT !.listed = TRUE], flags)]

EditAsset(l, flags) ==
  [ok |-> l.listed /\ FlagRatchet(l, flags),
   l  |-> IF flags = l.flags THEN l ELSE WriteFlags(l, flags)]

SetFlags(l, flags) ==
  [ok |-> l.listed /\ FlagRatchet(l, flags) /\ flags # l.flags,
   l  |-> WriteFlags(l, flags)]

RelaxFlags(l, expected_epoch, flags) ==
  [ok |-> l.listed /\ l.epoch = expected_epoch, l |-> WriteFlags(l, flags)]

\* Removal also needs the usage of the listing to be zero, which its users
\* decide: here it may succeed at any time.
RemoveAsset(l) ==
  [ok |-> l.listed, l |-> [l EXCEPT !.listed = FALSE, !.flags = {}]]

-----------------------------------------------------------------------------
(* AdminOperation, by what this module tells apart.  The operations of      *)
(* PlainKinds change state outside of this module: only who may propose     *)
(* them and how long they wait matters here.                                *)

FlagKinds  == {"AddAssetToSpoke", "EditAssetInSpoke"}
PlainKinds ==
  {"RemoveAssetFromSpoke", "RemoveSpoke", "Unpause", "UpgradeController",
   "ApproveBlendPool", "RevokeBlendPool", "SetSwapAggregator",
   "SetPriceAggregator", "SetAccumulator", "SetPositionLimits",
   "SetMinBorrowCollateralUsd", "CreateHub", "AddSpoke", "CreateLiquidityPool",
   "UpgradeLiquidityPoolParams", "DeployPool", "DeployPositionNft", "UpgradePool",
   "UpgradePositionNft", "UpgradePriceAggregator", "MigrateController",
   "TransferCtrlOwnership", "EditOracleTolerance", "SetSpokeLiquidationCurve",
   "ForceSocializeBadDebt", "UpgradeGov", "ConfigureAssetOracle"}

AdminOperation ==
  [kind : {"UpdateGovDelay"}, delay : Nat]
    \cup [kind : {"GrantGovRole", "RevokeGovRole"}, account : Address, role : Role]
    \cup [kind : {"TransferGovOwnership"}, new_owner : Address, live_until : Nat]
    \cup [kind : FlagKinds, flags : SUBSET Flag]
    \cup [kind : {"RelaxSpokeAssetFlags"}, flags : SUBSET Flag, epoch : Nat]
    \cup [kind : {"SetPositionManager"}, active : BOOLEAN]
    \cup [kind : PlainKinds]

\* The recovery operation, which only propose_canceller_reset schedules.
ResetCancellers(S) == [kind |-> "ResetCancellers", cancellers |-> S]
Operation == AdminOperation \cup {ResetCancellers(S) : S \in SUBSET Address}

Id == [op : Operation, salt : Salt]

ASSUME AdminAssumption == Admin \in Address
ASSUME DelayAssumption == /\ InitialDelay \in Nat \ {0} /\ MinDelay \in Nat \ {0}
                          /\ MaxDelay \in Nat /\ MinDelay <= MaxDelay
                          /\ SensitiveDelay \in Nat /\ RecoveryDelay \in Nat
                          /\ Grace \in Nat /\ MaxLedger \in Nat
ASSUME OpsAssumption   == AdminOps \subseteq AdminOperation /\ ResetSets \subseteq SUBSET Address
ASSUME FlagAssumption  == IsFiniteSet(Flag)

\* Operations whose resolved target is governance itself.
SelfKinds == {"UpgradeGov", "UpdateGovDelay", "GrantGovRole", "RevokeGovRole",
              "TransferGovOwnership", "SetPriceAggregator"}

\* propose: operations that the owner alone may propose.
OwnerKinds ==
  {"TransferGovOwnership", "TransferCtrlOwnership", "UpgradeGov", "UpgradeController",
   "UpgradePool", "UpgradePositionNft", "UpgradePriceAggregator", "MigrateController",
   "UpdateGovDelay", "SetPriceAggregator", "ConfigureAssetOracle", "EditOracleTolerance",
   "SetSwapAggregator", "ApproveBlendPool", "SetAccumulator", "GrantGovRole"}

OwnerOnly(op) ==
  op.kind \in OwnerKinds \/ (op.kind = "SetPositionManager" /\ op.active)

\* resolve_op: operations of the Sensitive tier.
SensitiveKinds ==
  {"UpgradeGov", "GrantGovRole", "RevokeGovRole", "TransferGovOwnership",
   "SetSwapAggregator", "SetPriceAggregator", "UpgradePool", "UpgradePositionNft",
   "UpgradePriceAggregator", "SetPositionManager", "UpgradeController",
   "TransferCtrlOwnership", "ForceSocializeBadDebt"}

-----------------------------------------------------------------------------
VARIABLES
  owner,       \* ownable: Owner
  pending,     \* ownable: PendingOwner, or NoTransfer
  role,        \* access_control: the members of each role
  min_delay,   \* timelock: the minimum delay
  scheduled,   \* timelock: OperationLedger; `since' is history
  recovery,    \* GovernanceKey::RecoveryOp
  target,      \* GovernanceKey::RoleRevocationTarget
  ledger,      \* the ledger sequence
  paused,      \* controller: paused
  deprecated,  \* controller: the spoke is deprecated
  listing,     \* controller: the spoke's listing of an asset
  allowed,     \* controller: the position manager and the Blend pool in use
  overtaken,   \* history: operations that waited when a guardian set flags
  tightenings  \* history: flag writes of guardians since the last relaxation

timelock == <<scheduled, recovery, target, overtaken>>
access   == <<owner, pending, role>>
listings == <<deprecated, listing, tightenings>>
control  == <<paused, listings, allowed>>
vars     == <<access, min_delay, timelock, ledger, control>>

NoTransfer == [live_until |-> 0]
Nobody     == "None"               \* execute without an executor
Grantable  == {"manager", "blend"}

\* __constructor, and a controller deployed as its init leaves it.
Init ==
  /\ owner = Admin
  /\ pending = NoTransfer
  /\ role = [r \in Role |-> {Admin}]
  /\ min_delay = InitialDelay
  /\ scheduled = [id \in {} |-> 0]
  /\ recovery = {}
  /\ target = [id \in {} |-> Admin]
  /\ ledger = 0
  /\ paused = TRUE
  /\ deprecated = FALSE
  /\ listing = NoListing
  /\ allowed = {}
  /\ overtaken = {}
  /\ tightenings = 0

-----------------------------------------------------------------------------
(* timelock/mod.rs                                                          *)

AtLeast(a, b) == IF a >= b THEN a ELSE b

\* Mutant: the floor of the tier is not applied.
OperationDelayFlat(op) == min_delay

OperationDelay(op) ==
  CASE op.kind = "ResetCancellers"   -> AtLeast(min_delay, RecoveryDelay)
    [] op.kind \in SensitiveKinds    -> AtLeast(min_delay, SensitiveDelay)
    [] OTHER                         -> min_delay

ValidDelay(new_delay) ==
  /\ new_delay # 0
  /\ new_delay <= MaxDelay
  /\ new_delay >= min_delay \/ new_delay >= MinDelay

\* resolve_op: the checks that depend on the state.
Resolves(op) ==
  /\ op.kind = "UpdateGovDelay" => ValidDelay(op.delay)
  /\ op.kind = "RelaxSpokeAssetFlags" => op.epoch = listing.epoch

\* External: schedule_operation refuses an id that is already there.
Schedule(id) ==
  /\ id \notin DOMAIN scheduled
  /\ scheduled' = [i \in DOMAIN scheduled \cup {id} |->
                     IF i = id THEN [ready |-> ledger + OperationDelay(id.op), since |-> ledger]
                     ELSE scheduled[i]]

\* External: cancel_operation, and what finish_execute does after an execution.
\* clear_operation_sidecars goes with both.
Drop(id) ==
  /\ scheduled' = Restrict(scheduled, DOMAIN scheduled \ {id})
  /\ recovery' = recovery \ {id}
  /\ target' = Restrict(target, DOMAIN target \ {id})
  /\ overtaken' = overtaken \ {id}

\* prepare_execute and the library's state check: the caller may name an
\* executor, who then needs the role; the operation is ready and not expired.
MayExecute(executor, id) ==
  /\ executor # Nobody => executor \in role["EXECUTOR"]
  /\ id \in DOMAIN scheduled
  /\ scheduled[id].ready <= ledger
  /\ ledger <= scheduled[id].ready + Grace

-----------------------------------------------------------------------------
(* Proposals: lifecycle.rs, recovery.rs                                     *)

Propose(proposer, op, salt) ==
  LET id == [op |-> op, salt |-> salt]
  IN  /\ proposer \in role["PROPOSER"]
      /\ op.kind = "RevokeGovRole" => op.account \notin {proposer, owner}
      /\ OwnerOnly(op) => proposer = owner
      /\ Resolves(op)
      /\ Schedule(id)
      /\ target' = IF op.kind = "RevokeGovRole"
                     THEN [i \in DOMAIN target \cup {id} |->
                             IF i = id THEN op.account ELSE target[i]]
                     ELSE target
      /\ UNCHANGED <<recovery, overtaken, access, min_delay, ledger, control>>

ProposeCancellerReset(S, salt) ==
  LET id == [op |-> ResetCancellers(S), salt |-> salt]
  IN  /\ Schedule(id)
      /\ recovery' = recovery \cup {id}
      /\ UNCHANGED <<target, overtaken, access, min_delay, ledger, control>>

\* Mutant: recovery operations are cancelled like any other.
CancelAny(canceller, id) ==
  /\ canceller \in role["CANCELLER"]
  /\ id \in DOMAIN scheduled
  /\ id \in DOMAIN target => target[id] # canceller
  /\ Drop(id)
  /\ UNCHANGED <<access, min_delay, ledger, control>>

Cancel(canceller, id) ==
  /\ canceller \in role["CANCELLER"]
  /\ id \notin recovery
  /\ id \in DOMAIN target => target[id] # canceller
  /\ id \in DOMAIN scheduled
  /\ Drop(id)
  /\ UNCHANGED <<access, min_delay, ledger, control>>

-----------------------------------------------------------------------------
(* Execution against the controller: execute runs what was resolved at      *)
(* proposal time; only the controller checks it again.                      *)

SetListing(outcome, count) ==
  /\ outcome.ok
  /\ listing' = outcome.l
  /\ tightenings' = count
  /\ UNCHANGED <<paused, deprecated, allowed>>

Allow(what, yes) ==
  /\ allowed' = IF yes THEN allowed \cup {what} ELSE allowed \ {what}
  /\ UNCHANGED <<paused, listings>>

SetPaused(value) == paused' = value /\ UNCHANGED <<listings, allowed>>

ControllerCall(op) ==
  \/ op.kind = "Unpause" /\ paused /\ SetPaused(FALSE)
  \/ op.kind = "UpgradeController" /\ SetPaused(TRUE)
  \/ /\ op.kind = "RemoveSpoke"
     /\ ~deprecated
     /\ deprecated' = TRUE
     /\ UNCHANGED <<paused, listing, tightenings, allowed>>
  \/ op.kind = "AddAssetToSpoke" /\ ~deprecated /\ SetListing(AddAsset(listing, op.flags), 0)
  \/ op.kind = "EditAssetInSpoke" /\ SetListing(EditAsset(listing, op.flags), tightenings)
  \/ op.kind = "RelaxSpokeAssetFlags" /\ SetListing(RelaxFlags(listing, op.epoch, op.flags), 0)
  \/ op.kind = "RemoveAssetFromSpoke" /\ SetListing(RemoveAsset(listing), 0)
  \/ op.kind = "SetPositionManager" /\ Allow("manager", op.active)
  \/ op.kind = "ApproveBlendPool" /\ Allow("blend", TRUE)
  \/ op.kind = "RevokeBlendPool" /\ Allow("blend", FALSE)
  \/ /\ op.kind \in PlainKinds \ {"Unpause", "UpgradeController", "RemoveSpoke",
                                  "RemoveAssetFromSpoke", "ApproveBlendPool", "RevokeBlendPool"}
     /\ UNCHANGED control

Execute(executor, id) ==
  /\ MayExecute(executor, id)
  /\ id.op.kind \notin SelfKinds \cup {"ResetCancellers"}
  /\ ControllerCall(id.op)
  /\ Drop(id)
  /\ UNCHANGED <<access, min_delay, ledger>>

-----------------------------------------------------------------------------
(* Execution against governance itself: access.rs, apply_self_op            *)

\* require_executor_canceller_separation
Separated(account, r) ==
  \/ account = owner
  \/ r = "EXECUTOR" /\ account \notin role["CANCELLER"]
  \/ r = "CANCELLER" /\ account \notin role["EXECUTOR"]
  \/ r \notin {"EXECUTOR", "CANCELLER"}

ApplyGrantRole(account, r) ==
  /\ Separated(account, r)
  /\ role' = [role EXCEPT ![r] = @ \cup {account}]
  /\ UNCHANGED <<owner, pending>>

ApplyRevokeRole(account, r) ==
  /\ account \in role[r]
  /\ account # owner
  /\ r = "PROPOSER" => Cardinality(role[r]) > 1
  /\ role' = [role EXCEPT ![r] = @ \ {account}]
  /\ UNCHANGED <<owner, pending>>

\* PendingOwner is a temporary entry: it is gone after live_until.
PendingTo(account) ==
  pending # NoTransfer /\ ledger <= pending.live_until /\ pending.to = account

\* External: transfer_role.  A zero live_until withdraws the offer.
ApplyTransferOwnership(new_owner, live_until) ==
  /\ \/ live_until = 0 /\ PendingTo(new_owner) /\ pending' = NoTransfer
     \/ live_until # 0 /\ live_until >= ledger
        /\ pending' = [to |-> new_owner, live_until |-> live_until]
  /\ UNCHANGED <<owner, role>>

ApplySelfOp(op) ==
  \/ op.kind = "UpdateGovDelay" /\ min_delay' = op.delay /\ UNCHANGED access
  \/ op.kind = "GrantGovRole" /\ ApplyGrantRole(op.account, op.role) /\ UNCHANGED min_delay
  \/ op.kind = "RevokeGovRole" /\ ApplyRevokeRole(op.account, op.role) /\ UNCHANGED min_delay
  \/ /\ op.kind = "TransferGovOwnership"
     /\ ApplyTransferOwnership(op.new_owner, op.live_until)
     /\ UNCHANGED min_delay
  \/ op.kind \in {"UpgradeGov", "SetPriceAggregator"} /\ UNCHANGED <<access, min_delay>>

\* The operation is resolved, and so validated, again.
ExecuteSelf(executor, id) ==
  /\ MayExecute(executor, id)
  /\ id.op.kind \in SelfKinds
  /\ Resolves(id.op)
  /\ ApplySelfOp(id.op)
  /\ Drop(id)
  /\ UNCHANGED <<ledger, control>>

\* Everyone but the owner loses the role, then the new members get it.
ApplyCancellerReset(S) ==
  /\ \A a \in S \ {owner} : a \notin role["EXECUTOR"]
  /\ role' = [role EXCEPT !["CANCELLER"] = (@ \cap {owner}) \cup (S \ {owner})]
  /\ UNCHANGED <<owner, pending>>

ExecuteCancellerReset(executor, id) ==
  /\ MayExecute(executor, id)
  /\ id.op.kind = "ResetCancellers"
  /\ ApplyCancellerReset(id.op.cancellers)
  /\ Drop(id)
  /\ UNCHANGED <<min_delay, ledger, control>>

\* Mutant: the previous owner keeps its roles.
AcceptOwnershipKeepsRoles(account) ==
  /\ PendingTo(account)
  /\ owner' = account
  /\ pending' = NoTransfer
  /\ role' = [r \in Role |-> role[r] \cup {account}]
  /\ UNCHANGED <<min_delay, timelock, ledger, control>>

\* Every role moves from the previous owner to the new one.
AcceptOwnership(account) ==
  /\ PendingTo(account)
  /\ owner' = account
  /\ pending' = NoTransfer
  /\ role' = [r \in Role |-> (role[r] \ {owner}) \cup {account}]
  /\ UNCHANGED <<min_delay, timelock, ledger, control>>

-----------------------------------------------------------------------------
(* Immediate operations: immediate.rs                                       *)

Pause(guardian) ==
  /\ guardian \in role["GUARDIAN"]
  /\ ~paused
  /\ SetPaused(TRUE)
  /\ UNCHANGED <<access, min_delay, timelock, ledger>>

SetSpokeAssetFlags(guardian, flags) ==
  /\ guardian \in role["GUARDIAN"]
  /\ SetListing(SetFlags(listing, flags), tightenings + 1)
  /\ overtaken' = DOMAIN scheduled
  /\ UNCHANGED <<access, min_delay, scheduled, recovery, target, ledger>>

\* deactivate_position_manager and revoke_blend_pool.
Disallow(guardian, what) ==
  /\ guardian \in role["GUARDIAN"]
  /\ Allow(what, FALSE)
  /\ UNCHANGED <<access, min_delay, timelock, ledger>>

\* The owner alone may call it.
RevokeRoleImmediate(account, r) ==
  /\ r \in {"GUARDIAN", "ORACLE"}
  /\ ApplyRevokeRole(account, r)
  /\ UNCHANGED <<min_delay, timelock, ledger, control>>

NextLedger ==
  /\ ledger < MaxLedger
  /\ ledger' = ledger + 1
  /\ UNCHANGED <<access, min_delay, timelock, control>>

Next ==
  \/ \E a \in Address, op \in AdminOps, salt \in Salt : Propose(a, op, salt)
  \/ \E S \in ResetSets, salt \in Salt : ProposeCancellerReset(S, salt)
  \/ \E a \in Address, id \in DOMAIN scheduled : Cancel(a, id)
  \/ \E a \in Address \cup {Nobody}, id \in DOMAIN scheduled :
        \/ Execute(a, id)
        \/ ExecuteSelf(a, id)
        \/ ExecuteCancellerReset(a, id)
  \/ \E a \in Address : AcceptOwnership(a) \/ Pause(a)
  \/ \E a \in Address, flags \in SUBSET Flag : SetSpokeAssetFlags(a, flags)
  \/ \E a \in Address, what \in Grantable : Disallow(a, what)
  \/ \E a \in Address, r \in Role : RevokeRoleImmediate(a, r)
  \/ NextLedger

Spec == Init /\ [][Next]_vars

-----------------------------------------------------------------------------
(* Properties.                                                              *)

\* Every entry has its type, and only waiting operations count as overtaken.
TypeOK ==
  /\ owner \in Address
  /\ pending \in [to : Address, live_until : Nat] \cup {NoTransfer}
  /\ role \in [Role -> SUBSET Address]
  /\ min_delay \in Nat
  /\ DOMAIN scheduled \subseteq Id
  /\ scheduled \in [DOMAIN scheduled -> [ready : Nat, since : Nat]]
  /\ recovery \subseteq DOMAIN scheduled
  /\ DOMAIN target \subseteq DOMAIN scheduled
  /\ ledger \in Nat
  /\ paused \in BOOLEAN /\ deprecated \in BOOLEAN
  /\ listing \in ListingState
  /\ allowed \subseteq Grantable
  /\ overtaken \subseteq DOMAIN scheduled
  /\ tightenings \in Nat

\* Nobody but the owner can both execute and cancel, and the owner holds every
\* role: through grants that waited while other grants, a recovery of the
\* canceller set or a change of owner overtook them (access.rs).
RolesSeparated ==
  /\ \A r \in Role : owner \in role[r]
  /\ role["EXECUTOR"] \cap role["CANCELLER"] = {owner}

\* The two marker tables say exactly which waiting operations are recoveries
\* and which account a waiting revocation is aimed at (storage.rs): an id that
\* is proposed again after it ran or was cancelled finds no marker left over.
MarkersMatch ==
  /\ recovery = {id \in DOMAIN scheduled : id.op.kind = "ResetCancellers"}
  /\ DOMAIN target = {id \in DOMAIN scheduled : id.op.kind = "RevokeGovRole"}
  /\ \A id \in DOMAIN target : target[id] = id.op.account

\* Cancellers cannot stop their own replacement: a scheduled reset leaves the
\* timelock only by taking effect, and then they are exactly the new members
\* and the owner, whoever holds the role or owns the contract by then.
RecoveryStands ==
  [][\A id \in DOMAIN scheduled \ DOMAIN scheduled' :
       id.op.kind = "ResetCancellers" =>
         role'["CANCELLER"] = id.op.cancellers \cup {owner}]_vars

\* The shortest delay the contract can ever be brought to (INV-AUTH-05).
ShortestDelay == IF InitialDelay <= MinDelay THEN InitialDelay ELSE MinDelay

TierFloor(op) ==
  CASE op.kind = "ResetCancellers" -> AtLeast(ShortestDelay, RecoveryDelay)
    [] op.kind \in SensitiveKinds  -> AtLeast(ShortestDelay, SensitiveDelay)
    [] OTHER                       -> ShortestDelay

\* A delay that reached the floor never falls below it, and one that starts
\* below only grows until it does: not even through an update that was accepted
\* while the delay was short and runs after another one raised it (INV-AUTH-05).
DelayKeepsFloor == [][min_delay' >= min_delay \/ min_delay' >= MinDelay]_vars

Opens ==
  \/ paused /\ ~paused'
  \/ ~(listing.flags \subseteq listing'.flags)
  \/ ~(allowed' \subseteq allowed)
  \/ min_delay' < min_delay
  \/ pending' \notin {pending, NoTransfer}
  \/ \E r \in Role : ~(role'[r] \subseteq role[r] \cup {owner'})

\* What opens something (unpausing, clearing a flag, admitting a manager or a
\* Blend pool, a shorter delay, an offer of ownership, a new role member) is an
\* operation that was scheduled and served at least the floor of its tier (INV-AUTH-04): no
\* immediate power, and no mix of them, does it.
OpeningWaits ==
  [][Opens =>
       \E id \in DOMAIN scheduled \ DOMAIN scheduled' :
         ledger >= scheduled[id].since + TierFloor(id.op)]_vars

\* A relaxation that was proposed before a guardian set flags has no effect:
\* not even after the listing was removed and added again, or after other
\* relaxations brought back the flags it was proposed for (ADR-0007).
OvertakenNeverRelaxes ==
  [][\A id \in overtaken \ DOMAIN scheduled' :
       id.op.kind = "RelaxSpokeAssetFlags" => listing' = listing]_vars

\* Between relaxations a guardian can invalidate a waiting one at most once per
\* flag (ADR-0007): it cannot hold a listing closed by setting flags again.
TighteningsBounded == tightenings <= Cardinality(listing.flags)

\* INV-AUTH-05: "a decrease takes effect only after the current, longer delay
\* has passed", counted from the proposal of the update.
DecreaseWaitsCurrentDelay ==
  [][min_delay' < min_delay =>
       \A id \in DOMAIN scheduled \ DOMAIN scheduled' :
         ledger >= scheduled[id].since + min_delay]_vars
=============================================================================
