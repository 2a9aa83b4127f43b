-------------------------- MODULE GovernanceProofs --------------------------
(***************************************************************************)
(* Governance.tla for every set of addresses, operations, delays and       *)
(* flags.  One inductive invariant, IInv, carries all the theorems: an     *)
(* operation is checked when it is proposed and again, partly, when it is  *)
(* executed, and IInv says what still holds of a waiting operation in      *)
(* between.                                                                *)
(***************************************************************************)
EXTENDS Governance, FiniteSetTheorems, TLAPS

-----------------------------------------------------------------------------
(* The parts of the type invariant, by who writes them.                     *)

TypeAccess ==
  /\ owner \in Address
  /\ pending \in [to : Address, live_until : Nat] \cup {NoTransfer}
  /\ role \in [Role -> SUBSET Address]

TypeTimelock ==
  /\ DOMAIN scheduled \subseteq Id
  /\ scheduled \in [DOMAIN scheduled -> [ready : Nat, since : Nat]]
  /\ recovery \subseteq DOMAIN scheduled
  /\ DOMAIN target \subseteq DOMAIN scheduled
  /\ overtaken \subseteq DOMAIN scheduled

TypeControl ==
  /\ paused \in BOOLEAN /\ deprecated \in BOOLEAN
  /\ listing \in ListingState
  /\ allowed \subseteq Grantable
  /\ tightenings \in Nat

\* The minimum delay is never below the shortest one.
DelayFloor == min_delay >= ShortestDelay

\* A waiting operation becomes ready no sooner than its tier asks.
ReadyAfterFloor ==
  \A id \in DOMAIN scheduled : scheduled[id].ready >= scheduled[id].since + TierFloor(id.op)

\* A waiting relaxation names an epoch the listing has reached, and one that a
\* guardian overtook names an epoch that is past.
EpochsReached ==
  /\ \A id \in DOMAIN scheduled :
       id.op.kind = "RelaxSpokeAssetFlags" => id.op.epoch <= listing.epoch
  /\ \A id \in overtaken :
       id.op.kind = "RelaxSpokeAssetFlags" => id.op.epoch < listing.epoch

IInv ==
  /\ TypeOK
  /\ RolesSeparated
  /\ MarkersMatch
  /\ DelayFloor
  /\ ReadyAfterFloor
  /\ EpochsReached
  /\ TighteningsBounded

\* TypeOK is the conjunction of its parts.
LEMMA TypeParts ==
  TypeOK <=> TypeAccess /\ TypeTimelock /\ TypeControl /\ min_delay \in Nat /\ ledger \in Nat
BY DEF TypeOK, TypeAccess, TypeTimelock, TypeControl

-----------------------------------------------------------------------------
(* Operations and delays.                                                   *)

\* An operation carries the fields of its kind.
LEMMA OpFields ==
  ASSUME NEW op \in Operation
  PROVE  /\ op.kind = "UpdateGovDelay" => op.delay \in Nat
         /\ op.kind \in {"GrantGovRole", "RevokeGovRole"} =>
              op.account \in Address /\ op.role \in Role
         /\ op.kind = "TransferGovOwnership" =>
              op.new_owner \in Address /\ op.live_until \in Nat
         /\ op.kind \in FlagKinds => op.flags \subseteq Flag
         /\ op.kind = "RelaxSpokeAssetFlags" => op.flags \subseteq Flag /\ op.epoch \in Nat
         /\ op.kind = "SetPositionManager" => op.active \in BOOLEAN
         /\ op.kind = "ResetCancellers" => op.cancellers \subseteq Address
<1>1. CASE op \in [kind : {"UpdateGovDelay"}, delay : Nat]
  BY <1>1 DEF FlagKinds
<1>2. CASE op \in [kind : {"GrantGovRole", "RevokeGovRole"}, account : Address, role : Role]
  BY <1>2 DEF FlagKinds
<1>3. CASE op \in [kind : {"TransferGovOwnership"}, new_owner : Address, live_until : Nat]
  BY <1>3 DEF FlagKinds
<1>4. CASE op \in [kind : FlagKinds, flags : SUBSET Flag]
  BY <1>4 DEF FlagKinds
<1>5. CASE op \in [kind : {"RelaxSpokeAssetFlags"}, flags : SUBSET Flag, epoch : Nat]
  BY <1>5 DEF FlagKinds
<1>6. CASE op \in [kind : {"SetPositionManager"}, active : BOOLEAN]
  BY <1>6 DEF FlagKinds
<1>7. CASE op \in [kind : PlainKinds]
  BY <1>7 DEF FlagKinds, PlainKinds
<1>8. CASE op \in {ResetCancellers(S) : S \in SUBSET Address}
  <2>1. PICK S \in SUBSET Address : op = ResetCancellers(S)
    BY <1>8
  <2> QED
    BY <2>1 DEF ResetCancellers, FlagKinds
<1> QED
  BY <1>1, <1>2, <1>3, <1>4, <1>5, <1>6, <1>7, <1>8 DEF Operation, AdminOperation

\* AtLeast is the maximum.
LEMMA AtLeastMax ==
  ASSUME NEW a \in Nat, NEW b \in Nat
  PROVE  AtLeast(a, b) \in Nat /\ AtLeast(a, b) >= a /\ AtLeast(a, b) >= b
BY DEF AtLeast

\* The shortest delay is a positive number of ledgers.
LEMMA ShortestType ==
  ShortestDelay \in Nat /\ ShortestDelay > 0
    /\ ShortestDelay <= MinDelay /\ ShortestDelay <= InitialDelay
BY DelayAssumption DEF ShortestDelay

\* operation_delay asks for at least the floor of the tier (timelock/mod.rs).
LEMMA DelayCoversFloor ==
  ASSUME min_delay \in Nat, DelayFloor, NEW op
  PROVE  OperationDelay(op) \in Nat /\ TierFloor(op) \in Nat /\ TierFloor(op) <= OperationDelay(op)
BY ShortestType, DelayAssumption DEF OperationDelay, TierFloor, AtLeast, DelayFloor
-----------------------------------------------------------------------------
(* The timelock.                                                            *)

\* Scheduling adds one operation and leaves the others alone.
LEMMA ScheduleAdds ==
  ASSUME TypeTimelock, min_delay \in Nat, ledger \in Nat, DelayFloor, NEW id \in Id, Schedule(id)
  PROVE  /\ id \notin DOMAIN scheduled
         /\ DOMAIN scheduled' = DOMAIN scheduled \cup {id}
         /\ scheduled'[id] = [ready |-> ledger + OperationDelay(id.op), since |-> ledger]
         /\ \A i \in DOMAIN scheduled : scheduled'[i] = scheduled[i]
         /\ scheduled' \in [DOMAIN scheduled' -> [ready : Nat, since : Nat]]
<1>1. OperationDelay(id.op) \in Nat
  BY DelayCoversFloor
<1>2. [ready |-> ledger + OperationDelay(id.op), since |-> ledger] \in [ready : Nat, since : Nat]
  BY <1>1
<1> QED
  BY <1>2 DEF Schedule, TypeTimelock

\* Dropping removes one operation with its markers.
LEMMA DropRemoves ==
  ASSUME TypeTimelock, NEW id, Drop(id)
  PROVE  /\ DOMAIN scheduled' = DOMAIN scheduled \ {id}
         /\ \A i \in DOMAIN scheduled' : scheduled'[i] = scheduled[i]
         /\ DOMAIN target' = DOMAIN target \ {id}
         /\ \A i \in DOMAIN target' : target'[i] = target[i]
         /\ recovery' = recovery \ {id}
         /\ overtaken' = overtaken \ {id}
         /\ TypeTimelock'
BY DEF Drop, Restrict, TypeTimelock

\* A dropped operation takes nothing else with it: what IInv says of the waiting
\* operations is kept, as long as the epoch of the listing does not fall.
LEMMA DropKeeps ==
  ASSUME TypeTimelock, TypeControl, MarkersMatch, ReadyAfterFloor, EpochsReached, NEW id, Drop(id),
         listing'.epoch \in Nat, listing.epoch <= listing'.epoch
  PROVE  TypeTimelock' /\ MarkersMatch' /\ ReadyAfterFloor' /\ EpochsReached'
<1>1. /\ DOMAIN scheduled' = DOMAIN scheduled \ {id}
      /\ \A i \in DOMAIN scheduled' : scheduled'[i] = scheduled[i]
      /\ DOMAIN target' = DOMAIN target \ {id}
      /\ \A i \in DOMAIN target' : target'[i] = target[i]
      /\ recovery' = recovery \ {id}
      /\ overtaken' = overtaken \ {id}
      /\ TypeTimelock'
  BY DropRemoves, Zenon
<1>2. MarkersMatch'
  BY <1>1 DEF MarkersMatch
<1>3. ReadyAfterFloor'
  BY <1>1 DEF ReadyAfterFloor, TierFloor
<1>4. listing.epoch \in Nat
  BY DEF TypeControl, ListingState
<1>5. ASSUME NEW i \in DOMAIN scheduled, i.op.kind = "RelaxSpokeAssetFlags"
      PROVE  i.op.epoch \in Nat
  <2>1. i.op \in Operation
    BY DEF TypeTimelock, Id
  <2> QED
    BY <1>5, <2>1, OpFields
<1>6. EpochsReached'
  BY <1>1, <1>4, <1>5 DEF EpochsReached, TypeTimelock
<1> QED
  BY <1>1, <1>2, <1>3, <1>6

\* The same when nothing of the timelock changes.
LEMMA TimelockKept ==
  ASSUME TypeTimelock, MarkersMatch, ReadyAfterFloor, EpochsReached,
         UNCHANGED <<timelock, listing>>
  PROVE  TypeTimelock' /\ MarkersMatch' /\ ReadyAfterFloor' /\ EpochsReached'
<1>1. UNCHANGED <<scheduled, recovery, target, overtaken, listing>>
  BY DEF timelock
<1>2. TypeTimelock' /\ MarkersMatch' /\ EpochsReached'
  BY <1>1 DEF TypeTimelock, MarkersMatch, EpochsReached
<1>3. ReadyAfterFloor'
  BY <1>1 DEF ReadyAfterFloor, TierFloor
<1> QED
  BY <1>2, <1>3
-----------------------------------------------------------------------------
(* The listing and the rest of the controller.                              *)

\* Every write of a listing stays in its type and never lowers the epoch.
LEMMA ListingWrites ==
  ASSUME NEW l \in ListingState, NEW flags \in SUBSET Flag, NEW epoch \in Nat
  PROVE  LET Moves(n) == n \in ListingState /\ l.epoch <= n.epoch
         IN  /\ Moves(AddAsset(l, flags).l) /\ Moves(EditAsset(l, flags).l)
             /\ Moves(SetFlags(l, flags).l) /\ Moves(RelaxFlags(l, epoch, flags).l)
             /\ Moves(RemoveAsset(l).l)
             /\ SetFlags(l, flags).l.epoch = l.epoch + 1
             /\ SetFlags(l, flags).l.flags = flags
             /\ EditAsset(l, flags).l.flags = flags
<1> DEFINE Moves(n) == n \in ListingState /\ l.epoch <= n.epoch
<1>1. ASSUME NEW k \in ListingState
      PROVE  /\ WriteFlags(k, flags) \in ListingState
             /\ WriteFlags(k, flags).epoch = k.epoch + 1
             /\ WriteFlags(k, flags).flags = flags
             /\ k.epoch \in Nat
  <2>1. k.epoch \in Nat /\ k.listed \in BOOLEAN
    BY DEF ListingState
  <2>2. WriteFlags(k, flags) = [listed |-> k.listed, flags |-> flags, epoch |-> k.epoch + 1]
    <3>1. PICK n : n = WriteFlags(k, flags)
      OBVIOUS
    <3>2. n = [k EXCEPT !.epoch = k.epoch + 1, !.flags = flags]
      BY <3>1 DEF WriteFlags
    <3>3. k = [listed |-> k.listed, flags |-> k.flags, epoch |-> k.epoch]
      BY DEF ListingState
    <3> QED
      BY <3>1, <3>2, <3>3, Zenon
  <2> QED
    BY <2>1, <2>2 DEF ListingState
<1>2. PICK k : k = [l EXCEPT !.listed = TRUE]
  BY Zenon
<1>3. k \in ListingState /\ k.epoch = l.epoch
  BY <1>2, Zenon DEF ListingState
<1>4. Moves(AddAsset(l, flags).l)
  <2>1. AddAsset(l, flags).l = WriteFlags(k, flags)
    BY <1>2 DEF AddAsset
  <2> QED
    BY <1>1, <1>3, <2>1
<1>5. Moves(EditAsset(l, flags).l) /\ EditAsset(l, flags).l.flags = flags
  BY <1>1 DEF EditAsset
<1>6. /\ Moves(SetFlags(l, flags).l) /\ Moves(RelaxFlags(l, epoch, flags).l)
      /\ SetFlags(l, flags).l.epoch = l.epoch + 1 /\ SetFlags(l, flags).l.flags = flags
  BY <1>1 DEF SetFlags, RelaxFlags
<1>7. Moves(RemoveAsset(l).l)
  <2>1. RemoveAsset(l).l = [listed |-> FALSE, flags |-> {}, epoch |-> l.epoch]
    BY Zenon DEF ListingState, RemoveAsset
  <2>2. l.epoch \in Nat
    BY DEF ListingState
  <2> QED
    BY <2>1, <2>2 DEF ListingState
<1> QED
  BY <1>4, <1>5, <1>6, <1>7

\* A set of flags is finite.
LEMMA FlagCount ==
  ASSUME NEW F \in SUBSET Flag, NEW G \in SUBSET F
  PROVE  /\ Cardinality(F) \in Nat /\ Cardinality(G) \in Nat
         /\ Cardinality(G) <= Cardinality(F)
         /\ G # F => Cardinality(G) + 1 <= Cardinality(F)
<1>1. IsFiniteSet(F)
  BY FlagAssumption, FS_Subset
<1>2. IsFiniteSet(G) /\ Cardinality(G) <= Cardinality(F) /\ (Cardinality(F) = Cardinality(G) => F = G)
  BY <1>1, FS_Subset
<1>3. Cardinality(F) \in Nat /\ Cardinality(G) \in Nat
  BY <1>1, <1>2, FS_CardinalityType
<1> QED
  BY <1>2, <1>3

\* What an executed operation does to the controller keeps its part of IInv.
LEMMA ControlKept ==
  ASSUME TypeControl, TighteningsBounded, NEW op \in Operation, ControllerCall(op)
  PROVE  TypeControl' /\ TighteningsBounded' /\ listing.epoch <= listing'.epoch
<1> USE DEF listings, control
<1>1. listing \in ListingState /\ listing.epoch \in Nat /\ listing.flags \in SUBSET Flag
  BY DEF TypeControl, ListingState
<1>2. CASE listing' = listing /\ tightenings' = tightenings
  <2>1. TypeControl'
    <3>1. CASE op.kind = "Unpause" /\ paused /\ SetPaused(FALSE)
      BY <1>2, <3>1, Zenon DEF SetPaused, TypeControl
    <3>2. CASE op.kind = "UpgradeController" /\ SetPaused(TRUE)
      BY <1>2, <3>2 DEF SetPaused, TypeControl
    <3>3. CASE \E what \in Grantable, yes \in BOOLEAN : Allow(what, yes)
      BY <1>2, <3>3 DEF Allow, TypeControl
    <3>4. CASE UNCHANGED <<paused, allowed>> /\ deprecated' \in BOOLEAN
      BY <1>2, <3>4 DEF TypeControl
    <3>5. op.kind = "SetPositionManager" => op.active \in BOOLEAN
      BY OpFields
    <3>6. CASE \E outcome, count : SetListing(outcome, count)
      BY <1>2, <3>6 DEF SetListing, TypeControl
    <3> QED
      BY <3>1, <3>2, <3>3, <3>4, <3>5, <3>6, Zenon DEF ControllerCall, Grantable, TypeControl
  <2> QED
    BY <1>1, <1>2, <2>1 DEF TighteningsBounded
<1>3. CASE op.kind = "EditAssetInSpoke" /\ SetListing(EditAsset(listing, op.flags), tightenings)
  <2>1. op.flags \in SUBSET Flag
    BY <1>3, OpFields DEF FlagKinds
  <2>2. /\ listing' \in ListingState /\ listing.epoch <= listing'.epoch
        /\ listing'.flags = op.flags
    BY <1>1, <1>3, <2>1, ListingWrites DEF SetListing
  <2>3. listing.flags \subseteq op.flags
    BY <1>3, Zenon DEF SetListing, EditAsset, FlagRatchet
  <2>4. Cardinality(listing.flags) <= Cardinality(op.flags)
        /\ Cardinality(op.flags) \in Nat /\ Cardinality(listing.flags) \in Nat
    BY <2>1, <2>3, FlagCount
  <2>5. TypeControl' /\ tightenings' = tightenings /\ tightenings \in Nat
    BY <1>3, <2>2 DEF SetListing, TypeControl
  <2> QED
    BY <2>2, <2>4, <2>5 DEF TighteningsBounded
<1>4. CASE \E outcome : /\ SetListing(outcome, 0)
                        /\ outcome.l \in ListingState
                        /\ listing.epoch <= outcome.l.epoch
  <2>1. /\ tightenings' = 0 /\ listing' \in ListingState /\ listing.epoch <= listing'.epoch
        /\ UNCHANGED <<paused, deprecated, allowed>>
    BY <1>4 DEF SetListing
  <2>2. listing'.flags \in SUBSET Flag
    BY <2>1 DEF ListingState
  <2>3. 0 <= Cardinality(listing'.flags)
    BY <2>2, FlagCount
  <2> QED
    BY <2>1, <2>3 DEF TypeControl, TighteningsBounded
<1>5. CASE op.kind = "AddAssetToSpoke" /\ ~deprecated /\ SetListing(AddAsset(listing, op.flags), 0)
  <2>1. op.flags \in SUBSET Flag
    BY <1>5, OpFields DEF FlagKinds
  <2>2. AddAsset(listing, op.flags).l \in ListingState
        /\ listing.epoch <= AddAsset(listing, op.flags).l.epoch
    BY <1>1, <2>1, ListingWrites
  <2> QED
    BY <1>4, <1>5, <2>2
<1>6. CASE op.kind = "RelaxSpokeAssetFlags" /\ SetListing(RelaxFlags(listing, op.epoch, op.flags), 0)
  <2>1. op.flags \in SUBSET Flag /\ op.epoch \in Nat
    BY <1>6, OpFields
  <2>2. RelaxFlags(listing, op.epoch, op.flags).l \in ListingState
        /\ listing.epoch <= RelaxFlags(listing, op.epoch, op.flags).l.epoch
    BY <1>1, <2>1, ListingWrites, Zenon
  <2> QED
    BY <1>4, <1>6, <2>2
<1>7. CASE op.kind = "RemoveAssetFromSpoke" /\ SetListing(RemoveAsset(listing), 0)
  <2>1. RemoveAsset(listing).l \in ListingState /\ listing.epoch <= RemoveAsset(listing).l.epoch
    BY <1>1, ListingWrites
  <2> QED
    BY <1>4, <1>7, <2>1
<1> QED
  BY <1>2, <1>3, <1>5, <1>6, <1>7 DEF ControllerCall, SetPaused, Allow
-----------------------------------------------------------------------------
(* Roles and ownership.                                                     *)

\* A grant keeps executors and cancellers apart (access.rs).
LEMMA GrantKept ==
  ASSUME TypeAccess, RolesSeparated, NEW account \in Address, NEW r \in Role,
         ApplyGrantRole(account, r)
  PROVE  TypeAccess' /\ RolesSeparated'
<1>1. /\ role' \in [Role -> SUBSET Address] /\ UNCHANGED <<owner, pending>>
      /\ \A q \in Role : role'[q] = IF q = r THEN role[q] \cup {account} ELSE role[q]
  BY DEF ApplyGrantRole, TypeAccess
<1>2. "EXECUTOR" \in Role /\ "CANCELLER" \in Role
  BY DEF Role
<1>3. Separated(account, r)
  BY DEF ApplyGrantRole
<1> QED
  BY <1>1, <1>2, <1>3 DEF TypeAccess, RolesSeparated, Separated

\* A revocation never touches the owner.
LEMMA RevokeKept ==
  ASSUME TypeAccess, RolesSeparated, NEW account, NEW r \in Role, ApplyRevokeRole(account, r)
  PROVE  TypeAccess' /\ RolesSeparated'
<1>1. /\ role' \in [Role -> SUBSET Address] /\ UNCHANGED <<owner, pending>> /\ account # owner
      /\ \A q \in Role : role'[q] = IF q = r THEN role[q] \ {account} ELSE role[q]
  BY DEF ApplyRevokeRole, TypeAccess
<1>2. "EXECUTOR" \in Role /\ "CANCELLER" \in Role
  BY DEF Role
<1> QED
  BY <1>1, <1>2 DEF TypeAccess, RolesSeparated

\* An offer of ownership changes no role.
LEMMA TransferKept ==
  ASSUME TypeAccess, RolesSeparated, NEW new_owner \in Address, NEW live_until \in Nat,
         ApplyTransferOwnership(new_owner, live_until)
  PROVE  TypeAccess' /\ RolesSeparated'
<1>1. UNCHANGED <<owner, role>>
  BY DEF ApplyTransferOwnership
<1>2. pending' \in [to : Address, live_until : Nat] \cup {NoTransfer}
  BY DEF ApplyTransferOwnership
<1> QED
  BY <1>1, <1>2 DEF TypeAccess, RolesSeparated

\* A reset makes the cancellers the owner and the members it names.
LEMMA ResetKept ==
  ASSUME TypeAccess, RolesSeparated, NEW S \in SUBSET Address, ApplyCancellerReset(S)
  PROVE  TypeAccess' /\ RolesSeparated' /\ role'["CANCELLER"] = S \cup {owner}
<1>1. "EXECUTOR" \in Role /\ "CANCELLER" \in Role
  BY DEF Role
<1>2. owner \in role["CANCELLER"] /\ owner \in Address
  BY <1>1 DEF RolesSeparated, TypeAccess
<1>3. /\ role' \in [Role -> SUBSET Address] /\ UNCHANGED <<owner, pending>>
      /\ \A q \in Role : role'[q] = IF q = "CANCELLER" THEN S \cup {owner} ELSE role[q]
  BY <1>1, <1>2, Zenon DEF ApplyCancellerReset, TypeAccess
<1>4. \A a \in S \ {owner} : a \notin role["EXECUTOR"]
  BY DEF ApplyCancellerReset
<1> QED
  BY <1>1, <1>3, <1>4 DEF TypeAccess, RolesSeparated

\* A new owner takes every role over from the previous one.
LEMMA AcceptKept ==
  ASSUME TypeAccess, RolesSeparated, NEW account \in Address, AcceptOwnership(account)
  PROVE  TypeAccess' /\ RolesSeparated'
<1>1. "EXECUTOR" \in Role /\ "CANCELLER" \in Role
  BY DEF Role
<1>2. /\ owner' = account /\ pending' = NoTransfer
      /\ role' = [r \in Role |-> (role[r] \ {owner}) \cup {account}]
  BY DEF AcceptOwnership
<1>3. role' \in [Role -> SUBSET Address]
  BY <1>2 DEF TypeAccess
<1>4. /\ role'["EXECUTOR"] = (role["EXECUTOR"] \ {owner}) \cup {account}
      /\ role'["CANCELLER"] = (role["CANCELLER"] \ {owner}) \cup {account}
  BY <1>1, <1>2
<1>5. role'["EXECUTOR"] \cap role'["CANCELLER"] = {account}
  BY <1>4 DEF RolesSeparated
<1> QED
  BY <1>2, <1>3, <1>5 DEF TypeAccess, RolesSeparated
-----------------------------------------------------------------------------
(* IInv is inductive: one lemma per kind of step.                           *)

\* The constructor establishes it.
LEMMA InitInv == Init => IInv
<1> SUFFICES ASSUME Init PROVE IInv
  OBVIOUS
<1> USE DEF Init
<1>1. TypeAccess /\ RolesSeparated
  BY AdminAssumption DEF TypeAccess, RolesSeparated, Role
<1>2. TypeTimelock /\ MarkersMatch /\ ReadyAfterFloor /\ EpochsReached
  BY DEF TypeTimelock, MarkersMatch, ReadyAfterFloor, EpochsReached
<1>3. TypeControl
  BY Zenon DEF TypeControl, ListingState, NoListing, Grantable
<1>4. min_delay \in Nat /\ ledger \in Nat /\ DelayFloor
  BY DelayAssumption, ShortestType DEF DelayFloor
<1>5. TighteningsBounded
  BY FS_EmptySet DEF TighteningsBounded, NoListing
<1> QED
  BY <1>1, <1>2, <1>3, <1>4, <1>5, TypeParts DEF IInv

\* A new operation, proposed by anyone who may, waits for its tier's floor.
LEMMA ScheduleInv ==
  ASSUME IInv, NEW id \in Id, Schedule(id),
         id.op.kind = "RelaxSpokeAssetFlags" => id.op.epoch = listing.epoch,
         recovery' = IF id.op.kind = "ResetCancellers" THEN recovery \cup {id} ELSE recovery,
         target' = IF id.op.kind = "RevokeGovRole"
                     THEN [i \in DOMAIN target \cup {id} |->
                             IF i = id THEN id.op.account ELSE target[i]]
                     ELSE target,
         UNCHANGED <<overtaken, access, min_delay, ledger, control>>
  PROVE  IInv'
<1>1. TypeAccess /\ TypeTimelock /\ TypeControl /\ min_delay \in Nat /\ ledger \in Nat
      /\ RolesSeparated /\ MarkersMatch /\ DelayFloor /\ ReadyAfterFloor /\ EpochsReached
      /\ TighteningsBounded
  BY TypeParts DEF IInv
<1>2. /\ id \notin DOMAIN scheduled
      /\ DOMAIN scheduled' = DOMAIN scheduled \cup {id}
      /\ scheduled'[id] = [ready |-> ledger + OperationDelay(id.op), since |-> ledger]
      /\ \A i \in DOMAIN scheduled : scheduled'[i] = scheduled[i]
      /\ scheduled' \in [DOMAIN scheduled' -> [ready : Nat, since : Nat]]
  BY <1>1, ScheduleAdds
<1>3. UNCHANGED <<overtaken, owner, pending, role, min_delay, ledger, paused, deprecated, listing,
                  tightenings, allowed>>
  BY DEF access, control, listings
<1>4. TypeTimelock'
  BY <1>1, <1>2, <1>3 DEF TypeTimelock
<1>5. MarkersMatch'
  BY <1>1, <1>2 DEF MarkersMatch, TypeTimelock
<1>6. ReadyAfterFloor'
  <2>1. OperationDelay(id.op) \in Nat /\ TierFloor(id.op) \in Nat /\ TierFloor(id.op) <= OperationDelay(id.op)
    BY <1>1, DelayCoversFloor
  <2>2. scheduled'[id].ready >= scheduled'[id].since + TierFloor(id.op)
    BY <1>1, <1>2, <2>1
  <2> QED
    BY <1>1, <1>2, <2>2 DEF ReadyAfterFloor, TierFloor
<1>7. EpochsReached'
  <2>1. listing.epoch \in Nat
    BY <1>1 DEF TypeControl, ListingState
  <2> QED
    BY <1>1, <1>2, <1>3, <2>1 DEF EpochsReached
<1>8. TypeAccess' /\ RolesSeparated' /\ TypeControl' /\ DelayFloor' /\ TighteningsBounded'
  BY <1>1, <1>3 DEF TypeAccess, RolesSeparated, TypeControl, DelayFloor, TighteningsBounded,
                    ShortestDelay
<1> QED
  BY <1>1, <1>3, <1>4, <1>5, <1>6, <1>7, <1>8, TypeParts DEF IInv, TypeOK, TypeAccess,
     TypeTimelock, TypeControl
\* IInv in the next state, from its parts.
LEMMA Assemble ==
  ASSUME TypeAccess', TypeTimelock', TypeControl', min_delay' \in Nat, ledger' \in Nat,
         RolesSeparated', MarkersMatch', DelayFloor', ReadyAfterFloor', EpochsReached',
         TighteningsBounded'
  PROVE  IInv'
BY DEF IInv, TypeOK, TypeAccess, TypeTimelock, TypeControl

\* Roles and owner, when a step leaves them alone.
LEMMA AccessSame ==
  ASSUME TypeAccess, RolesSeparated, UNCHANGED access
  PROVE  TypeAccess' /\ RolesSeparated'
BY DEF access, TypeAccess, RolesSeparated

\* The controller, when a step leaves it alone.
LEMMA ControlSame ==
  ASSUME TypeControl, TighteningsBounded, UNCHANGED control
  PROVE  TypeControl' /\ TighteningsBounded' /\ UNCHANGED listing
BY DEF control, listings, TypeControl, TighteningsBounded

\* The minimum delay, when a step leaves it alone.
LEMMA DelaySame ==
  ASSUME DelayFloor, UNCHANGED min_delay
  PROVE  DelayFloor'
BY DEF DelayFloor, ShortestDelay

\* Proposals, from the two entrypoints.
LEMMA ProposeInv ==
  ASSUME IInv, NEW a \in Address, NEW op \in AdminOps, NEW salt \in Salt, Propose(a, op, salt)
  PROVE  IInv'
<1> DEFINE id == [op |-> op, salt |-> salt]
<1>1. op \in AdminOperation
  BY OpsAssumption
<1>2. id \in Id /\ id.op = op
  BY <1>1 DEF Id, Operation
<1>3. op.kind # "ResetCancellers"
  BY <1>1 DEF AdminOperation, FlagKinds, PlainKinds
<1> QED
  BY <1>2, <1>3, ScheduleInv, Zenon DEF Propose, Resolves

\* The owner's proposal of a recovery is marked as one.
LEMMA ProposeResetInv ==
  ASSUME IInv, NEW S \in ResetSets, NEW salt \in Salt, ProposeCancellerReset(S, salt)
  PROVE  IInv'
<1> DEFINE id == [op |-> ResetCancellers(S), salt |-> salt]
<1>1. S \in SUBSET Address
  BY OpsAssumption
<1>2. id \in Id /\ id.op.kind = "ResetCancellers"
  BY <1>1 DEF Id, Operation, ResetCancellers
<1>3. /\ Schedule(id) /\ recovery' = recovery \cup {id} /\ target' = target
      /\ UNCHANGED <<overtaken, access, min_delay, ledger, control>>
  BY DEF ProposeCancellerReset
<1> HIDE DEF id
<1> QED
  BY <1>2, <1>3, ScheduleInv, Zenon

\* A step that drops an operation keeps IInv if it keeps the parts the operation
\* itself may write.
LEMMA DropInv ==
  ASSUME IInv, NEW id, Drop(id), UNCHANGED ledger,
         TypeAccess', RolesSeparated', min_delay' \in Nat, DelayFloor',
         TypeControl', TighteningsBounded', listing.epoch <= listing'.epoch
  PROVE  IInv'
<1>1. TypeTimelock /\ TypeControl /\ ledger \in Nat
      /\ MarkersMatch /\ ReadyAfterFloor /\ EpochsReached
  BY TypeParts DEF IInv
<1>2. listing'.epoch \in Nat
  BY DEF TypeControl, ListingState
<1>3. TypeTimelock' /\ MarkersMatch' /\ ReadyAfterFloor' /\ EpochsReached'
  BY <1>1, <1>2, DropKeeps
<1> QED
  BY <1>1, <1>3, Assemble

\* So do the steps that leave the timelock alone.
LEMMA QuietInv ==
  ASSUME IInv, UNCHANGED <<timelock, min_delay, listing>>, ledger' \in Nat,
         TypeAccess', RolesSeparated', TypeControl', TighteningsBounded'
  PROVE  IInv'
<1>1. TypeTimelock /\ min_delay \in Nat /\ DelayFloor
      /\ MarkersMatch /\ ReadyAfterFloor /\ EpochsReached
  BY TypeParts DEF IInv
<1>2. TypeTimelock' /\ MarkersMatch' /\ ReadyAfterFloor' /\ EpochsReached'
  BY <1>1, TimelockKept
<1> QED
  BY <1>1, <1>2, DelaySame, Assemble

\* A cancellation writes nothing but the timelock.
LEMMA CancelInv ==
  ASSUME IInv, NEW a, NEW id \in DOMAIN scheduled, Cancel(a, id)
  PROVE  IInv'
<1>1. TypeAccess /\ RolesSeparated /\ TypeControl /\ TighteningsBounded
      /\ min_delay \in Nat /\ DelayFloor
  BY TypeParts DEF IInv
<1>2. Drop(id) /\ UNCHANGED <<access, min_delay, ledger, control>>
  BY DEF Cancel
<1>3. listing.epoch \in Nat /\ listing' = listing
  BY <1>1, <1>2, ControlSame DEF TypeControl, ListingState
<1>4. listing.epoch <= listing'.epoch
  BY <1>3
<1> QED
  BY <1>1, <1>2, <1>4, AccessSame, ControlSame, DelaySame, DropInv

\* An operation against the controller writes nothing of governance.
LEMMA ExecuteInv ==
  ASSUME IInv, NEW a, NEW id \in DOMAIN scheduled, Execute(a, id)
  PROVE  IInv'
<1>1. TypeAccess /\ RolesSeparated /\ TypeControl /\ TighteningsBounded
      /\ min_delay \in Nat /\ DelayFloor /\ TypeTimelock
  BY TypeParts DEF IInv
<1>2. Drop(id) /\ ControllerCall(id.op) /\ UNCHANGED <<access, min_delay, ledger>>
  BY DEF Execute
<1>3. id.op \in Operation
  BY <1>1 DEF TypeTimelock, Id
<1>4. TypeControl' /\ TighteningsBounded' /\ listing.epoch <= listing'.epoch
  BY <1>1, <1>2, <1>3, ControlKept
<1> QED
  BY <1>1, <1>2, <1>4, AccessSame, DelaySame, DropInv
\* A validated update keeps the delay at or above the shortest one.
LEMMA UpdateDelayKept ==
  ASSUME min_delay \in Nat, DelayFloor, NEW new_delay \in Nat, ValidDelay(new_delay),
         min_delay' = new_delay
  PROVE  min_delay' \in Nat /\ DelayFloor'
BY ShortestType, DelayAssumption DEF DelayFloor, ValidDelay, ShortestDelay

\* An operation against governance itself keeps roles apart and the delay up.
LEMMA ExecuteSelfInv ==
  ASSUME IInv, NEW a, NEW id \in DOMAIN scheduled, ExecuteSelf(a, id)
  PROVE  IInv'
<1>1. TypeAccess /\ RolesSeparated /\ TypeControl /\ TighteningsBounded
      /\ min_delay \in Nat /\ DelayFloor /\ TypeTimelock
  BY TypeParts DEF IInv
<1>2. Drop(id) /\ Resolves(id.op) /\ ApplySelfOp(id.op) /\ UNCHANGED <<ledger, control>>
  BY Zenon DEF ExecuteSelf
<1>3. id.op \in Operation
  BY <1>1 DEF TypeTimelock, Id
<1>4. TypeAccess' /\ RolesSeparated' /\ min_delay' \in Nat /\ DelayFloor'
  <2>1. CASE id.op.kind = "UpdateGovDelay" /\ min_delay' = id.op.delay /\ UNCHANGED access
    <3>1. id.op.delay \in Nat /\ ValidDelay(id.op.delay)
      BY <1>2, <1>3, <2>1, OpFields DEF Resolves
    <3> QED
      BY <1>1, <2>1, <3>1, UpdateDelayKept, AccessSame, Zenon
  <2>2. CASE id.op.kind = "GrantGovRole" /\ ApplyGrantRole(id.op.account, id.op.role) /\ UNCHANGED min_delay
    <3>1. id.op.account \in Address /\ id.op.role \in Role
      BY <1>3, <2>2, OpFields
    <3> QED
      BY <1>1, <2>2, <3>1, GrantKept, DelaySame
  <2>3. CASE id.op.kind = "RevokeGovRole" /\ ApplyRevokeRole(id.op.account, id.op.role) /\ UNCHANGED min_delay
    <3>1. id.op.account \in Address /\ id.op.role \in Role
      BY <1>3, <2>3, OpFields
    <3> QED
      BY <1>1, <2>3, <3>1, RevokeKept, DelaySame
  <2>4. CASE /\ id.op.kind = "TransferGovOwnership"
             /\ ApplyTransferOwnership(id.op.new_owner, id.op.live_until)
             /\ UNCHANGED min_delay
    <3>1. id.op.new_owner \in Address /\ id.op.live_until \in Nat
      BY <1>3, <2>4, OpFields
    <3> QED
      BY <1>1, <2>4, <3>1, TransferKept, DelaySame
  <2>5. CASE UNCHANGED <<access, min_delay>>
    BY <1>1, <2>5, AccessSame, DelaySame
  <2> QED
    BY <1>2, <2>1, <2>2, <2>3, <2>4, <2>5, Zenon DEF ApplySelfOp
<1>5. TypeControl' /\ TighteningsBounded' /\ listing' = listing
  BY <1>1, <1>2, ControlSame
<1>6. listing.epoch <= listing'.epoch
  BY <1>1, <1>5 DEF TypeControl, ListingState
<1> QED
  BY <1>2, <1>4, <1>5, <1>6, DropInv

\* A recovery replaces the cancellers by the members it names and the owner.
LEMMA ExecuteResetInv ==
  ASSUME IInv, NEW a, NEW id \in DOMAIN scheduled, ExecuteCancellerReset(a, id)
  PROVE  IInv' /\ role'["CANCELLER"] = id.op.cancellers \cup {owner}
<1>1. TypeAccess /\ RolesSeparated /\ TypeControl /\ TighteningsBounded
      /\ min_delay \in Nat /\ DelayFloor /\ TypeTimelock
  BY TypeParts DEF IInv
<1>2. /\ Drop(id) /\ id.op.kind = "ResetCancellers" /\ ApplyCancellerReset(id.op.cancellers)
      /\ UNCHANGED <<min_delay, ledger, control>>
  BY DEF ExecuteCancellerReset
<1>3. id.op.cancellers \in SUBSET Address
  <2>1. id.op \in Operation
    BY <1>1 DEF TypeTimelock, Id
  <2> QED
    BY <1>2, <2>1, OpFields, Zenon
<1>4. TypeAccess' /\ RolesSeparated' /\ role'["CANCELLER"] = id.op.cancellers \cup {owner}
  BY <1>1, <1>2, <1>3, ResetKept
<1>5. TypeControl' /\ TighteningsBounded' /\ listing' = listing
  BY <1>1, <1>2, ControlSame
<1>6. listing.epoch <= listing'.epoch
  BY <1>1, <1>5 DEF TypeControl, ListingState
<1>7. min_delay' \in Nat /\ DelayFloor'
  BY <1>1, <1>2, DelaySame
<1> QED
  BY <1>2, <1>4, <1>5, <1>6, <1>7, DropInv

\* A guardian's flags leave every waiting relaxation with an epoch of the past.
LEMMA SetFlagsInv ==
  ASSUME IInv, NEW a, NEW flags \in SUBSET Flag, SetSpokeAssetFlags(a, flags)
  PROVE  IInv'
<1>1. TypeAccess /\ RolesSeparated /\ TypeControl /\ TighteningsBounded /\ ledger \in Nat
      /\ min_delay \in Nat /\ DelayFloor /\ TypeTimelock /\ MarkersMatch /\ ReadyAfterFloor
      /\ EpochsReached
  BY TypeParts DEF IInv
<1>2. /\ SetListing(SetFlags(listing, flags), tightenings + 1)
      /\ overtaken' = DOMAIN scheduled
      /\ UNCHANGED <<access, min_delay, scheduled, recovery, target, ledger>>
  BY DEF SetSpokeAssetFlags
<1>3. listing \in ListingState /\ listing.epoch \in Nat /\ listing.flags \in SUBSET Flag
  BY <1>1, Zenon DEF TypeControl, ListingState
<1>4. /\ listing' = SetFlags(listing, flags).l /\ tightenings' = tightenings + 1
      /\ listing.flags \subseteq flags /\ flags # listing.flags
      /\ UNCHANGED <<paused, deprecated, allowed>>
  BY <1>2, Zenon DEF SetListing, SetFlags, FlagRatchet
<1>5. listing' \in ListingState /\ listing'.epoch = listing.epoch + 1 /\ listing'.flags = flags
  BY <1>3, <1>4, ListingWrites
<1>6. TypeControl' /\ TighteningsBounded'
  <2>1. Cardinality(listing.flags) + 1 <= Cardinality(flags)
        /\ Cardinality(flags) \in Nat /\ Cardinality(listing.flags) \in Nat
    BY <1>4, FlagCount
  <2> QED
    BY <1>1, <1>4, <1>5, <2>1 DEF TypeControl, TighteningsBounded
<1>7. TypeTimelock' /\ MarkersMatch'
  BY <1>1, <1>2 DEF TypeTimelock, MarkersMatch
<1>8. ReadyAfterFloor'
  BY <1>1, <1>2 DEF ReadyAfterFloor, TierFloor
<1>9. EpochsReached'
  <2>1. ASSUME NEW i \in DOMAIN scheduled, i.op.kind = "RelaxSpokeAssetFlags"
        PROVE  i.op.epoch \in Nat
    <3>1. i.op \in Operation
      BY <1>1 DEF TypeTimelock, Id
    <3> QED
      BY <2>1, <3>1, OpFields
  <2> QED
    BY <1>1, <1>2, <1>3, <1>5, <2>1 DEF EpochsReached
<1> QED
  BY <1>1, <1>2, <1>6, <1>7, <1>8, <1>9, AccessSame, DelaySame, Assemble
\* Pausing, withdrawing a permission, the owner's immediate revocation, a change
\* of owner and the passing of time leave the timelock alone.
LEMMA ImmediateInv ==
  ASSUME IInv,
         \/ \E a \in Address : AcceptOwnership(a) \/ Pause(a)
         \/ \E a \in Address, what \in Grantable : Disallow(a, what)
         \/ \E a \in Address, r \in Role : RevokeRoleImmediate(a, r)
         \/ NextLedger
  PROVE  IInv'
<1>1. TypeAccess /\ RolesSeparated /\ TypeControl /\ TighteningsBounded /\ ledger \in Nat
  BY TypeParts DEF IInv
<1>2. ASSUME NEW a \in Address, AcceptOwnership(a) PROVE IInv'
  <2>1. UNCHANGED <<min_delay, timelock, ledger, control>>
    BY <1>2 DEF AcceptOwnership
  <2>2. TypeControl' /\ TighteningsBounded' /\ UNCHANGED listing
    BY <1>1, <2>1, ControlSame
  <2> QED
    BY <1>1, <1>2, <2>1, <2>2, AcceptKept, QuietInv, Zenon
<1>3. ASSUME NEW a \in Address, Pause(a) PROVE IInv'
  <2>1. UNCHANGED <<access, min_delay, timelock, ledger, listing>> /\ TypeControl' /\ TighteningsBounded'
    BY <1>1, <1>3 DEF Pause, SetPaused, listings, TypeControl, TighteningsBounded
  <2> QED
    BY <1>1, <2>1, AccessSame, QuietInv, Zenon
<1>4. ASSUME NEW a \in Address, NEW what \in Grantable, Disallow(a, what) PROVE IInv'
  <2>1. UNCHANGED <<access, min_delay, timelock, ledger, listing>> /\ TypeControl' /\ TighteningsBounded'
    BY <1>1, <1>4 DEF Disallow, Allow, listings, TypeControl, TighteningsBounded
  <2> QED
    BY <1>1, <2>1, AccessSame, QuietInv, Zenon
<1>5. ASSUME NEW a \in Address, NEW r \in Role, RevokeRoleImmediate(a, r) PROVE IInv'
  <2>1. ApplyRevokeRole(a, r) /\ UNCHANGED <<min_delay, timelock, ledger, control>>
    BY <1>5 DEF RevokeRoleImmediate
  <2>2. TypeControl' /\ TighteningsBounded' /\ UNCHANGED listing
    BY <1>1, <2>1, ControlSame
  <2> QED
    BY <1>1, <2>1, <2>2, RevokeKept, QuietInv
<1>6. CASE NextLedger
  <2>1. UNCHANGED <<access, min_delay, timelock, control>> /\ ledger' \in Nat
    BY <1>1, <1>6 DEF NextLedger
  <2> QED
    BY <1>1, <2>1, AccessSame, ControlSame, QuietInv
<1> QED
  BY <1>2, <1>3, <1>4, <1>5, <1>6

\* Every step keeps IInv.
LEMMA NextInv == IInv /\ [Next]_vars => IInv'
<1> SUFFICES ASSUME IInv, [Next]_vars PROVE IInv'
  OBVIOUS
<1>1. ASSUME NEW a \in Address, NEW op \in AdminOps, NEW salt \in Salt, Propose(a, op, salt)
      PROVE  IInv'
  BY <1>1, ProposeInv
<1>2. ASSUME NEW S \in ResetSets, NEW salt \in Salt, ProposeCancellerReset(S, salt)
      PROVE  IInv'
  BY <1>2, ProposeResetInv
<1>3. ASSUME NEW a, NEW id \in DOMAIN scheduled,
             Cancel(a, id) \/ Execute(a, id) \/ ExecuteSelf(a, id) \/ ExecuteCancellerReset(a, id)
      PROVE  IInv'
  BY <1>3, CancelInv, ExecuteInv, ExecuteSelfInv, ExecuteResetInv
<1>4. ASSUME NEW a \in Address, NEW flags \in SUBSET Flag, SetSpokeAssetFlags(a, flags)
      PROVE  IInv'
  BY <1>4, SetFlagsInv
<1>5. CASE \/ \E a \in Address : AcceptOwnership(a) \/ Pause(a)
           \/ \E a \in Address, what \in Grantable : Disallow(a, what)
           \/ \E a \in Address, r \in Role : RevokeRoleImmediate(a, r)
           \/ NextLedger
  BY <1>5, ImmediateInv
<1>6. CASE UNCHANGED vars
  <2>1. TypeAccess /\ RolesSeparated /\ TypeControl /\ TighteningsBounded /\ ledger \in Nat
    BY TypeParts DEF IInv
  <2>2. UNCHANGED <<access, min_delay, timelock, ledger, control>>
    BY <1>6 DEF vars
  <2> QED
    BY <2>1, <2>2, AccessSame, ControlSame, QuietInv
<1> QED
  BY <1>1, <1>2, <1>3, <1>4, <1>5, <1>6 DEF Next

-----------------------------------------------------------------------------
(* The theorems.                                                            *)

\* IInv holds throughout every behaviour.
THEOREM GovernanceInvariant == Spec => []IInv
<1>1. Init => IInv
  BY InitInv
<1>2. IInv /\ [Next]_vars => IInv'
  BY NextInv
<1> QED
  BY <1>1, <1>2, PTL DEF Spec

\* Every entry of governance and of the controller's switches keeps its type.
THEOREM GovernanceTypeCorrect == Spec => []TypeOK
<1>1. IInv => TypeOK
  BY DEF IInv
<1> QED
  BY <1>1, GovernanceInvariant, PTL

\* Nobody but the owner can both execute and cancel.
THEOREM RolesStaySeparated == Spec => []RolesSeparated
<1>1. IInv => RolesSeparated
  BY DEF IInv
<1> QED
  BY <1>1, GovernanceInvariant, PTL

\* The marker tables agree with the timelock.
THEOREM MarkersAgree == Spec => []MarkersMatch
<1>1. IInv => MarkersMatch
  BY DEF IInv
<1> QED
  BY <1>1, GovernanceInvariant, PTL

\* A guardian invalidates a waiting relaxation at most once per flag.
THEOREM InvalidationsBounded == Spec => []TighteningsBounded
<1>1. IInv => TighteningsBounded
  BY Zenon DEF IInv
<1> QED
  BY <1>1, GovernanceInvariant, PTL
-----------------------------------------------------------------------------
(* What a step may do.                                                      *)

Runs(a, id) == Execute(a, id) \/ ExecuteSelf(a, id) \/ ExecuteCancellerReset(a, id)

\* A step keeps every waiting operation, cancels one, or runs one.
LEMMA StepKinds ==
  ASSUME IInv, [Next]_vars
  PROVE  \/ DOMAIN scheduled \subseteq DOMAIN scheduled'
         \/ \E a \in Address \cup {Nobody}, id \in DOMAIN scheduled :
              Cancel(a, id) /\ DOMAIN scheduled' = DOMAIN scheduled \ {id}
         \/ \E a \in Address \cup {Nobody}, id \in DOMAIN scheduled :
              Runs(a, id) /\ DOMAIN scheduled' = DOMAIN scheduled \ {id}
<1>1. TypeTimelock
  BY TypeParts, Zenon DEF IInv
<1>2. ASSUME NEW a, NEW id \in DOMAIN scheduled, Cancel(a, id)
      PROVE  DOMAIN scheduled' = DOMAIN scheduled \ {id}
  BY <1>1, <1>2, DropRemoves, Zenon DEF Cancel
<1>3. ASSUME NEW a, NEW id \in DOMAIN scheduled, Runs(a, id)
      PROVE  DOMAIN scheduled' = DOMAIN scheduled \ {id}
  BY <1>1, <1>3, DropRemoves, Zenon DEF Runs, Execute, ExecuteSelf, ExecuteCancellerReset
<1>4. ASSUME NEW id, Schedule(id)
      PROVE  DOMAIN scheduled \subseteq DOMAIN scheduled'
  BY <1>4 DEF Schedule
<1>5. ASSUME UNCHANGED scheduled
      PROVE  DOMAIN scheduled \subseteq DOMAIN scheduled'
  BY <1>5
<1>6. CASE \/ \E a \in Address, op \in AdminOps, salt \in Salt : Propose(a, op, salt)
           \/ \E S \in ResetSets, salt \in Salt : ProposeCancellerReset(S, salt)
  BY <1>4, <1>6, Zenon DEF Propose, ProposeCancellerReset
<1>7. CASE \/ \E a \in Address : AcceptOwnership(a) \/ Pause(a)
           \/ \E a \in Address, flags \in SUBSET Flag : SetSpokeAssetFlags(a, flags)
           \/ \E a \in Address, what \in Grantable : Disallow(a, what)
           \/ \E a \in Address, r \in Role : RevokeRoleImmediate(a, r)
           \/ NextLedger \/ UNCHANGED vars
  <2>1. UNCHANGED scheduled
    BY <1>7, Zenon DEF AcceptOwnership, Pause, SetSpokeAssetFlags, Disallow, RevokeRoleImmediate,
                NextLedger, vars, timelock
  <2> QED
    BY <1>5, <2>1
<1> QED
  BY <1>2, <1>3, <1>6, <1>7, Zenon DEF Next, Runs

\* A scheduled recovery leaves the timelock only by taking effect: cancellers
\* cannot stop their own replacement (recovery.rs, lifecycle.rs: cancel).
THEOREM RecoveryCannotBeStopped == Spec => RecoveryStands
<1> DEFINE A == \A id \in DOMAIN scheduled \ DOMAIN scheduled' :
                  id.op.kind = "ResetCancellers" =>
                    role'["CANCELLER"] = id.op.cancellers \cup {owner}
<1>1. IInv /\ [Next]_vars => A
  <2> SUFFICES ASSUME IInv, [Next]_vars,
                      NEW id \in DOMAIN scheduled \ DOMAIN scheduled',
                      id.op.kind = "ResetCancellers"
               PROVE  role'["CANCELLER"] = id.op.cancellers \cup {owner}
    OBVIOUS
  <2>1. id \in recovery
    BY DEF IInv, MarkersMatch
  <2>2. PICK a : Runs(a, id)
    BY <2>1, StepKinds, Zenon DEF Cancel
  <2>3. ExecuteCancellerReset(a, id)
    BY <2>2 DEF Runs, Execute, ExecuteSelf, SelfKinds
  <2> QED
    BY <2>3, ExecuteResetInv
<1> QED
  BY <1>1, GovernanceInvariant, PTL DEF Spec, RecoveryStands

\* A relaxation that a guardian's flags overtook changes no listing, however the
\* listing was removed, added and relaxed since (config/asset.rs).
THEOREM OvertakenStaysVoid == Spec => OvertakenNeverRelaxes
<1> DEFINE A == \A id \in overtaken \ DOMAIN scheduled' :
                  id.op.kind = "RelaxSpokeAssetFlags" => listing' = listing
<1>1. IInv /\ [Next]_vars => A
  <2> SUFFICES ASSUME IInv, [Next]_vars,
                      NEW id \in overtaken \ DOMAIN scheduled',
                      id.op.kind = "RelaxSpokeAssetFlags"
               PROVE  listing' = listing
    OBVIOUS
  <2>1. id \in DOMAIN scheduled /\ id.op \in Operation /\ listing.epoch \in Nat
    BY DEF IInv, TypeOK, Id, ListingState
  <2>2. id.op.epoch < listing.epoch /\ id.op.epoch \in Nat
    BY <2>1, OpFields DEF IInv, EpochsReached
  <2>3. CASE \E a : Cancel(a, id)
    BY <2>3 DEF Cancel, control, listings
  <2>4. CASE \E a : Runs(a, id)
    <3>1. ControllerCall(id.op)
      BY <2>4, Zenon DEF Runs, Execute, ExecuteSelf, ExecuteCancellerReset, SelfKinds
    <3>2. SetListing(RelaxFlags(listing, id.op.epoch, id.op.flags), 0)
      BY <3>1, Zenon DEF ControllerCall, PlainKinds
    <3>3. listing.epoch = id.op.epoch
      BY <3>2, Zenon DEF SetListing, RelaxFlags
    <3> QED
      BY <2>2, <3>3
  <2> QED
    BY <2>1, <2>3, <2>4, StepKinds, Zenon
<1> QED
  BY <1>1, GovernanceInvariant, PTL DEF Spec, OvertakenNeverRelaxes
\* A delay update that runs is valid at that moment: the delay falls no lower
\* than the floor (timelock/mod.rs: validate_delay_update).
THEOREM DelayFloorKept == Spec => DelayKeepsFloor
<1>1. IInv /\ [Next]_vars => (min_delay' >= min_delay \/ min_delay' >= MinDelay)
  <2> SUFFICES ASSUME IInv, [Next]_vars, min_delay' # min_delay
               PROVE  min_delay' >= min_delay \/ min_delay' >= MinDelay
    BY DEF IInv, TypeOK
  <2>1. PICK a, id : ExecuteSelf(a, id)
    BY Zenon DEF Next, Propose, ProposeCancellerReset, Cancel, Execute, ExecuteCancellerReset,
           AcceptOwnership, Pause, SetSpokeAssetFlags, Disallow, RevokeRoleImmediate, NextLedger, vars
  <2>2. id.op.kind = "UpdateGovDelay" /\ min_delay' = id.op.delay
    BY <2>1 DEF ExecuteSelf, ApplySelfOp
  <2> QED
    BY <2>1, <2>2 DEF ExecuteSelf, Resolves, ValidDelay
<1> QED
  BY <1>1, GovernanceInvariant, PTL DEF Spec, DelayKeepsFloor

\* Steps that run nothing open nothing.
LEMMA NothingOpens ==
  ASSUME IInv, [Next]_vars, ~\E a \in Address \cup {Nobody}, id \in DOMAIN scheduled : Runs(a, id)
  PROVE  ~Opens
<1> USE DEF access, control, listings, timelock
<1>1. min_delay \in Nat /\ role \in [Role -> SUBSET Address]
  BY DEF IInv, TypeOK
<1>2. CASE UNCHANGED <<access, min_delay, control>>
  BY <1>1, <1>2 DEF Opens
<1>3. ASSUME NEW a \in Address, AcceptOwnership(a) PROVE ~Opens
  <2>1. /\ UNCHANGED <<min_delay, paused, listing, allowed>> /\ owner' = a /\ pending' = NoTransfer
        /\ \A r \in Role : role'[r] = (role[r] \ {owner}) \cup {a}
    BY <1>3, Zenon DEF AcceptOwnership
  <2> QED
    BY <1>1, <2>1 DEF Opens
<1>4. ASSUME NEW a \in Address, Pause(a) PROVE ~Opens
  BY <1>1, <1>4 DEF Pause, SetPaused, Opens
<1>5. ASSUME NEW a \in Address, NEW flags \in SUBSET Flag, SetSpokeAssetFlags(a, flags)
      PROVE  ~Opens
  <2>1. /\ UNCHANGED <<min_delay, paused, allowed, owner, pending, role>>
        /\ listing' = SetFlags(listing, flags).l /\ listing.flags \subseteq flags
    BY <1>5, Zenon DEF SetSpokeAssetFlags, SetListing, SetFlags, FlagRatchet
  <2>2. listing'.flags = flags
    BY <2>1, ListingWrites DEF IInv, TypeOK
  <2> QED
    BY <1>1, <2>1, <2>2 DEF Opens
<1>6. ASSUME NEW a \in Address, NEW what \in Grantable, Disallow(a, what) PROVE ~Opens
  BY <1>1, <1>6 DEF Disallow, Allow, Opens
<1>7. ASSUME NEW a \in Address, NEW r \in Role, RevokeRoleImmediate(a, r) PROVE ~Opens
  <2>1. UNCHANGED <<min_delay, paused, listing, allowed, owner, pending>>
    BY <1>7 DEF RevokeRoleImmediate, ApplyRevokeRole
  <2>2. \A q \in Role : role'[q] \subseteq role[q]
    BY <1>1, <1>7 DEF RevokeRoleImmediate, ApplyRevokeRole
  <2> QED
    BY <1>1, <2>1, <2>2 DEF Opens
<1>8. CASE \/ \E a \in Address, op \in AdminOps, salt \in Salt : Propose(a, op, salt)
           \/ \E S \in ResetSets, salt \in Salt : ProposeCancellerReset(S, salt)
           \/ \E a \in Address, id \in DOMAIN scheduled : Cancel(a, id)
           \/ NextLedger \/ UNCHANGED vars
  <2>1. UNCHANGED <<access, min_delay, control>>
    BY <1>8, Zenon DEF Propose, ProposeCancellerReset, Cancel, NextLedger, vars
  <2> QED
    BY <1>2, <2>1, Zenon
<1> QED
  BY <1>3, <1>4, <1>5, <1>6, <1>7, <1>8 DEF Next, Runs

\* Whatever opens something is an operation that waited at least the floor of
\* its tier since it was proposed (INV-AUTH-04): for every set of addresses and
\* roles, and however the minimum delay moved meanwhile.
THEOREM OpeningsWait == Spec => OpeningWaits
<1> DEFINE A == Opens => \E id \in DOMAIN scheduled \ DOMAIN scheduled' :
                           ledger >= scheduled[id].since + TierFloor(id.op)
<1>1. IInv /\ [Next]_vars => A
  <2> SUFFICES ASSUME IInv, [Next]_vars, Opens
               PROVE  \E id \in DOMAIN scheduled \ DOMAIN scheduled' :
                        ledger >= scheduled[id].since + TierFloor(id.op)
    OBVIOUS
  <2>1. PICK a \in Address \cup {Nobody}, id \in DOMAIN scheduled : Runs(a, id)
    BY NothingOpens
  <2>2. TypeTimelock /\ ledger \in Nat /\ ReadyAfterFloor /\ min_delay \in Nat /\ DelayFloor
    BY TypeParts DEF IInv
  <2>3. DOMAIN scheduled' = DOMAIN scheduled \ {id} /\ scheduled[id].ready <= ledger
    BY <2>1, <2>2, DropRemoves, Zenon DEF Runs, Execute, ExecuteSelf, ExecuteCancellerReset, MayExecute
  <2>4. scheduled[id].ready \in Nat /\ scheduled[id].since \in Nat /\ TierFloor(id.op) \in Nat
    BY <2>2, DelayCoversFloor DEF TypeTimelock
  <2>5. scheduled[id].ready >= scheduled[id].since + TierFloor(id.op)
    BY <2>2 DEF ReadyAfterFloor
  <2> QED
    BY <2>2, <2>3, <2>4, <2>5
<1> QED
  BY <1>1, GovernanceInvariant, PTL DEF Spec, OpeningWaits
=============================================================================
