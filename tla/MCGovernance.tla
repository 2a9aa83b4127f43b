---------------------------- MODULE MCGovernance ----------------------------
(***************************************************************************)
(* Small instances of governance.  Delays are a few ledgers; an operation  *)
(* expires soon after it is ready, well before the ledger stops.  A        *)
(* behaviour plays one of several scenes: each takes the operations that   *)
(* one question is about, so that two or three of them can wait at once.   *)
(***************************************************************************)
EXTENDS Governance, TLC

CONSTANTS
  o, x, y,
  MaxEpoch      \* bound: flag epochs a relaxation may name

VARIABLE scene

RoleOp(k, a, r) == [kind |-> k, account |-> a, role |-> r]
Transfer(a, n)  == [kind |-> "TransferGovOwnership", new_owner |-> a, live_until |-> n]
Delay(n)        == [kind |-> "UpdateGovDelay", delay |-> n]
Plain(k)        == [kind |-> k]
Add(F)          == [kind |-> "AddAssetToSpoke", flags |-> F]
Edit(F)         == [kind |-> "EditAssetInSpoke", flags |-> F]
Relax(F, n)     == [kind |-> "RelaxSpokeAssetFlags", flags |-> F, epoch |-> n]

\* Who may do what: grants, a revocation, a handover and its withdrawal.
RoleOps ==
  {RoleOp("GrantGovRole", x, "EXECUTOR"), RoleOp("GrantGovRole", x, "CANCELLER"),
   RoleOp("GrantGovRole", x, "PROPOSER"), RoleOp("RevokeGovRole", x, "CANCELLER"),
   Transfer(x, 5), Transfer(o, 6), Transfer(x, 0)}

\* What is open: the listing, the pause, the manager and the Blend pool.
FlagOps ==
  {Add({}), Edit({"frozen"}), Plain("RemoveAssetFromSpoke")}
    \cup {Relax({}, n) : n \in 1..MaxEpoch}

HaltOps ==
  {Plain("Unpause"), Plain("UpgradeController"), Plain("RemoveSpoke"),
   Add({"paused"}), Plain("ApproveBlendPool"), Plain("RevokeBlendPool"),
   Plain("SetAccumulator"), Plain("ForceSocializeBadDebt"), RoleOp("GrantGovRole", x, "GUARDIAN")}
    \cup {[kind |-> "SetPositionManager", active |-> b] : b \in BOOLEAN}

\* How long it waits.
DelayOps == {Delay(n) : n \in 1..4} \cup {Plain("UpgradeGov"), Plain("Unpause")}

AnyOp == RoleOps \cup FlagOps \cup HaltOps \cup DelayOps

-----------------------------------------------------------------------------
\* bounds of a scene: `ledgers' the ledger sequence, `waiting' the operations
\* that wait at the same time.
Scenes ==
  [roles |-> [address |-> {o, x, y}, flag |-> {}, ops |-> RoleOps, resets |-> {{x}, {o, y}},
              grace |-> 1, ledgers |-> 7, waiting |-> 2],
   flags |-> [address |-> {o}, flag |-> {"paused", "frozen"}, ops |-> FlagOps, resets |-> {},
              grace |-> 2, ledgers |-> 5, waiting |-> 3],
   halt  |-> [address |-> {o, x}, flag |-> {"paused"}, ops |-> HaltOps, resets |-> {{x}},
              grace |-> 1, ledgers |-> 4, waiting |-> 2],
   delay |-> [address |-> {o}, flag |-> {}, ops |-> DelayOps, resets |-> {},
              grace |-> 3, ledgers |-> 7, waiting |-> 2]]

In(c) == INSTANCE Governance WITH
  Address <- c.address, Flag <- c.flag, AdminOps <- c.ops, ResetSets <- c.resets,
  Grace <- c.grace, MaxLedger <- c.ledgers

MCInit == Init /\ scene \in DOMAIN Scenes

MCNext ==
  /\ UNCHANGED scene
  /\ \E name \in DOMAIN Scenes :
       /\ scene = name
       /\ In(Scenes[name])!Next
       /\ Cardinality(DOMAIN scheduled') <= Scenes[name].waiting

MCSpec == MCInit /\ [][MCNext]_<<vars, scene>>
=============================================================================
