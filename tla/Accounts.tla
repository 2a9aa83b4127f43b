------------------------------ MODULE Accounts ------------------------------
(***************************************************************************)
(* Who owns an account and who may act on it.  An account is a token of    *)
(* the position NFT plus the controller's own entries for it: metadata,    *)
(* positions and a delegate grant stamped with the owner who gave it       *)
(* (controller/src/account.rs, storage/account.rs, config/spoke.rs and     *)
(* contracts/position-nft).  Positions are modelled in Controller.         *)
(***************************************************************************)
EXTENDS Naturals, FiniteSets, Functions

CONSTANTS
  Owners,       \* addresses that open, send and receive accounts
  Managers,     \* addresses governance may register as position managers
  Spokes,       \* the spoke ids that may be added
  MaxDelegates, \* MAX_DELEGATES
  MaxAccounts   \* the number of accounts created

ASSUME AccountsAssumption == MaxDelegates \in Nat \ {0} /\ MaxAccounts \in Nat

VARIABLES
  owner,     \* NFT: Owner entries, token id -> holder
  tokens,    \* NFT: the enumeration, holder -> set of token ids
  next_id,   \* NFT: the sequential id counter
  meta,      \* AccountMeta entries, id -> spoke
  grants,    \* Delegates entries, id -> [granted_by, delegates]
  manager,   \* PositionManager entries, address -> is_active
  deprecated,\* Spoke entries, id -> is_deprecated
  paused,
  consent    \* history: the grants an owner has given and that still stand

vars == <<owner, tokens, next_id, meta, grants, manager, deprecated, paused, consent>>
nft  == <<owner, tokens, next_id>>

Without(f, id) == Restrict(f, DOMAIN f \ {id})
With(f, id, v) == [x \in DOMAIN f \cup {id} |-> IF x = id THEN v ELSE f[x]]

Init ==
  /\ owner = <<>> /\ meta = <<>> /\ grants = <<>>
  /\ tokens = [u \in Owners |-> {}]
  /\ next_id = 1             \* the constructor consumes id 0
  /\ manager = <<>> /\ deprecated = <<>>
  /\ paused \in BOOLEAN
  /\ consent = {}

-----------------------------------------------------------------------------
(* contracts/position-nft                                                   *)

Mint(to) ==
  /\ owner' = With(owner, next_id, to)
  /\ tokens' = [tokens EXCEPT ![to] = @ \cup {next_id}]
  /\ next_id' = next_id + 1

\* Mutant: the owner entry goes, the holder's enumeration stays.
BurnOwnerOnly(id) ==
  /\ owner' = Without(owner, id)
  /\ UNCHANGED <<tokens, next_id>>

\* Without the holder's signature: liquidation empties accounts too.
Burn(id) ==
  /\ owner' = Without(owner, id)
  /\ tokens' = [tokens EXCEPT ![owner[id]] = @ \ {id}]
  /\ UNCHANGED next_id

\* transfer of the stock token interface, signed by the holder.
Transfer(id, to) ==
  /\ id \in DOMAIN owner
  /\ to # owner[id]
  /\ owner' = [owner EXCEPT ![id] = to]
  /\ tokens' = [tokens EXCEPT ![owner[id]] = @ \ {id}, ![to] = @ \cup {id}]
  /\ UNCHANGED <<next_id, meta, grants, manager, deprecated, paused, consent>>

-----------------------------------------------------------------------------
(* Authority: account.rs and the delegate entries of storage/account.rs.    *)

ActiveManager(u) == u \in DOMAIN manager /\ manager[u]

\* get_delegates: a grant of a previous owner reads as none.
GetDelegates(id, by) ==
  IF id \in DOMAIN grants /\ grants[id].granted_by = by THEN grants[id].delegates ELSE {}

IsOwnerOrDelegate(id, caller) ==
  \/ caller = owner[id]
  \/ ActiveManager(caller) /\ caller \in GetDelegates(id, owner[id])

\* require_account_owner
IsAccountOwner(id, caller) ==
  id \in DOMAIN meta /\ id \in DOMAIN owner /\ owner[id] = caller

\* set_delegates: an empty list is no entry.
SetDelegates(id, by, delegates) ==
  grants' = IF delegates = {} THEN Without(grants, id)
            ELSE With(grants, id, [granted_by |-> by, delegates |-> delegates])

AddDelegate(caller, id, delegate) ==
  /\ ~paused
  /\ IsAccountOwner(id, caller)
  /\ ActiveManager(delegate)
  /\ \/ delegate \in GetDelegates(id, caller) /\ UNCHANGED grants
     \/ /\ delegate \notin GetDelegates(id, caller)
        /\ Cardinality(GetDelegates(id, caller)) < MaxDelegates
        /\ SetDelegates(id, caller, GetDelegates(id, caller) \cup {delegate})
  /\ consent' = {c \in consent : c[1] # id \/ c[2] = caller} \cup {<<id, caller, delegate>>}
  /\ UNCHANGED <<nft, meta, manager, deprecated, paused>>

\* Mutant: a stale grant survives the revocation that found it.
RevokeKeepsStale(caller, id, delegate) ==
  IF id \notin DOMAIN grants \/ grants[id].granted_by # caller THEN UNCHANGED grants
  ELSE SetDelegates(id, caller, grants[id].delegates \ {delegate})

\* storage::remove_delegate: a stale grant is deleted whole.
Revoke(caller, id, delegate) ==
  IF id \notin DOMAIN grants THEN UNCHANGED grants
  ELSE IF grants[id].granted_by # caller THEN grants' = Without(grants, id)
  ELSE SetDelegates(id, caller, grants[id].delegates \ {delegate})

\* Allowed while paused.
RemoveDelegate(caller, id, delegate) ==
  /\ IsAccountOwner(id, caller)
  /\ Revoke(caller, id, delegate)
  /\ consent' = {c \in consent : c[1] # id \/ c[2] = caller} \ {<<id, caller, delegate>>}
  /\ UNCHANGED <<nft, meta, manager, deprecated, paused>>

\* set_position_manager, owner of the controller only.
SetPositionManager(u, active) ==
  /\ manager' = With(manager, u, active)
  /\ UNCHANGED <<nft, meta, grants, deprecated, paused, consent>>

-----------------------------------------------------------------------------
(* Account lifecycle: account.rs.                                           *)

\* create_account_with: new exposure needs an active spoke, a seizure receiver
\* any existing one.
SpokeAdmits(s, allow_deprecated) ==
  s \in DOMAIN deprecated /\ (allow_deprecated \/ ~deprecated[s])

CreateAccount(caller, s, allow_deprecated) ==
  /\ next_id <= MaxAccounts
  /\ SpokeAdmits(s, allow_deprecated)
  /\ Mint(caller)
  /\ meta' = With(meta, next_id, s)
  /\ UNCHANGED <<grants, manager, deprecated, paused, consent>>

RemoveAccountEntry(id) ==
  /\ meta' = Without(meta, id)
  /\ grants' = Without(grants, id)

RemoveAccountAndBurnNft(id) ==
  /\ RemoveAccountEntry(id)
  /\ Burn(id)
  /\ consent' = {c \in consent : c[1] # id}

\* Any operation called with account id zero opens one for its caller.
Open(caller, s) == ~paused /\ CreateAccount(caller, s, FALSE)

\* A withdrawal or a strategy that closes every position removes the account.
Close(caller, id) ==
  /\ id \in DOMAIN meta
  /\ IsOwnerOrDelegate(id, caller)
  /\ RemoveAccountAndBurnNft(id)
  /\ UNCHANGED <<manager, deprecated, paused>>

\* A liquidation or a bad-debt write-off that empties it, nobody's signature needed.
WriteOff(id) ==
  /\ id \in DOMAIN meta
  /\ RemoveAccountAndBurnNft(id)
  /\ UNCHANGED <<manager, deprecated, paused>>

\* Credit(0): a liquidator's receiving account, even in a deprecated spoke.
CreditReceiver(caller, from) ==
  /\ from \in DOMAIN meta
  /\ CreateAccount(caller, meta[from], TRUE)

-----------------------------------------------------------------------------
(* config/spoke.rs and the pause switch.                                    *)

AddSpoke(s) ==
  /\ s \notin DOMAIN deprecated
  /\ deprecated' = With(deprecated, s, FALSE)
  /\ UNCHANGED <<nft, meta, grants, manager, paused, consent>>

RemoveSpoke(s) ==
  /\ s \in DOMAIN deprecated
  /\ ~deprecated[s]
  /\ deprecated' = [deprecated EXCEPT ![s] = TRUE]
  /\ UNCHANGED <<nft, meta, grants, manager, paused, consent>>

SetPaused(p) ==
  /\ p # paused
  /\ paused' = p
  /\ UNCHANGED <<nft, meta, grants, manager, deprecated, consent>>

Next ==
  \/ \E u \in Owners, s \in Spokes : Open(u, s)
  \/ \E u \in Owners \cup Managers, id \in 1 .. MaxAccounts : Close(u, id)
  \/ \E u \in Owners, id \in 1 .. MaxAccounts : WriteOff(id) \/ CreditReceiver(u, id) \/ Transfer(id, u)
  \/ \E u \in Owners, d \in Managers, id \in 1 .. MaxAccounts :
       AddDelegate(u, id, d) \/ RemoveDelegate(u, id, d)
  \/ \E u \in Managers, a \in BOOLEAN : SetPositionManager(u, a)
  \/ \E s \in Spokes : AddSpoke(s) \/ RemoveSpoke(s)
  \/ \E p \in BOOLEAN : SetPaused(p)

Spec == Init /\ [][Next]_vars

-----------------------------------------------------------------------------

\* The NFT/account existence invariant remove_account_and_burn_nft is there to
\* preserve: a token exists exactly while the account does, no grant is stored
\* for an account that is gone, and the burn keeps the token's own enumeration,
\* so that a holder's list is exactly the tokens it owns.
NftIsAccount ==
  /\ DOMAIN owner = DOMAIN meta
  /\ DOMAIN grants \subseteq DOMAIN meta
  /\ \A u \in Owners : tokens[u] = {id \in DOMAIN owner : owner[id] = u}

\* is_owner_or_delegate accepts, beside the owner, only an active manager whom
\* the CURRENT owner granted and has not revoked; a grant a later owner added
\* over or revoked is gone for good, even when the token returns to its giver.
AuthorityIsConsent ==
  \A id \in DOMAIN meta : \A u \in (Owners \cup Managers) \ {owner[id]} :
    IsOwnerOrDelegate(id, u) => <<id, owner[id], u>> \in consent /\ manager[u]

=============================================================================
