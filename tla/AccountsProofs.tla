--------------------------- MODULE AccountsProofs ---------------------------
(***************************************************************************)
(* For any number of owners, managers, spokes and accounts: the position   *)
(* NFT and the controller agree on which accounts exist, and whoever acts  *)
(* on an account beside its owner does so by the owner's own consent.      *)
(***************************************************************************)
EXTENDS Accounts, TLAPS

\* Ids are never used twice, which is why the stamp of a grant can be trusted:
\* what is stored of an account belongs to the account that has the id now.
Entries ==
  /\ next_id \in Nat
  /\ \A id \in DOMAIN owner : id \in Nat /\ id < next_id
  /\ owner = [id \in DOMAIN owner |-> owner[id]]
  /\ \A id \in DOMAIN owner : owner[id] \in Owners
  /\ tokens = [u \in Owners |-> tokens[u]]

\* A stored grant, stale or not, lists only delegates that its giver consented to.
GrantsAreConsent ==
  \A id \in DOMAIN grants : \A d \in grants[id].delegates : <<id, grants[id].granted_by, d>> \in consent

AInv == Entries /\ NftIsAccount /\ GrantsAreConsent

-----------------------------------------------------------------------------
\* What the storage operations do to an entry map.
LEMMA WithEntry ==
  ASSUME NEW f, NEW id, NEW v
  PROVE  /\ DOMAIN With(f, id, v) = DOMAIN f \cup {id}
         /\ With(f, id, v)[id] = v
         /\ \A x \in DOMAIN f : x # id => With(f, id, v)[x] = f[x]
  BY Zenon DEF With

\* Removing an entry leaves the others.
LEMMA WithoutEntry ==
  ASSUME NEW f, NEW id
  PROVE  /\ DOMAIN Without(f, id) = DOMAIN f \ {id}
         /\ \A x \in DOMAIN f : x # id => Without(f, id)[x] = f[x]
  BY Zenon DEF Without, Restrict

\* The constructors leave no account.
LEMMA AccountsInit == Init => AInv
  BY DEF Init, AInv, Entries, NftIsAccount, GrantsAreConsent

\* create_account_with mints the next id, which no entry has.
LEMMA CreateKept ==
  ASSUME AInv, NEW u \in Owners, NEW s, NEW b, CreateAccount(u, s, b)
  PROVE  AInv'
<1>1. /\ owner' = With(owner, next_id, u) /\ meta' = With(meta, next_id, s)
      /\ tokens' = [tokens EXCEPT ![u] = @ \cup {next_id}]
      /\ next_id' = next_id + 1 /\ grants' = grants /\ consent' = consent
  BY DEF CreateAccount, Mint
<1>2. DOMAIN owner' = DOMAIN owner \cup {next_id} /\ DOMAIN meta' = DOMAIN meta \cup {next_id}
  BY <1>1, WithEntry, Zenon
<1>3. next_id \notin DOMAIN owner
  BY DEF AInv, Entries
<1>4. owner'[next_id] = u /\ \A id \in DOMAIN owner : owner'[id] = owner[id]
  BY <1>1, <1>3 DEF With
<1>5. Entries'
  <2>1. next_id' \in Nat /\ \A id \in DOMAIN owner' : id \in Nat /\ id < next_id'
    BY <1>1, <1>2 DEF AInv, Entries
  <2>2. owner' = [id \in DOMAIN owner' |-> owner'[id]]
    BY <1>1 DEF With
  <2>3. \A id \in DOMAIN owner' : owner'[id] \in Owners
    BY <1>2, <1>4 DEF AInv, Entries
  <2>4. tokens' = [v \in Owners |-> tokens'[v]]
    BY <1>1 DEF AInv, Entries
  <2> QED
    BY <2>1, <2>2, <2>3, <2>4 DEF Entries
<1>6. NftIsAccount'
  <2>1. DOMAIN owner' = DOMAIN meta' /\ DOMAIN grants' \subseteq DOMAIN meta'
    BY <1>1, <1>2 DEF AInv, NftIsAccount
  <2>2. ASSUME NEW v \in Owners PROVE tokens'[v] = {id \in DOMAIN owner' : owner'[id] = v}
    <3>1. tokens[v] = {id \in DOMAIN owner : owner[id] = v}
      BY DEF AInv, NftIsAccount
    <3>2. tokens'[v] = IF v = u THEN tokens[v] \cup {next_id} ELSE tokens[v]
      BY <1>1 DEF AInv, Entries
    <3> QED
      BY <3>1, <3>2, <1>2, <1>4
  <2> QED
    BY <2>1, <2>2 DEF NftIsAccount
<1>7. GrantsAreConsent'
  BY <1>1 DEF AInv, GrantsAreConsent
<1> QED
  BY <1>5, <1>6, <1>7 DEF AInv

\* remove_account_and_burn_nft takes all that is stored of an account.
LEMMA RemoveKept ==
  ASSUME AInv, NEW id \in DOMAIN meta, RemoveAccountAndBurnNft(id)
  PROVE  AInv'
<1>1. /\ owner' = Without(owner, id) /\ meta' = Without(meta, id) /\ grants' = Without(grants, id)
      /\ tokens' = [tokens EXCEPT ![owner[id]] = @ \ {id}] /\ next_id' = next_id
      /\ consent' = {c \in consent : c[1] # id}
  BY DEF RemoveAccountAndBurnNft, RemoveAccountEntry, Burn
<1>2. /\ DOMAIN owner' = DOMAIN owner \ {id} /\ DOMAIN meta' = DOMAIN meta \ {id}
      /\ DOMAIN grants' = DOMAIN grants \ {id}
  BY <1>1, WithoutEntry, Zenon
<1>3. /\ \A x \in DOMAIN owner' : owner'[x] = owner[x]
      /\ \A x \in DOMAIN grants' : x # id /\ grants'[x] = grants[x]
  BY <1>1, <1>2, WithoutEntry, Zenon
<1>4. id \in DOMAIN owner /\ owner[id] \in Owners
  BY DEF AInv, Entries, NftIsAccount
<1>5. Entries'
  <2>1. owner' = [x \in DOMAIN owner' |-> owner'[x]]
    BY <1>1 DEF Without, Restrict
  <2>2. tokens' = [v \in Owners |-> tokens'[v]]
    BY <1>1, Zenon DEF AInv, Entries
  <2> QED
    BY <1>1, <1>2, <1>3, <2>1, <2>2 DEF AInv, Entries
<1>6. NftIsAccount'
  <2>1. DOMAIN owner' = DOMAIN meta' /\ DOMAIN grants' \subseteq DOMAIN meta'
    BY <1>2 DEF AInv, NftIsAccount
  <2>2. ASSUME NEW v \in Owners PROVE tokens'[v] = {x \in DOMAIN owner' : owner'[x] = v}
    <3>1. tokens[v] = {x \in DOMAIN owner : owner[x] = v}
      BY DEF AInv, NftIsAccount
    <3>2. tokens'[v] = IF v = owner[id] THEN tokens[v] \ {id} ELSE tokens[v]
      BY <1>1, <1>4, Zenon DEF AInv, Entries
    <3> QED
      BY <3>1, <3>2, <1>2, <1>3
  <2> QED
    BY <2>1, <2>2 DEF NftIsAccount
<1>7. GrantsAreConsent'
  <2> SUFFICES ASSUME NEW x \in DOMAIN grants', NEW d \in grants'[x].delegates
               PROVE  <<x, grants'[x].granted_by, d>> \in consent'
    BY Zenon DEF GrantsAreConsent
  <2>1. <<x, grants[x].granted_by, d>> \in consent /\ x # id /\ grants'[x] = grants[x]
    BY <1>2, <1>3 DEF AInv, GrantsAreConsent
  <2>2. <<x, grants[x].granted_by, d>>[1] = x
    OBVIOUS
  <2> QED
    BY <1>1, <2>1, <2>2
<1> QED
  BY <1>5, <1>6, <1>7 DEF AInv

\* transfer moves the token; the grant stays, stamped by the former owner.
LEMMA TransferKept ==
  ASSUME AInv, NEW id, NEW u \in Owners, Transfer(id, u)
  PROVE  AInv'
<1>1. /\ id \in DOMAIN owner /\ u # owner[id]
      /\ owner' = [owner EXCEPT ![id] = u]
      /\ tokens' = [tokens EXCEPT ![owner[id]] = @ \ {id}, ![u] = @ \cup {id}]
      /\ next_id' = next_id /\ meta' = meta /\ grants' = grants /\ consent' = consent
  BY DEF Transfer
<1>2. /\ DOMAIN owner' = DOMAIN owner /\ owner'[id] = u
      /\ \A x \in DOMAIN owner : x # id => owner'[x] = owner[x]
  BY <1>1 DEF AInv, Entries
<1>3. owner[id] \in Owners
  BY <1>1 DEF AInv, Entries
<1>4. Entries'
  <2>1. owner' = [x \in DOMAIN owner' |-> owner'[x]]
    BY <1>1, Zenon DEF AInv, Entries
  <2>2. tokens' = [v \in Owners |-> tokens'[v]]
    BY <1>1, Zenon DEF AInv, Entries
  <2>3. \A x \in DOMAIN owner' : owner'[x] \in Owners
    BY <1>2 DEF AInv, Entries
  <2> QED
    BY <1>1, <1>2, <2>1, <2>2, <2>3 DEF AInv, Entries
<1>5. NftIsAccount'
  <2>1. DOMAIN owner' = DOMAIN meta' /\ DOMAIN grants' \subseteq DOMAIN meta'
    BY <1>1, <1>2 DEF AInv, NftIsAccount
  <2>2. ASSUME NEW v \in Owners PROVE tokens'[v] = {x \in DOMAIN owner' : owner'[x] = v}
    <3>1. tokens[v] = {x \in DOMAIN owner : owner[x] = v}
      BY DEF AInv, NftIsAccount
    <3>2. tokens'[v] = IF v = u THEN tokens[v] \cup {id}
                       ELSE IF v = owner[id] THEN tokens[v] \ {id} ELSE tokens[v]
      BY <1>1, <1>3 DEF AInv, Entries
    <3> QED
      BY <3>1, <3>2, <1>1, <1>2
  <2> QED
    BY <2>1, <2>2 DEF NftIsAccount
<1>6. GrantsAreConsent'
  BY <1>1 DEF AInv, GrantsAreConsent
<1> QED
  BY <1>4, <1>5, <1>6 DEF AInv

-----------------------------------------------------------------------------
\* A grant written for one account, of delegates its caller consented to,
\* beside others that lost no consent.
LEMMA GrantKept ==
  ASSUME AInv, NEW id \in DOMAIN meta, NEW by, NEW ds, SetDelegates(id, by, ds),
         UNCHANGED <<nft, meta>>,
         \A d \in ds : <<id, by, d>> \in consent',
         \A c \in consent : c[1] # id => c \in consent'
  PROVE  AInv'
<1>1. /\ owner' = owner /\ tokens' = tokens /\ next_id' = next_id /\ meta' = meta
  BY DEF nft
<1>2. \/ grants' = Without(grants, id)
      \/ grants' = With(grants, id, [granted_by |-> by, delegates |-> ds])
  BY DEF SetDelegates
<1>3. DOMAIN grants' \subseteq DOMAIN grants \cup {id}
  BY <1>2 DEF With, Without, Restrict
<1>4. Entries' /\ NftIsAccount'
  BY <1>1, <1>3 DEF AInv, Entries, NftIsAccount
<1>5. ASSUME NEW x \in DOMAIN grants', NEW d \in grants'[x].delegates
      PROVE  <<x, grants'[x].granted_by, d>> \in consent'
  <2>1. CASE x = id
    <3>1. grants' = With(grants, id, [granted_by |-> by, delegates |-> ds])
      BY <1>2, <2>1, WithoutEntry, Zenon
    <3>2. grants'[id] = [granted_by |-> by, delegates |-> ds]
      BY <3>1 DEF With
    <3> QED
      BY <2>1, <3>2
  <2>2. CASE x # id
    <3>1. x \in DOMAIN grants /\ grants'[x] = grants[x]
      BY <1>2, <1>3, <2>2 DEF With, Without, Restrict
    <3>2. <<x, grants[x].granted_by, d>> \in consent
      BY <3>1 DEF AInv, GrantsAreConsent
    <3>3. <<x, grants[x].granted_by, d>>[1] = x
      OBVIOUS
    <3> QED
      BY <3>1, <3>2, <3>3, <2>2
  <2> QED
    BY <2>1, <2>2
<1>6. GrantsAreConsent'
  BY <1>5, Zenon DEF GrantsAreConsent
<1> QED
  BY <1>4, <1>6 DEF AInv

\* add_delegate over a stale grant starts from none.
LEMMA AddDelegateKept ==
  ASSUME AInv, NEW u, NEW id, NEW d, AddDelegate(u, id, d)
  PROVE  AInv'
<1> DEFINE G == GetDelegates(id, u)
<1>1. /\ id \in DOMAIN meta /\ UNCHANGED <<nft, meta>>
      /\ consent' = {c \in consent : c[1] # id \/ c[2] = u} \cup {<<id, u, d>>}
  BY DEF AddDelegate, IsAccountOwner
<1>2. \A e \in G : <<id, u, e>> \in consent
  BY DEF AInv, GrantsAreConsent, GetDelegates
<1>3. \A e : <<id, u, e>>[2] = u
  OBVIOUS
<1>4. \A e \in G \cup {d} : <<id, u, e>> \in consent'
  BY <1>1, <1>2, <1>3
<1>5. \A c \in consent : c[1] # id => c \in consent'
  BY <1>1
<1>6. CASE SetDelegates(id, u, G \cup {d})
  BY <1>1, <1>4, <1>5, <1>6, GrantKept
<1>7. CASE d \in G /\ grants' = grants
  <2>1. id \in DOMAIN grants /\ grants[id].granted_by = u
    BY <1>7 DEF GetDelegates
  <2>2. ASSUME NEW x \in DOMAIN grants, NEW e \in grants[x].delegates
        PROVE  <<x, grants[x].granted_by, e>> \in consent'
    <3>1. <<x, grants[x].granted_by, e>> \in consent
      BY DEF AInv, GrantsAreConsent
    <3>2. <<x, grants[x].granted_by, e>>[1] = x /\ <<x, grants[x].granted_by, e>>[2] = grants[x].granted_by
      OBVIOUS
    <3> QED
      BY <1>1, <2>1, <3>1, <3>2
  <2>3. GrantsAreConsent'
    BY <1>7, <2>2 DEF GrantsAreConsent
  <2>4. Entries' /\ NftIsAccount'
    BY <1>1, <1>7 DEF AInv, Entries, NftIsAccount, nft
  <2> QED
    BY <2>3, <2>4 DEF AInv
<1> QED
  BY <1>6, <1>7 DEF AddDelegate

\* remove_delegate deletes a stale grant whole.
LEMMA RemoveDelegateKept ==
  ASSUME AInv, NEW u, NEW id, NEW d, RemoveDelegate(u, id, d)
  PROVE  AInv'
<1>1. /\ id \in DOMAIN meta /\ UNCHANGED <<nft, meta>> /\ Revoke(u, id, d)
      /\ consent' = {c \in consent : c[1] # id \/ c[2] = u} \ {<<id, u, d>>}
  BY DEF RemoveDelegate, IsAccountOwner
<1>2. \A c \in consent : c[1] # id => c \in consent'
  <2>1. <<id, u, d>>[1] = id
    OBVIOUS
  <2> QED
    BY <1>1, <2>1
<1>3. CASE id \notin DOMAIN grants /\ grants' = grants
  <2>1. ASSUME NEW x \in DOMAIN grants, NEW e \in grants[x].delegates
        PROVE  <<x, grants[x].granted_by, e>> \in consent'
    <3>1. <<x, grants[x].granted_by, e>> \in consent /\ <<x, grants[x].granted_by, e>>[1] = x
      BY DEF AInv, GrantsAreConsent
    <3> QED
      BY <1>2, <1>3, <3>1
  <2>2. GrantsAreConsent'
    BY <1>3, <2>1 DEF GrantsAreConsent
  <2>3. Entries' /\ NftIsAccount'
    BY <1>1, <1>3 DEF AInv, Entries, NftIsAccount, nft
  <2> QED
    BY <2>2, <2>3 DEF AInv
<1>4. CASE grants' = Without(grants, id)
  <2>1. SetDelegates(id, u, {})
    BY <1>4 DEF SetDelegates
  <2> QED
    BY <1>1, <1>2, <2>1, GrantKept
<1>5. CASE /\ id \in DOMAIN grants /\ grants[id].granted_by = u
           /\ SetDelegates(id, u, grants[id].delegates \ {d})
  <2>1. ASSUME NEW e \in grants[id].delegates \ {d} PROVE <<id, u, e>> \in consent'
    <3>1. <<id, u, e>> \in consent
      BY <1>5 DEF AInv, GrantsAreConsent
    <3>2. <<id, u, e>>[2] = u /\ <<id, u, e>>[3] = e /\ <<id, u, d>>[3] = d
      OBVIOUS
    <3> QED
      BY <1>1, <3>1, <3>2
  <2> QED
    BY <1>1, <1>2, <1>5, <2>1, GrantKept
<1> QED
  BY <1>1, <1>3, <1>4, <1>5 DEF Revoke

\* Every step keeps the invariant.
LEMMA AccountsNext == AInv /\ [Next]_vars => AInv'
<1> SUFFICES ASSUME AInv, [Next]_vars PROVE AInv'
  OBVIOUS
<1>1. ASSUME NEW u \in Owners, NEW s \in Spokes, Open(u, s) PROVE AInv'
  BY <1>1, CreateKept, Zenon DEF Open
<1>2. ASSUME NEW u, NEW id, Close(u, id) PROVE AInv'
  BY <1>2, RemoveKept DEF Close
<1>3. ASSUME NEW id, WriteOff(id) PROVE AInv'
  BY <1>3, RemoveKept DEF WriteOff
<1>4. ASSUME NEW u \in Owners, NEW id, CreditReceiver(u, id) PROVE AInv'
  BY <1>4, CreateKept, Zenon DEF CreditReceiver
<1>5. ASSUME UNCHANGED <<nft, meta, grants, consent>> PROVE AInv'
  BY <1>5 DEF AInv, Entries, NftIsAccount, GrantsAreConsent, nft
<1>6. ASSUME NEW u, NEW a, SetPositionManager(u, a) PROVE AInv'
  BY <1>5, <1>6 DEF SetPositionManager
<1>7. ASSUME NEW s, AddSpoke(s) \/ RemoveSpoke(s) PROVE AInv'
  BY <1>5, <1>7, Zenon DEF AddSpoke, RemoveSpoke
<1>8. ASSUME NEW p, SetPaused(p) PROVE AInv'
  BY <1>5, <1>8 DEF SetPaused
<1>9. CASE UNCHANGED vars
  BY <1>5, <1>9 DEF vars, nft
<1> QED
  BY <1>1, <1>2, <1>3, <1>4, <1>6, <1>7, <1>8, <1>9, TransferKept, AddDelegateKept, RemoveDelegateKept, Zenon
     DEF Next

\* The invariant of accounts: ids are fresh, the NFT and the controller agree,
\* and grants list whom their giver consented to.
THEOREM AccountsInvariant == Spec => []AInv
  BY AccountsInit, AccountsNext, PTL DEF Spec

\* remove_account_and_burn_nft and create_account_with keep the NFT and the
\* controller's entries in step, whoever closes, writes off or transfers.
THEOREM NftFollowsAccount == Spec => []NftIsAccount
<1>1. AInv => NftIsAccount
  BY DEF AInv
<1> QED
  BY <1>1, AccountsInvariant, PTL

\* is_owner_or_delegate accepts only the owner and those the present owner
\* consented to, through any sequence of grants, revocations and transfers.
THEOREM DelegatesHaveConsent == Spec => []AuthorityIsConsent
<1>1. AInv => AuthorityIsConsent
  BY DEF AInv, GrantsAreConsent, AuthorityIsConsent, IsOwnerOrDelegate, GetDelegates, ActiveManager
<1> QED
  BY <1>1, AccountsInvariant, PTL
=============================================================================
