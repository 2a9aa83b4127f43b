-------------------------- MODULE DefindexStrategy --------------------------
(***************************************************************************)
(* The DeFindex adapter: contracts/defindex-strategy.  Every vault has one *)
(* controller account that supplies one market; VaultAccount maps it.  The *)
(* controller is reduced to what these calls need of it, accounts with one *)
(* supply leg and no debt, and the market is the pool's (PoolLegs), with   *)
(* other suppliers and borrowers in it.  A call that any contract on the   *)
(* way refuses is a step that does not happen.                             *)
(***************************************************************************)
EXTENDS PoolLegs, FiniteSets, Functions, TLC

CONSTANTS
  Vault,
  P,          \* the market's parameters
  Others,     \* what other suppliers put in before
  Lent,       \* what other accounts borrowed of it
  Amounts,    \* the amounts a vault deposits or withdraws
  Losses,     \* what a token transfer may withhold
  Gifts,      \* what others add to a vault's position
  MaxId, MaxNow, MaxCalls   \* bounds of the instance

VARIABLES
  market,
  account,    \* account id -> the shares of its supply leg
  mapping,    \* VaultAccount: vault -> account id, 0 for none
  next_id,    \* the controller's account ids, never used twice
  now,
  calls       \* calls of the controller so far

vars == <<market, account, mapping, next_id, now, calls>>

Started ==
  BorrowLeg(P, SupplyLeg(P, NewMarket(0), 0, Others).m, 0, Lent).m

Init ==
  /\ market = Started
  /\ account = <<>>
  /\ mapping = [v \in Vault |-> 0]
  /\ next_id = 1
  /\ now = 0
  /\ calls = 0

-----------------------------------------------------------------------------
(* The controller as the adapter sees it.                                   *)

Synced == GlobalSync(P, market, now).m

AccountExists(id) == id \in DOMAIN account

\* get_collateral_amount: half-up, at the index of the moment.
Collateral(id) ==
  IF AccountExists(id) THEN UnscaleSupply(account[id], Synced.supply_index, P.unit) ELSE 0

\* An account is closed with its last position.
StoreAccount(id, leg) ==
  account' = IF leg.position = 0 THEN Restrict(account, DOMAIN account \ {id})
             ELSE (id :> leg.position) @@ account

Stored(id, leg) ==
  /\ leg.ok
  /\ calls < MaxCalls /\ calls' = calls + 1
  /\ market' = leg.m
  /\ StoreAccount(id, leg)

ControllerSupply(id, received) ==
  /\ received > 0
  /\ Stored(id, SupplyLeg(P, Synced, IF AccountExists(id) THEN account[id] ELSE 0, received))

\* A request of zero withdraws all.
Requested(amount) == IF amount = 0 THEN MaxI128 ELSE amount

WithdrawalOf(id, amount) == WithdrawLeg(P, Synced, account[id], Requested(amount), FALSE, 0)

ControllerWithdraw(id, amount) ==
  Stored(id, WithdrawalOf(id, amount))

-----------------------------------------------------------------------------
(* The adapter.                                                             *)

\* resolve_vault_account: a mapping to an account that is gone counts as none.
ResolveVaultAccount(v) == IF AccountExists(mapping[v]) THEN mapping[v] ELSE 0

VaultBalance(v) == Collateral(ResolveVaultAccount(v))

\* Asking for zero takes the remainder that `balance' rounds away with it.
WithdrawAmount(amount, balance) == IF amount = balance THEN 0 ELSE amount

SetVaultAccount(v, id) == mapping' = [mapping EXCEPT ![v] = id]

\* Mutant: the mapping is dropped by every withdrawal.
DropsMapping(v, amount, balance) == mapping' = [mapping EXCEPT ![v] = 0]

ClearVaultAccount(v, amount, balance) ==
  mapping' = IF amount = balance THEN [mapping EXCEPT ![v] = 0] ELSE mapping

AccountFor(v) == IF ResolveVaultAccount(v) = 0 THEN next_id ELSE ResolveVaultAccount(v)

Deposit(v, amount, loss) ==
  /\ amount > 0
  /\ AccountFor(v) <= MaxId
  /\ ControllerSupply(AccountFor(v), amount - loss)
  /\ SetVaultAccount(v, AccountFor(v))
  /\ next_id' = IF AccountFor(v) = next_id THEN next_id + 1 ELSE next_id
  /\ UNCHANGED now

Withdraw(v, amount) ==
  LET id      == ResolveVaultAccount(v)
      balance == Collateral(id)
      request == WithdrawAmount(amount, balance)
  IN  /\ amount > 0
      /\ id # 0
      /\ amount <= balance
      /\ ControllerWithdraw(id, request)
      /\ ClearVaultAccount(v, amount, balance)
      /\ UNCHANGED <<next_id, now>>

\* Anyone may add to a supply position that exists.
ThirdPartySupply(id, amount) ==
  /\ AccountExists(id)
  /\ ControllerSupply(id, amount)
  /\ UNCHANGED <<mapping, next_id, now>>

\* Interest accrues with the next call, and a borrower's debt may be written off.
TimePasses ==
  /\ now < MaxNow
  /\ now' = now + 1
  /\ UNCHANGED <<market, account, mapping, next_id, calls>>

WriteOff ==
  /\ Synced.borrowed > 0
  /\ SeizeDebtLeg(Synced, Synced.borrowed).ok
  /\ market' = SeizeDebtLeg(Synced, Synced.borrowed).m
  /\ UNCHANGED <<account, mapping, next_id, now, calls>>

\* An amount to withdraw: one of those deposited, or all there is.
Next ==
  \/ \E v \in Vault, amount \in Amounts, loss \in Losses : Deposit(v, amount, loss)
  \/ \E v \in Vault : \E amount \in Amounts \cup {VaultBalance(v)} : Withdraw(v, amount)
  \/ \E id \in DOMAIN account, amount \in Gifts : ThirdPartySupply(id, amount)
  \/ TimePasses
  \/ WriteOff

Spec == Init /\ [][Next]_vars

-----------------------------------------------------------------------------
(* What a vault may rely on.                                                *)

\* The mapping is the only route back to the collateral: through deposits,
\* exits, re-entries and third parties, every open account is the account of
\* exactly one vault, and no vault ever sees the account of another.
OneVaultOneAccount ==
  /\ \A id \in DOMAIN account : Cardinality({v \in Vault : mapping[v] = id}) = 1
  /\ \A v \in Vault : mapping[v] # 0 => AccountExists(mapping[v])

\* Whatever part of its reported balance a vault asks for, the withdrawal succeeds
\* (the other suppliers' cash is in the market) and pays that or one base unit
\* less, the rounding of the report.
PaysToTheUnit ==
  \A v \in Vault : mapping[v] # 0 =>
    LET balance == Collateral(mapping[v])
    IN  \A amount \in 1..balance :
          LET leg == WithdrawalOf(mapping[v], WithdrawAmount(amount, balance))
          IN  leg.ok /\ leg.out \in {amount - 1, amount}

\* A vault can always get at what it deposited, and to the unit.
ClaimsStayReachable == OneVaultOneAccount /\ PaysToTheUnit

=============================================================================
