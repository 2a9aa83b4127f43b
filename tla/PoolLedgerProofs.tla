-------------------------- MODULE PoolLedgerProofs --------------------------
(***************************************************************************)
(* The inductive invariant of the pool, and what keeps it in the parts     *)
(* that operations are made of: batches of legs, transfers, books.  The    *)
(* invariant says of a state of the ledger (the markets, their parameters, *)
(* the books and the tokens) that it is well formed, that the books add    *)
(* up, and that cash is backed by tokens.  It says it twice during a flash *)
(* loan: of the current state, and of the state the transaction returns to *)
(* when it reverts.  At the end, the operations on positions: supply,      *)
(* repay, borrow, withdraw and strategies keep the invariant.              *)
(***************************************************************************)
EXTENDS Pool, PoolLaws, TLAPS

-----------------------------------------------------------------------------
(* The ledger as a predicate on values, so that it speaks of the current    *)
(* state and of a snapshot alike.                                           *)

MarketsOK(mk, pr, time) ==
  /\ DOMAIN mk \subseteq HubAsset /\ DOMAIN pr = DOMAIN mk
  /\ mk \in [DOMAIN mk -> MarketState]
  /\ pr \in [DOMAIN mk -> MarketParams]
  /\ \A h \in DOMAIN mk :
       Sound(mk[h]) /\ pr[h] \in MarketParams /\ Verify(pr[h]) /\ mk[h].last_timestamp <= time

Book == [Account -> [HubAsset -> 0..MaxI128]]

BooksOK(mk, dep, dbt) ==
  /\ dep \in Book /\ dbt \in Book
  /\ \A h \in DOMAIN mk :
       Total(dep, h) = mk[h].supplied - mk[h].revenue /\ Total(dbt, h) = mk[h].borrowed
  /\ \A a \in Account, h \in HubAsset \ DOMAIN mk : dep[a][h] = 0 /\ dbt[a][h] = 0

TokensOK(bal, wal, don) ==
  bal \in [Asset -> Nat] /\ wal \in [Asset -> Nat] /\ don \in [Asset -> Nat]

CashIn(mk, t) == SumFunctionOnSet([h \in DOMAIN mk |-> mk[h].cash], OfAsset(DOMAIN mk, t))

\* lent[t] tokens are out in a flash loan.
Custody(mk, bal, don, lent) ==
  \A t \in Asset : bal[t] + lent[t] = don[t] + CashIn(mk, t)

Lent == [t \in Asset |-> Outstanding(t)]
NothingLent == [t \in Asset |-> 0]

\* What is known while the receiver of a flash loan runs: the copy of the
\* market is what a sync would still give, and the snapshot is a good state.
FlashOK ==
  ~Idle =>
    LET h == flash.hub_asset
        s == flash.start
    IN  /\ h \in Created
        /\ flash.amount \in Nat /\ flash.fee \in Nat
        /\ flash.cache = Synced(h).m
        /\ MarketsOK(s.market, s.params, now)
        /\ BooksOK(s.market, s.deposit, s.debt)
        /\ TokensOK(s.balance, s.wallet, s.donated)
        /\ Custody(s.market, s.balance, s.donated, NothingLent)

IInv ==
  /\ now \in Nat
  /\ MarketsOK(market, params, now)
  /\ BooksOK(market, deposit, debt)
  /\ TokensOK(balance, wallet, donated)
  /\ Custody(market, balance, donated, Lent)
  /\ FlashOK

-----------------------------------------------------------------------------
(* What the steps of the pool need to know of sums over accounts and        *)
(* markets.  The lemmas below take it, and the laws of the legs, as an      *)
(* assumption; PoolProofs derives it.                                       *)

\* Every market of the batch M gets in[h] and pays out[h].
CashMoves(mk, mk2, M, in, out) ==
  /\ \A h \in M : in[h] \in Nat /\ out[h] \in Nat /\ mk2[h].cash = mk[h].cash + in[h] - out[h]
  /\ \A h \in DOMAIN mk \ M : mk2[h].cash = mk[h].cash

\* The total of a book moves with the one account that changes.
TotalUpdateLaw ==
  \A book, book2 \in Book, a \in Account, h \in HubAsset :
    (\A b \in Account \ {a} : book2[b] = book[b]) =>
      Total(book2, h) = Total(book, h) - book[a][h] + book2[a][h]

\* A market nobody has a position in has total zero.
TotalZeroLaw ==
  \A book, h : (\A a \in Account : book[a][h] = 0) => Total(book, h) = 0

\* The cash of a token moves with the legs of a batch.
CashBatchLaw ==
  \A mk, mk2, pr, time, M, in, out, t :
    /\ MarketsOK(mk, pr, time) /\ DOMAIN mk2 = DOMAIN mk
    /\ M \subseteq DOMAIN mk /\ CashMoves(mk, mk2, M, in, out)
    => CashIn(mk2, t) = CashIn(mk, t) + SumFunctionOnSet(in, OfAsset(M, t))
                        - SumFunctionOnSet(out, OfAsset(M, t))

\* What a batch transfers is a number of tokens.
TransfersLaw ==
  \A M, f, t :
    M \subseteq HubAsset /\ (\A h \in M : f[h] \in Nat) => SumFunctionOnSet(f, OfAsset(M, t)) \in Nat

\* mk2 is mk with one more market, which holds no cash.
EmptyMarketAdded(mk, mk2, h) ==
  /\ h \in HubAsset \ DOMAIN mk /\ DOMAIN mk2 = DOMAIN mk \cup {h} /\ mk2[h].cash = 0
  /\ \A g \in DOMAIN mk : mk2[g] = mk[g]

\* A new market starts without cash.
CashNewLaw ==
  \A mk, mk2, pr, time, h, t :
    MarketsOK(mk, pr, time) /\ EmptyMarketAdded(mk, mk2, h) => CashIn(mk2, t) = CashIn(mk, t)

\* The cash of a token is a number of tokens.
CashTypeLaw ==
  \A mk, pr, time, t : MarketsOK(mk, pr, time) => CashIn(mk, t) \in Nat

\* One market changes: the cash of its token moves with it.
CashOneLaw ==
  \A mk, mk2, pr, time, h, t :
    /\ MarketsOK(mk, pr, time) /\ h \in DOMAIN mk /\ DOMAIN mk2 = DOMAIN mk
    /\ \A g \in DOMAIN mk \ {h} : mk2[g] = mk[g]
    /\ mk2[h].cash \in Int
    => CashIn(mk2, t) = CashIn(mk, t) + (IF AssetOf[h] = t THEN mk2[h].cash - mk[h].cash ELSE 0)

Laws == /\ TotalUpdateLaw /\ TotalZeroLaw
        /\ CashBatchLaw /\ TransfersLaw /\ CashNewLaw /\ CashTypeLaw /\ CashOneLaw
        /\ SyncLaw /\ LegLaws

-----------------------------------------------------------------------------
(* The books.                                                               *)

\* Each field of a market is an integer in its range.
LEMMA MarketFields ==
  ASSUME NEW m \in MarketState
  PROVE  /\ m.supplied \in 0..MaxI128 /\ m.borrowed \in 0..MaxI128 /\ m.revenue \in 0..MaxI128
         /\ m.cash \in 0..MaxI128 /\ m.last_timestamp \in Nat
         /\ m.borrow_index \in Ray..MaxIndex /\ m.supply_index \in SupplyIndexFloor..MaxIndex
  BY DEF MarketState

\* The ranges are not empty and hold naturals.
LEMMA MarketRanges ==
  /\ MaxI128 \in Nat /\ Ray \in Nat \ {0} /\ MaxIndex \in Nat /\ SupplyIndexFloor \in Nat \ {0}
  /\ SupplyIndexFloor <= Ray /\ Ray <= MaxIndex /\ MaxIndex <= MaxI128
  BY RayAssumption, IndexAssumption, I128Assumption

\* The market moves by what the positions of one account move.
PositionsMove(m, n, dep, dep2, dbt, dbt2) ==
  /\ (n.supplied - n.revenue) - (m.supplied - m.revenue) = dep2 - dep
  /\ n.borrowed - m.borrowed = dbt2 - dbt

\* A leg that moves a deposit moves the books of one account along.
LEMMA DepositPosition ==
  ASSUME NEW m, NEW n, NEW old, NEW new, NEW dbt \in Int, m.borrowed \in Int, DepositMoves(m, n, old, new)
  PROVE  PositionsMove(m, n, old, new, dbt, dbt)
  BY DEF DepositMoves, PositionsMove

\* A leg that moves a debt does so too.
LEMMA DebtPosition ==
  ASSUME NEW m, NEW n, NEW old, NEW new, NEW dep \in Int, m.supplied \in Int, m.revenue \in Int,
         DebtMoves(m, n, old, new)
  PROVE  PositionsMove(m, n, dep, dep, old, new)
  BY DEF DebtMoves, PositionsMove

\* A market that is left alone leaves the books alone.
LEMMA NoPosition ==
  ASSUME NEW m, NEW dep \in Int, NEW dbt \in Int, m.borrowed \in Int, m.supplied \in Int, m.revenue \in Int
  PROVE  PositionsMove(m, m, dep, dep, dbt, dbt)
  BY DEF PositionsMove

\* What a transaction of account a does to the books, next to the markets.
BooksMove(mk, mk2, dep, dep2, dbt, dbt2, a) ==
  /\ dep2 \in Book /\ dbt2 \in Book
  /\ DOMAIN mk2 = DOMAIN mk
  /\ \A h \in DOMAIN mk : Sound(mk2[h])
  /\ \A b \in Account \ {a} : dep2[b] = dep[b] /\ dbt2[b] = dbt[b]
  /\ \A h \in HubAsset \ DOMAIN mk : dep2[a][h] = 0 /\ dbt2[a][h] = 0
  /\ \A h \in DOMAIN mk : PositionsMove(mk[h], mk2[h], dep[a][h], dep2[a][h], dbt[a][h], dbt2[a][h])

\* The books add up after a step in which one account and its markets move
\* together.
LEMMA BooksStep ==
  ASSUME Laws, NEW mk, NEW mk2, NEW pr, NEW time, NEW dep, NEW dbt, NEW dep2, NEW dbt2,
         MarketsOK(mk, pr, time), BooksOK(mk, dep, dbt),
         NEW a \in Account, BooksMove(mk, mk2, dep, dep2, dbt, dbt2, a)
  PROVE  BooksOK(mk2, dep2, dbt2)
<1> USE DEF BooksMove
<1>1. ASSUME NEW h \in DOMAIN mk2
      PROVE  Total(dep2, h) = mk2[h].supplied - mk2[h].revenue /\ Total(dbt2, h) = mk2[h].borrowed
  <2>1. h \in HubAsset /\ h \in DOMAIN mk
    BY DEF MarketsOK
  <2>2. /\ Total(dep2, h) = Total(dep, h) - dep[a][h] + dep2[a][h]
        /\ Total(dbt2, h) = Total(dbt, h) - dbt[a][h] + dbt2[a][h]
    BY <2>1 DEF BooksOK, Laws, TotalUpdateLaw
  <2>3. Total(dep, h) = mk[h].supplied - mk[h].revenue /\ Total(dbt, h) = mk[h].borrowed
    BY <2>1 DEF BooksOK
  <2>4. /\ dep[a][h] \in Int /\ dep2[a][h] \in Int /\ dbt[a][h] \in Int /\ dbt2[a][h] \in Int
    BY <2>1, MarketRanges DEF BooksOK, Book
  <2>5. Sound(mk[h]) /\ Sound(mk2[h])
    BY <2>1 DEF MarketsOK
  <2>6. /\ mk[h].supplied \in Int /\ mk[h].revenue \in Int /\ mk[h].borrowed \in Int
        /\ mk2[h].supplied \in Int /\ mk2[h].revenue \in Int /\ mk2[h].borrowed \in Int
    BY <2>5, MarketFields, MarketRanges DEF Sound
  <2>7. PositionsMove(mk[h], mk2[h], dep[a][h], dep2[a][h], dbt[a][h], dbt2[a][h])
    BY <2>1
  <2>8. /\ (mk2[h].supplied - mk2[h].revenue) - (mk[h].supplied - mk[h].revenue) = dep2[a][h] - dep[a][h]
        /\ mk2[h].borrowed - mk[h].borrowed = dbt2[a][h] - dbt[a][h]
    BY <2>7 DEF PositionsMove
  <2>9. Total(dep2, h) = mk2[h].supplied - mk2[h].revenue
    BY <2>2, <2>3, <2>4, <2>6, <2>8
  <2>10. Total(dbt2, h) = mk2[h].borrowed
    BY <2>2, <2>3, <2>4, <2>6, <2>8
  <2> QED
    BY <2>9, <2>10
<1>2. ASSUME NEW b \in Account, NEW h \in HubAsset \ DOMAIN mk2
      PROVE  dep2[b][h] = 0 /\ dbt2[b][h] = 0
  BY DEF BooksOK
<1> QED
  BY <1>1, <1>2 DEF BooksOK

-----------------------------------------------------------------------------
(* The cash books.                                                          *)

\* The cash of a token stays when no market moves its own.
LEMMA CashSame ==
  ASSUME NEW mk, NEW mk2, NEW pr, NEW time, MarketsOK(mk, pr, time), DOMAIN mk2 = DOMAIN mk,
         \A h \in DOMAIN mk : mk2[h].cash = mk[h].cash, NEW t
  PROVE  CashIn(mk2, t) = CashIn(mk, t)
<1> DEFINE S == OfAsset(DOMAIN mk, t)
           f == [h \in DOMAIN mk |-> mk[h].cash]
           g == [h \in DOMAIN mk |-> mk2[h].cash]
<1>1. f = g
  OBVIOUS
<1>2. CashIn(mk, t) = SumFunctionOnSet(f, S) /\ CashIn(mk2, t) = SumFunctionOnSet(g, S)
  BY DEF CashIn
<1> HIDE DEF f, g
<1> QED
  BY <1>1, <1>2

-----------------------------------------------------------------------------
(* One transaction.                                                         *)

\* A market and its synced copy are sound, and they differ by accrual only.
LEMMA SyncedSound ==
  ASSUME Laws, IInv, NEW h \in Created
  PROVE  /\ h \in HubAsset /\ params[h] \in MarketParams /\ Verify(params[h])
         /\ Sound(market[h]) /\ market[h].last_timestamp <= now
         /\ Synced(h).ok \in BOOLEAN
         /\ Accrued(market[h], Synced(h).m) /\ Sound(Synced(h).m)
         /\ Synced(h).m.last_timestamp = now
<1>1. /\ h \in HubAsset /\ params[h] \in MarketParams /\ Verify(params[h])
      /\ Sound(market[h]) /\ market[h].last_timestamp <= now /\ now \in Nat
  BY DEF IInv, MarketsOK, Created
<1>2. /\ Synced(h).ok \in BOOLEAN
      /\ Accrued(market[h], Synced(h).m)
      /\ Synced(h).m.last_timestamp = now
  BY <1>1 DEF Synced, Laws, SyncLaw
<1> QED
  BY <1>1, <1>2 DEF Accrued

\* Replacing markets by sound ones keeps the markets well formed.
LEMMA MarketsStep ==
  ASSUME NEW mk, NEW mk2, NEW pr, NEW time, MarketsOK(mk, pr, time),
         mk2 = [h \in DOMAIN mk |-> mk2[h]],
         \A h \in DOMAIN mk : Sound(mk2[h]) /\ mk2[h].last_timestamp <= time
  PROVE  MarketsOK(mk2, pr, time) /\ DOMAIN mk2 = DOMAIN mk
<1>1. DOMAIN mk2 = DOMAIN mk
  OBVIOUS
<1>2. \A h \in DOMAIN mk : mk2[h] \in MarketState
  BY DEF Sound
<1>3. mk2 \in [DOMAIN mk2 -> MarketState]
  BY <1>1, <1>2
<1> QED
  BY <1>1, <1>3 DEF MarketsOK

\* Without a flash loan in progress the invariant is about the ledger only.
LEMMA IdleStep ==
  ASSUME Idle', (now \in Nat)', MarketsOK(market, params, now)', BooksOK(market, deposit, debt)',
         TokensOK(balance, wallet, donated)', Custody(market, balance, donated, NothingLent)'
  PROVE  IInv'
<1>1. Lent' = NothingLent'
  BY DEF Lent, NothingLent, Outstanding
<1> QED
  BY <1>1 DEF IInv, FlashOK

\* Outside a flash loan the tokens held back all cash.
LEMMA NothingIsLent ==
  ASSUME IInv, Idle
  PROVE  Custody(market, balance, donated, NothingLent)
<1>1. Lent = NothingLent
  BY DEF Lent, NothingLent, Outstanding
<1> QED
  BY <1>1 DEF IInv

\* The transfers of a batch keep cash backed when every leg moves cash by what
\* it transfers.
LEMMA MoveSound ==
  ASSUME Laws, IInv, Idle, NEW leg, DOMAIN leg \subseteq Created, NEW in,
         DOMAIN market' = Created,
         \A h \in DOMAIN leg : in[h] \in Nat /\ leg[h].out \in Nat
                               /\ market'[h].cash = market[h].cash + in[h] - leg[h].out,
         \A h \in Created \ DOMAIN leg : market'[h].cash = market[h].cash,
         Move(leg, in)
  PROVE  /\ TokensOK(balance, wallet, donated)'
         /\ Custody(market, balance, donated, NothingLent)'
<1> DEFINE out == [h \in DOMAIN leg |-> leg[h].out]
           M == DOMAIN leg
           In(t) == SumFunctionOnSet(in, OfAsset(M, t))
           Out(t) == SumFunctionOnSet(out, OfAsset(M, t))
<1>1. MarketsOK(market, params, now) /\ TokensOK(balance, wallet, donated)
  BY DEF IInv
<1>2. CashMoves(market, market', M, in, out)
  BY DEF CashMoves, Created
<1>3. ASSUME NEW t \in Asset
      PROVE  CashIn(market', t) = CashIn(market, t) + In(t) - Out(t)
  BY <1>1, <1>2 DEF Created, Laws, CashBatchLaw
<1>4. ASSUME NEW t \in Asset
      PROVE  In(t) \in Nat /\ Out(t) \in Nat
  <2>0. M \subseteq HubAsset
    BY <1>1 DEF MarketsOK, Created
  <2>1. \A h \in M : in[h] \in Nat /\ out[h] \in Nat
    OBVIOUS
  <2> HIDE DEF out, M
  <2> QED
    BY <2>0, <2>1 DEF Laws, TransfersLaw
<1>5. /\ \A t \in Asset : In(t) <= wallet[t] /\ Out(t) <= balance[t] + In(t)
      /\ balance' = [t \in Asset |-> balance[t] + In(t) - Out(t)]
      /\ wallet' = [t \in Asset |-> wallet[t] - In(t) + Out(t)]
      /\ donated' = donated
  BY DEF Move
<1>6. \A t \in Asset : balance[t] \in Nat /\ wallet[t] \in Nat /\ donated[t] \in Nat
  BY <1>1 DEF TokensOK
<1>7. TokensOK(balance', wallet', donated')
  <2>1. \A t \in Asset : balance[t] + In(t) - Out(t) \in Nat /\ wallet[t] - In(t) + Out(t) \in Nat
    BY <1>4, <1>5, <1>6
  <2> QED
    BY <1>1, <1>5, <2>1 DEF TokensOK
<1>8. ASSUME NEW t \in Asset
      PROVE  balance'[t] + NothingLent[t] = donated'[t] + CashIn(market', t)
  <2>1. balance[t] + 0 = donated[t] + CashIn(market, t)
    BY NothingIsLent DEF Custody, NothingLent
  <2>2. CashIn(market, t) \in Nat
    BY <1>1 DEF Laws, CashTypeLaw
  <2>3. balance'[t] = balance[t] + In(t) - Out(t) /\ NothingLent[t] = 0
    BY <1>5 DEF NothingLent
  <2>4. In(t) \in Nat /\ Out(t) \in Nat /\ balance[t] \in Nat /\ donated[t] \in Nat
    BY <1>4, <1>6
  <2>5. CashIn(market', t) = CashIn(market, t) + In(t) - Out(t)
    BY <1>3
  <2> QED
    BY <1>5, <2>1, <2>2, <2>3, <2>4, <2>5
<1>9. NothingLent' = NothingLent
  BY DEF NothingLent
<1> QED
  BY <1>7, <1>8, <1>9 DEF Custody

\* What no step does to a market, a revert of a flash loan aside: strand debt
\* without supply, lower the borrow index, or lower the supply index other than
\* in a write-off of debt that moves no cash.
MarketMove(m, n) ==
  /\ m.supplied > 0 /\ n.supplied = 0 => n.borrowed = 0
  /\ n.borrow_index >= m.borrow_index
  /\ n.supply_index < m.supply_index => n.borrowed < m.borrowed /\ n.cash = m.cash

MarketsMove == \A h \in Created : MarketMove(market[h], market'[h])

\* The fields of a sound market are integers.
LEMMA FieldIntegers ==
  ASSUME NEW m, Sound(m)
  PROVE  /\ m.supplied \in Int /\ m.borrowed \in Int /\ m.revenue \in Int /\ m.cash \in Int
         /\ m.borrow_index \in Int /\ m.supply_index \in Int
<1>1. /\ m.supplied \in 0..MaxI128 /\ m.borrowed \in 0..MaxI128 /\ m.revenue \in 0..MaxI128
      /\ m.cash \in 0..MaxI128
      /\ m.borrow_index \in Ray..MaxIndex /\ m.supply_index \in SupplyIndexFloor..MaxIndex
  BY MarketFields DEF Sound
<1> QED
  BY <1>1

\* Interest alone moves a market this way, and so does every settled leg on
\* top of it.
LEMMA AccrualMoves ==
  ASSUME NEW m, Sound(m), NEW n, n = m \/ Accrued(m, n)
  PROVE  MarketMove(m, n)
<1>1. Sound(n) /\ n.supplied >= m.supplied
      /\ n.borrow_index >= m.borrow_index /\ n.supply_index >= m.supply_index
  BY FieldIntegers DEF Accrued
<1>2. m.supplied \in Int /\ n.supplied \in Int /\ m.supply_index \in Int /\ n.supply_index \in Int
  BY <1>1, FieldIntegers
<1> QED
  BY <1>1, <1>2 DEF MarketMove

\* So does a settled leg on top of the interest.
LEMMA SettlementMoves ==
  ASSUME NEW m, Sound(m), NEW s, Accrued(m, s), NEW n, NEW in, NEW out, Settled(s, n, in, out)
  PROVE  MarketMove(m, n)
<1>1. /\ Sound(s) /\ s.supplied >= m.supplied
      /\ s.borrow_index >= m.borrow_index /\ s.supply_index >= m.supply_index
      /\ n.borrow_index = s.borrow_index /\ n.supply_index = s.supply_index
      /\ s.supplied > 0 /\ n.supplied = 0 => n.borrowed = 0
  BY DEF Accrued, Settled
<1>2. m.supplied \in Int /\ s.supplied \in Int /\ m.supply_index \in Int /\ s.supply_index \in Int
  BY <1>1, FieldIntegers
<1> QED
  BY <1>1, <1>2 DEF MarketMove

\* A batch of legs, committed and paid, keeps the markets and the custody.
LEMMA BatchSound ==
  ASSUME Laws, IInv, Idle, NEW leg, DOMAIN leg \subseteq Created, NEW in,
         \A h \in DOMAIN leg : in[h] \in Nat /\ Settled(Synced(h).m, leg[h].m, in[h], leg[h].out),
         Commit(leg), Move(leg, in), UNCHANGED <<params, now>>
  PROVE  /\ MarketsOK(market, params, now)'
         /\ TokensOK(balance, wallet, donated)'
         /\ Custody(market, balance, donated, NothingLent)'
         /\ DOMAIN market' = Created
         /\ \A h \in DOMAIN leg : market'[h] = leg[h].m
         /\ \A h \in Created \ DOMAIN leg : market'[h] = market[h]
         /\ MarketsMove
<1>1. market' = [h \in Created |-> IF h \in DOMAIN leg THEN leg[h].m ELSE market[h]]
  BY DEF Commit
<1>2. ASSUME NEW h \in DOMAIN leg
      PROVE  /\ Sound(market'[h]) /\ market'[h].last_timestamp = now
             /\ in[h] \in Nat /\ leg[h].out \in Nat
             /\ market'[h].cash = market[h].cash + in[h] - leg[h].out
             /\ MarketMove(market[h], market'[h])
  <2>1. h \in Created /\ market'[h] = leg[h].m
    BY <1>1
  <2>2. in[h] \in Nat /\ Settled(Synced(h).m, leg[h].m, in[h], leg[h].out)
    BY Zenon
  <2>3. /\ Sound(leg[h].m) /\ leg[h].m.last_timestamp = now /\ leg[h].out \in Nat
        /\ leg[h].m.cash = market[h].cash + in[h] - leg[h].out
    <3>1. Accrued(market[h], Synced(h).m) /\ Synced(h).m.last_timestamp = now
      BY <2>1, SyncedSound, Zenon
    <3> QED
      BY <2>2, <3>1, Zenon DEF Settled, Accrued
  <2>4. MarketMove(market[h], leg[h].m)
    <3>1. Accrued(market[h], Synced(h).m) /\ Sound(market[h])
      BY <2>1, SyncedSound
    <3> QED
      BY <2>2, <3>1, SettlementMoves
  <2> QED
    BY <2>1, <2>2, <2>3, <2>4
<1>3. ASSUME NEW h \in Created \ DOMAIN leg
      PROVE  market'[h] = market[h]
  BY <1>1, Zenon
<1>4. now \in Nat /\ MarketsOK(market, params, now)
  BY DEF IInv
<1>5. \A h \in Created : Sound(market'[h]) /\ market'[h].last_timestamp <= now
  BY <1>2, <1>3, <1>4 DEF MarketsOK, Created
<1>6. market' = [h \in DOMAIN market |-> market'[h]]
  BY <1>1 DEF Created
<1>7. MarketsOK(market', params, now) /\ DOMAIN market' = DOMAIN market
  BY <1>4, <1>5, <1>6, MarketsStep, Zenon DEF Created
<1>8. /\ TokensOK(balance, wallet, donated)'
      /\ Custody(market, balance, donated, NothingLent)'
  BY <1>2, <1>3, <1>7, MoveSound, Zenon DEF Created
<1>9. \A h \in Created \ DOMAIN leg : MarketMove(market[h], market'[h])
  BY <1>3, SyncedSound, AccrualMoves
<1>10. MarketsMove
  BY <1>2, <1>9 DEF MarketsMove
<1> QED
  BY <1>1, <1>7, <1>8, <1>10 DEF Created

\* The positions that a batch hands back.
LEMMA RebookSound ==
  ASSUME NEW book \in Book, NEW a \in Account, NEW leg, DOMAIN leg \subseteq HubAsset,
         \A h \in DOMAIN leg : leg[h].position \in 0..MaxI128
  PROVE  /\ Rebook(book, a, leg) \in Book
         /\ \A b \in Account \ {a} : Rebook(book, a, leg)[b] = book[b]
         /\ \A h \in DOMAIN leg : Rebook(book, a, leg)[a][h] = leg[h].position
         /\ \A h \in HubAsset \ DOMAIN leg : Rebook(book, a, leg)[a][h] = book[a][h]
<1> DEFINE row == [h \in HubAsset |-> IF h \in DOMAIN leg THEN leg[h].position ELSE book[a][h]]
<1>1. row \in [HubAsset -> 0..MaxI128]
  BY DEF Book
<1>2. Rebook(book, a, leg) = [book EXCEPT ![a] = row]
  BY DEF Rebook
<1>3. /\ \A h \in DOMAIN leg : row[h] = leg[h].position
      /\ \A h \in HubAsset \ DOMAIN leg : row[h] = book[a][h]
  OBVIOUS
<1> HIDE DEF row
<1> QED
  BY <1>1, <1>2, <1>3 DEF Book

\* A market that was only accrued carries the same books.
LEMMA SyncedBooks ==
  ASSUME Laws, IInv, NEW h \in Created, NEW n, NEW d, NEW d2, NEW b, NEW b2,
         PositionsMove(Synced(h).m, n, d, d2, b, b2)
  PROVE  PositionsMove(market[h], n, d, d2, b, b2)
<1>1. Accrued(market[h], Synced(h).m)
  BY SyncedSound, Zenon
<1> QED
  BY <1>1 DEF PositionsMove, Accrued

\* The legs of a batch that rebooks the deposits of account a.
DepositLegs(a, leg, in) ==
  /\ DOMAIN leg \subseteq Created
  /\ \A h \in DOMAIN leg :
       /\ in[h] \in Nat /\ Settled(Synced(h).m, leg[h].m, in[h], leg[h].out)
       /\ DepositMoves(Synced(h).m, leg[h].m, deposit[a][h], leg[h].position)
  /\ Commit(leg) /\ Move(leg, in) /\ deposit' = Rebook(deposit, a, leg)
  /\ UNCHANGED <<params, debt, flash, now>>

\* A batch that rebooks deposits keeps the invariant.
LEMMA DepositBatch ==
  ASSUME Laws, IInv, Idle, NEW a \in Account, NEW leg, NEW in, DepositLegs(a, leg, in)
  PROVE  IInv' /\ MarketsMove
<1>1. /\ MarketsOK(market, params, now)'
      /\ TokensOK(balance, wallet, donated)'
      /\ Custody(market, balance, donated, NothingLent)'
      /\ DOMAIN market' = Created
      /\ \A h \in DOMAIN leg : market'[h] = leg[h].m
      /\ \A h \in Created \ DOMAIN leg : market'[h] = market[h]
      /\ MarketsMove
  BY BatchSound DEF DepositLegs
<1>2. MarketsOK(market, params, now) /\ BooksOK(market, deposit, debt) /\ now \in Nat
  BY DEF IInv
<1>3. deposit \in Book /\ debt \in Book /\ Created \subseteq HubAsset
  BY <1>2 DEF BooksOK, MarketsOK, Created
<1>4. \A h \in DOMAIN leg : leg[h].position \in 0..MaxI128
  BY Zenon DEF DepositMoves, DepositLegs
<1>5. /\ deposit' \in Book
      /\ \A b \in Account \ {a} : deposit'[b] = deposit[b]
      /\ \A h \in DOMAIN leg : deposit'[a][h] = leg[h].position
      /\ \A h \in HubAsset \ DOMAIN leg : deposit'[a][h] = deposit[a][h]
  BY <1>3, <1>4, RebookSound DEF DepositLegs
<1>6. ASSUME NEW h \in Created
      PROVE  PositionsMove(market[h], market'[h], deposit[a][h], deposit'[a][h], debt[a][h], debt'[a][h])
  <2>1. h \in HubAsset /\ deposit[a][h] \in Int /\ debt[a][h] \in Int /\ debt' = debt
    BY <1>3, MarketRanges DEF Book, DepositLegs
  <2>2. CASE h \in DOMAIN leg
    <3>1. DepositMoves(Synced(h).m, leg[h].m, deposit[a][h], leg[h].position) /\ Sound(Synced(h).m)
      BY <2>2, SyncedSound DEF DepositLegs
    <3>2. Synced(h).m.borrowed \in Int
      BY <3>1, MarketFields, MarketRanges DEF Sound
    <3>3. PositionsMove(Synced(h).m, leg[h].m, deposit[a][h], leg[h].position, debt[a][h], debt[a][h])
      BY <2>1, <3>1, <3>2, DepositPosition, Zenon
    <3>4. PositionsMove(market[h], leg[h].m, deposit[a][h], leg[h].position, debt[a][h], debt[a][h])
      BY <2>2, <3>3, SyncedBooks DEF DepositLegs
    <3> QED
      BY <1>1, <1>5, <2>1, <2>2, <3>4, Zenon
  <2>3. CASE h \notin DOMAIN leg
    <3>1. market'[h] = market[h] /\ deposit'[a][h] = deposit[a][h] /\ Sound(market[h])
      BY <1>1, <1>5, <2>1, <2>3, SyncedSound, Zenon
    <3>2. market[h].borrowed \in Int /\ market[h].supplied \in Int /\ market[h].revenue \in Int
      BY <3>1, MarketFields, MarketRanges DEF Sound
    <3> QED
      BY <2>1, <3>1, <3>2, NoPosition, Zenon
  <2> QED
    BY <2>2, <2>3
<1>7. BooksOK(market, deposit, debt)'
  <2>1. \A h \in HubAsset \ DOMAIN market : deposit'[a][h] = 0 /\ debt'[a][h] = 0
    BY <1>2, <1>5 DEF BooksOK, Created, DepositLegs
  <2>2. \A h \in DOMAIN market : Sound(market'[h])
    BY <1>1, Zenon DEF MarketsOK, Created
  <2>3. \A b \in Account \ {a} : deposit'[b] = deposit[b] /\ debt'[b] = debt[b]
    BY <1>5 DEF DepositLegs
  <2>4. debt' \in Book /\ deposit' \in Book
    BY <1>3, <1>5, Zenon DEF DepositLegs
  <2>5. DOMAIN market' = DOMAIN market /\ DOMAIN market = Created
    BY <1>1, Zenon DEF Created
  <2>6. BooksMove(market, market', deposit, deposit', debt, debt', a)
    BY <1>6, <2>1, <2>2, <2>3, <2>4, <2>5 DEF BooksMove
  <2>7. BooksOK(market', deposit', debt')
    BY <1>2, <2>6, BooksStep, Zenon
  <2> QED
    BY <2>7, Zenon
<1> QED
  BY <1>1, <1>2, <1>7, IdleStep, Zenon DEF Idle, DepositLegs

\* The legs of a batch that rebooks the debts of account a.
DebtLegs(a, leg, in) ==
  /\ DOMAIN leg \subseteq Created
  /\ \A h \in DOMAIN leg :
       /\ in[h] \in Nat /\ Settled(Synced(h).m, leg[h].m, in[h], leg[h].out)
       /\ DebtMoves(Synced(h).m, leg[h].m, debt[a][h], leg[h].position)
  /\ Commit(leg) /\ Move(leg, in) /\ debt' = Rebook(debt, a, leg)
  /\ UNCHANGED <<params, deposit, flash, now>>

\* A batch that rebooks debts keeps the invariant.
LEMMA DebtBatch ==
  ASSUME Laws, IInv, Idle, NEW a \in Account, NEW leg, NEW in, DebtLegs(a, leg, in)
  PROVE  IInv' /\ MarketsMove
<1>1. /\ MarketsOK(market, params, now)'
      /\ TokensOK(balance, wallet, donated)'
      /\ Custody(market, balance, donated, NothingLent)'
      /\ DOMAIN market' = Created
      /\ \A h \in DOMAIN leg : market'[h] = leg[h].m
      /\ \A h \in Created \ DOMAIN leg : market'[h] = market[h]
      /\ MarketsMove
  BY BatchSound DEF DebtLegs
<1>2. MarketsOK(market, params, now) /\ BooksOK(market, deposit, debt) /\ now \in Nat
  BY DEF IInv
<1>3. debt \in Book /\ deposit \in Book /\ Created \subseteq HubAsset
  BY <1>2 DEF BooksOK, MarketsOK, Created
<1>4. \A h \in DOMAIN leg : leg[h].position \in 0..MaxI128
  BY Zenon DEF DebtMoves, DebtLegs
<1>5. /\ debt' \in Book
      /\ \A b \in Account \ {a} : debt'[b] = debt[b]
      /\ \A h \in DOMAIN leg : debt'[a][h] = leg[h].position
      /\ \A h \in HubAsset \ DOMAIN leg : debt'[a][h] = debt[a][h]
  BY <1>3, <1>4, RebookSound DEF DebtLegs
<1>6. ASSUME NEW h \in Created
      PROVE  PositionsMove(market[h], market'[h], deposit[a][h], deposit'[a][h], debt[a][h], debt'[a][h])
  <2>1. h \in HubAsset /\ debt[a][h] \in Int /\ deposit[a][h] \in Int /\ deposit' = deposit
    BY <1>3, MarketRanges DEF Book, DebtLegs
  <2>2. CASE h \in DOMAIN leg
    <3>1. DebtMoves(Synced(h).m, leg[h].m, debt[a][h], leg[h].position) /\ Sound(Synced(h).m)
      BY <2>2, SyncedSound DEF DebtLegs
    <3>2. Synced(h).m.supplied \in Int /\ Synced(h).m.revenue \in Int
      BY <3>1, MarketFields, MarketRanges DEF Sound
    <3>3. PositionsMove(Synced(h).m, leg[h].m, deposit[a][h], deposit[a][h], debt[a][h], leg[h].position)
      BY <2>1, <3>1, <3>2, DebtPosition, Zenon
    <3>4. PositionsMove(market[h], leg[h].m, deposit[a][h], deposit[a][h], debt[a][h], leg[h].position)
      BY <2>2, <3>3, SyncedBooks, Zenon DEF DebtLegs
    <3> QED
      BY <1>1, <1>5, <2>1, <2>2, <3>4, Zenon
  <2>3. CASE h \notin DOMAIN leg
    <3>1. market'[h] = market[h] /\ debt'[a][h] = debt[a][h] /\ Sound(market[h])
      BY <1>1, <1>5, <2>1, <2>3, SyncedSound, Zenon
    <3>2. market[h].borrowed \in Int /\ market[h].supplied \in Int /\ market[h].revenue \in Int
      BY <3>1, MarketFields, MarketRanges DEF Sound
    <3> QED
      BY <2>1, <3>1, <3>2, NoPosition, Zenon
  <2> QED
    BY <2>2, <2>3
<1>7. BooksOK(market, deposit, debt)'
  <2>1. \A h \in HubAsset \ DOMAIN market : debt'[a][h] = 0 /\ deposit'[a][h] = 0
    BY <1>2, <1>5, Zenon DEF BooksOK, Created, DebtLegs
  <2>2. \A h \in DOMAIN market : Sound(market'[h])
    BY <1>1 DEF MarketsOK, Created
  <2>3. \A b \in Account \ {a} : deposit'[b] = deposit[b] /\ debt'[b] = debt[b]
    BY <1>5, Zenon DEF DebtLegs
  <2>4. deposit' \in Book /\ debt' \in Book
    BY <1>3, <1>5 DEF DebtLegs
  <2>5. DOMAIN market' = DOMAIN market /\ DOMAIN market = Created
    BY <1>1 DEF Created
  <2>6. BooksMove(market, market', deposit, deposit', debt, debt', a)
    BY <1>6, <2>1, <2>2, <2>3, <2>4, <2>5 DEF BooksMove
  <2>7. BooksOK(market', deposit', debt')
    BY <1>2, <2>6, BooksStep
  <2> QED
    BY <2>7
<1> QED
  BY <1>1, <1>2, <1>7, IdleStep, Zenon DEF Idle, DebtLegs

\* What a transaction of account a that moves no tokens does to the markets,
\* and to the books.
QuietMarkets(a) ==
  /\ market' = [h \in Created |-> market'[h]]
  /\ \A h \in Created :
       /\ Sound(market'[h]) /\ market'[h].last_timestamp <= now
       /\ market'[h].cash = market[h].cash /\ MarketMove(market[h], market'[h])
       /\ PositionsMove(market[h], market'[h], deposit[a][h], deposit'[a][h], debt[a][h], debt'[a][h])

QuietBooks(a) ==
  /\ deposit' \in Book /\ debt' \in Book
  /\ \A b \in Account \ {a} : deposit'[b] = deposit[b] /\ debt'[b] = debt[b]
  /\ \A h \in HubAsset \ Created : deposit'[a][h] = 0 /\ debt'[a][h] = 0

\* A step of one account without transfers keeps the invariant.
LEMMA QuietStep ==
  ASSUME Laws, IInv, Idle, NEW a \in Account, QuietMarkets(a), QuietBooks(a),
         UNCHANGED <<params, tokens, flash, now>>
  PROVE  IInv' /\ MarketsMove
<1> USE DEF QuietMarkets, QuietBooks
<1>1. /\ MarketsOK(market, params, now) /\ BooksOK(market, deposit, debt) /\ now \in Nat
      /\ TokensOK(balance, wallet, donated)
  BY DEF IInv
<1>2. MarketsOK(market', params, now) /\ DOMAIN market' = DOMAIN market
  BY <1>1, MarketsStep DEF Created
<1>a. BooksMove(market, market', deposit, deposit', debt, debt', a)
  BY <1>1, <1>2 DEF Created, BooksMove
<1>3. BooksOK(market', deposit', debt')
  BY <1>1, <1>a, BooksStep
<1>4. \A t \in Asset : CashIn(market', t) = CashIn(market, t)
  BY <1>1, <1>2, CashSame DEF Created
<1>5. Custody(market', balance, donated, NothingLent)
  BY <1>4, NothingIsLent DEF Custody
<1>6. NothingLent' = NothingLent
  BY DEF NothingLent
<1>7. MarketsMove
  BY DEF MarketsMove
<1> QED
  BY <1>1, <1>2, <1>3, <1>5, <1>6, <1>7, IdleStep DEF Idle, tokens

\* The books stand when no market moves the shares of the users.
LEMMA BooksSame ==
  ASSUME NEW mk, NEW mk2, NEW dep, NEW dbt, BooksOK(mk, dep, dbt), DOMAIN mk2 = DOMAIN mk,
         \A h \in DOMAIN mk : BooksKept(mk[h], mk2[h])
  PROVE  BooksOK(mk2, dep, dbt)
  BY DEF BooksOK, BooksKept

\* Keeping the user shares of the synced copy keeps those of the market.
LEMMA BooksKeptSynced ==
  ASSUME Laws, IInv, NEW h \in Created, NEW n, BooksKept(Synced(h).m, n)
  PROVE  BooksKept(market[h], n)
<1>1. Accrued(market[h], Synced(h).m)
  BY SyncedSound
<1> QED
  BY <1>1 DEF BooksKept, Accrued

-----------------------------------------------------------------------------
(* Positions.                                                               *)

\* A batch names created markets.
LEMMA BatchType ==
  ASSUME NEW S, NEW batch \in Batches(S)
  PROVE  DOMAIN batch \subseteq Created /\ \A h \in DOMAIN batch : batch[h] \in S
  BY Zenon DEF Batches

\* What a leg is given: a synced market and a position of the books.
LEMMA LegGiven ==
  ASSUME Laws, IInv, NEW h \in Created, NEW a \in Account
  PROVE  /\ Sound(Synced(h).m) /\ params[h] \in MarketParams
         /\ deposit[a][h] \in 0..MaxI128 /\ debt[a][h] \in 0..MaxI128
<1>1. Sound(Synced(h).m) /\ params[h] \in MarketParams /\ h \in HubAsset
  BY SyncedSound, Zenon
<1>2. deposit \in Book /\ debt \in Book
  BY Zenon DEF IInv, BooksOK
<1> QED
  BY <1>1, <1>2, Zenon DEF Book

\* supply keeps the invariant.
LEMMA SupplyInv ==
  ASSUME Laws, IInv, NEW a \in Account, NEW batch \in Batches(Amount), Supply(a, batch)
  PROVE  IInv' /\ MarketsMove
<1> DEFINE leg == [h \in DOMAIN batch |-> SupplyLeg(params[h], Synced(h).m, deposit[a][h], batch[h])]
           in  == batch
<1>1. /\ Idle /\ AllOk(leg) /\ Commit(leg) /\ Move(leg, in) /\ deposit' = Rebook(deposit, a, leg)
      /\ UNCHANGED <<params, debt, flash, now>>
  BY DEF Supply
<1>2. DOMAIN batch \subseteq Created /\ \A h \in DOMAIN batch : batch[h] \in Amount
  BY BatchType, Zenon
<1>3. DOMAIN leg = DOMAIN batch
  OBVIOUS
<1>4. ASSUME NEW h \in DOMAIN leg
      PROVE  /\ in[h] \in Nat /\ Settled(Synced(h).m, leg[h].m, in[h], leg[h].out)
             /\ DepositMoves(Synced(h).m, leg[h].m, deposit[a][h], leg[h].position)
  <2>1. h \in Created /\ batch[h] \in Amount
    BY <1>2, Zenon
  <2>2. Sound(Synced(h).m) /\ params[h] \in MarketParams /\ deposit[a][h] \in 0..MaxI128
    BY <2>1, LegGiven, Zenon
  <2>3. leg[h] = SupplyLeg(params[h], Synced(h).m, deposit[a][h], batch[h]) /\ leg[h].ok
    BY <1>1 DEF AllOk
  <2>4. batch[h] \in Nat
    BY <2>1, AmountAssumption, MarketRanges, ZenonT(20)
  <2> HIDE DEF leg
  <2>5. Settled(Synced(h).m, leg[h].m, batch[h], leg[h].out)
        /\ DepositMoves(Synced(h).m, leg[h].m, deposit[a][h], leg[h].position)
    BY <2>2, <2>3, <2>4, Zenon DEF Laws, LegLaws, SupplyLegLaw
  <2> QED
    BY <1>3, <2>4, <2>5
<1> HIDE DEF leg, in
<1> QED
  BY <1>1, <1>2, <1>3, <1>4, DepositBatch, Zenon DEF DepositLegs

\* repay keeps the invariant.
LEMMA RepayInv ==
  ASSUME Laws, IInv, NEW a \in Account, NEW batch \in Batches(Amount), Repay(a, batch)
  PROVE  IInv' /\ MarketsMove
<1> DEFINE leg == [h \in DOMAIN batch |-> RepayLeg(params[h], Synced(h).m, debt[a][h], batch[h])]
           in  == batch
<1>1. /\ Idle /\ AllOk(leg) /\ Commit(leg) /\ Move(leg, in) /\ debt' = Rebook(debt, a, leg)
      /\ UNCHANGED <<params, deposit, flash, now>>
  BY DEF Repay
<1>2. DOMAIN batch \subseteq Created /\ \A h \in DOMAIN batch : batch[h] \in Amount
  BY BatchType
<1>3. DOMAIN leg = DOMAIN batch
  OBVIOUS
<1>4. ASSUME NEW h \in DOMAIN leg
      PROVE  /\ in[h] \in Nat /\ Settled(Synced(h).m, leg[h].m, in[h], leg[h].out)
             /\ DebtMoves(Synced(h).m, leg[h].m, debt[a][h], leg[h].position)
  <2>1. h \in Created /\ batch[h] \in Amount
    BY <1>2, Zenon
  <2>2. Sound(Synced(h).m) /\ params[h] \in MarketParams /\ debt[a][h] \in 0..MaxI128
    BY <2>1, LegGiven, Zenon
  <2>3. leg[h] = RepayLeg(params[h], Synced(h).m, debt[a][h], batch[h]) /\ leg[h].ok
    BY <1>1 DEF AllOk
  <2>4. batch[h] \in Nat
    BY <2>1, AmountAssumption, MarketRanges, ZenonT(20)
  <2> HIDE DEF leg
  <2>5. Settled(Synced(h).m, leg[h].m, batch[h], leg[h].out)
        /\ DebtMoves(Synced(h).m, leg[h].m, debt[a][h], leg[h].position)
    BY <2>2, <2>3, <2>4 DEF Laws, LegLaws, RepayLegLaw
  <2> QED
    BY <1>3, <2>4, <2>5
<1> HIDE DEF leg, in
<1> QED
  BY <1>1, <1>2, <1>3, <1>4, DebtBatch DEF DebtLegs

\* borrow keeps the invariant.
LEMMA BorrowInv ==
  ASSUME Laws, IInv, NEW a \in Account, NEW batch \in Batches(Amount \ {0}), Borrow(a, batch)
  PROVE  IInv' /\ MarketsMove
<1> DEFINE leg == [h \in DOMAIN batch |-> BorrowLeg(params[h], Synced(h).m, debt[a][h], batch[h])]
           in  == [h \in DOMAIN leg |-> 0]
<1>1. /\ Idle /\ AllOk(leg) /\ Commit(leg) /\ Move(leg, in) /\ debt' = Rebook(debt, a, leg)
      /\ UNCHANGED <<params, deposit, flash, now>>
  BY DEF Borrow, NoTokens
<1>2. DOMAIN batch \subseteq Created /\ \A h \in DOMAIN batch : batch[h] \in Amount \ {0}
  BY BatchType
<1>3. DOMAIN leg = DOMAIN batch
  BY Zenon
<1>4. ASSUME NEW h \in DOMAIN leg
      PROVE  /\ in[h] \in Nat /\ Settled(Synced(h).m, leg[h].m, in[h], leg[h].out)
             /\ DebtMoves(Synced(h).m, leg[h].m, debt[a][h], leg[h].position)
  <2>1. h \in Created /\ batch[h] \in Amount \ {0}
    BY <1>2, Zenon
  <2>2. Sound(Synced(h).m) /\ params[h] \in MarketParams /\ debt[a][h] \in 0..MaxI128
    BY <2>1, LegGiven, Zenon
  <2>3. leg[h] = BorrowLeg(params[h], Synced(h).m, debt[a][h], batch[h]) /\ leg[h].ok
    BY <1>1 DEF AllOk
  <2>4. batch[h] \in Nat
    BY <2>1, AmountAssumption, MarketRanges, ZenonT(20)
  <2> HIDE DEF leg
  <2>5. Settled(Synced(h).m, leg[h].m, 0, leg[h].out)
        /\ DebtMoves(Synced(h).m, leg[h].m, debt[a][h], leg[h].position)
    BY <2>2, <2>3, <2>4 DEF Laws, LegLaws, BorrowLegLaw
  <2> QED
    BY <1>3, <2>4, <2>5
<1> HIDE DEF leg, in
<1> QED
  BY <1>1, <1>2, <1>3, <1>4, DebtBatch, Zenon DEF DebtLegs

\* withdraw keeps the invariant.
LEMMA WithdrawInv ==
  ASSUME Laws, IInv, NEW a \in Account, NEW batch \in Batches(Amount \cup {MaxI128}), Withdraw(a, batch)
  PROVE  IInv' /\ MarketsMove
<1> DEFINE leg == [h \in DOMAIN batch |->
                     WithdrawLeg(params[h], Synced(h).m, deposit[a][h], batch[h], FALSE, 0)]
           in  == [h \in DOMAIN leg |-> 0]
<1>1. /\ Idle /\ AllOk(leg) /\ Commit(leg) /\ Move(leg, in) /\ deposit' = Rebook(deposit, a, leg)
      /\ UNCHANGED <<params, debt, flash, now>>
  BY DEF Withdraw, NoTokens
<1>2. DOMAIN batch \subseteq Created /\ \A h \in DOMAIN batch : batch[h] \in Amount \cup {MaxI128}
  BY BatchType
<1>3. DOMAIN leg = DOMAIN batch
  BY Zenon
<1>4. ASSUME NEW h \in DOMAIN leg
      PROVE  /\ in[h] \in Nat /\ Settled(Synced(h).m, leg[h].m, in[h], leg[h].out)
             /\ DepositMoves(Synced(h).m, leg[h].m, deposit[a][h], leg[h].position)
  <2>1. h \in Created /\ batch[h] \in Amount \cup {MaxI128}
    BY <1>2, Zenon
  <2>2. Sound(Synced(h).m) /\ params[h] \in MarketParams /\ deposit[a][h] \in 0..MaxI128
    BY <2>1, LegGiven, Zenon
  <2>3. leg[h] = WithdrawLeg(params[h], Synced(h).m, deposit[a][h], batch[h], FALSE, 0) /\ leg[h].ok
    BY <1>1, ZenonT(20) DEF AllOk
  <2>4. batch[h] \in Nat
    BY <2>1, AmountAssumption, MarketRanges, ZenonT(20)
  <2> HIDE DEF leg
  <2>5. Settled(Synced(h).m, leg[h].m, 0, leg[h].out)
        /\ DepositMoves(Synced(h).m, leg[h].m, deposit[a][h], leg[h].position)
    BY <2>2, <2>3, <2>4, ZenonT(20) DEF Laws, LegLaws, WithdrawLegLaw
  <2> QED
    BY <1>3, <2>4, <2>5
<1> HIDE DEF leg, in
<1> QED
  BY <1>1, <1>2, <1>3, <1>4, DepositBatch, Zenon DEF DepositLegs

\* withdraw in a Transfer-mode liquidation keeps the invariant.
LEMMA LiquidationWithdrawInv ==
  ASSUME Laws, IInv, NEW a \in Account,
         NEW batch \in Batches([amount : Amount \cup {MaxI128}, fee : Fee]), LiquidationWithdraw(a, batch)
  PROVE  IInv' /\ MarketsMove
<1> DEFINE leg == [h \in DOMAIN batch |->
                     WithdrawLeg(params[h], Synced(h).m, deposit[a][h], batch[h].amount, TRUE, batch[h].fee)]
           in  == [h \in DOMAIN leg |-> 0]
<1>1. /\ Idle /\ AllOk(leg) /\ Commit(leg) /\ Move(leg, in) /\ deposit' = Rebook(deposit, a, leg)
      /\ UNCHANGED <<params, debt, flash, now>>
  BY ZenonT(30) DEF LiquidationWithdraw, NoTokens
<1>2. /\ DOMAIN batch \subseteq Created
      /\ \A h \in DOMAIN batch : batch[h] \in [amount : Amount \cup {MaxI128}, fee : Fee]
  BY BatchType, ZenonT(20)
<1>3. DOMAIN leg = DOMAIN batch
  BY Zenon
<1>4. ASSUME NEW h \in DOMAIN leg
      PROVE  /\ in[h] \in Nat /\ Settled(Synced(h).m, leg[h].m, in[h], leg[h].out)
             /\ DepositMoves(Synced(h).m, leg[h].m, deposit[a][h], leg[h].position)
  <2>1. h \in Created /\ batch[h] \in [amount : Amount \cup {MaxI128}, fee : Fee]
    BY <1>2, Zenon
  <2>2. Sound(Synced(h).m) /\ params[h] \in MarketParams /\ deposit[a][h] \in 0..MaxI128
    BY <2>1, LegGiven, Zenon
  <2>3. /\ leg[h] = WithdrawLeg(params[h], Synced(h).m, deposit[a][h], batch[h].amount, TRUE, batch[h].fee)
        /\ leg[h].ok
    BY <1>1, ZenonT(20) DEF AllOk
  <2>4. batch[h].amount \in Nat /\ batch[h].fee \in Nat
    BY <2>1, AmountAssumption, MarketRanges, ZenonT(20)
  <2> HIDE DEF leg
  <2>5. Settled(Synced(h).m, leg[h].m, 0, leg[h].out)
        /\ DepositMoves(Synced(h).m, leg[h].m, deposit[a][h], leg[h].position)
    BY <2>2, <2>3, <2>4, ZenonT(20) DEF Laws, LegLaws, WithdrawLegLaw
  <2> QED
    BY <1>3, <2>4, <2>5, Zenon
<1> HIDE DEF leg, in
<1> QED
  BY <1>1, <1>2, <1>3, <1>4, DepositBatch DEF DepositLegs

\* create_strategy keeps the invariant.
LEMMA CreateStrategyInv ==
  ASSUME Laws, IInv, NEW a \in Account, NEW h \in Created, NEW amount \in Amount, NEW charge_fee \in BOOLEAN,
         CreateStrategy(a, h, amount, charge_fee)
  PROVE  IInv' /\ MarketsMove
<1> DEFINE one == StrategyLeg(params[h], Synced(h).m, debt[a][h], amount, charge_fee)
           leg == [g \in {h} |-> one]
           in  == [g \in DOMAIN leg |-> 0]
<1>1. /\ Idle /\ AllOk(leg) /\ Commit(leg) /\ Move(leg, in) /\ debt' = Rebook(debt, a, leg)
      /\ UNCHANGED <<params, deposit, flash, now>>
  BY Zenon DEF CreateStrategy, NoTokens
<1>2. Sound(Synced(h).m) /\ params[h] \in MarketParams /\ debt[a][h] \in 0..MaxI128
  BY SyncedSound, Zenon DEF IInv, BooksOK, Book
<1>3. one.ok /\ amount \in Nat
  BY <1>1, AmountAssumption, Zenon DEF AllOk
<1>4. Settled(Synced(h).m, one.m, 0, one.out) /\ DebtMoves(Synced(h).m, one.m, debt[a][h], one.position)
  BY <1>2, <1>3 DEF Laws, LegLaws, StrategyLegLaw
<1> HIDE DEF one
<1>5. DOMAIN leg = {h} /\ leg[h] = one /\ in[h] = 0
  OBVIOUS
<1> HIDE DEF leg, in
<1>6. \A g \in DOMAIN leg :
        /\ in[g] \in Nat /\ Settled(Synced(g).m, leg[g].m, in[g], leg[g].out)
        /\ DebtMoves(Synced(g).m, leg[g].m, debt[a][g], leg[g].position)
  BY <1>4, <1>5
<1>7. DOMAIN leg \subseteq Created
  BY <1>5
<1> QED
  BY <1>1, <1>6, <1>7, DebtBatch, Zenon DEF DebtLegs
=============================================================================
