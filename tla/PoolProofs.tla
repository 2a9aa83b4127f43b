----------------------------- MODULE PoolProofs -----------------------------
(***************************************************************************)
(* The pool's safety for every value of the constants: any number of hubs, *)
(* assets, accounts and amounts.  First what a flash loan leaves behind,   *)
(* then the laws that the proofs about single steps assume, and then the   *)
(* invariant and the theorems.                                             *)
(***************************************************************************)
EXTENDS PoolMarketProofs, PoolLegsProofs

-----------------------------------------------------------------------------
(* What a flash loan may find when its receiver returns.                    *)

\* What a sync at the start of the flash loan would have made of market g.
SyncedAtStart(g) == GlobalSync(flash.start.params[g], flash.start.market[g], now).m

\* While the receiver runs, tokens come in as donations only, the books stand
\* still, and a market is as it was or as a sync at the start would have left it.
FlashTrace ==
  ~Idle =>
    LET h == flash.hub_asset
        t == AssetOf[h]
        s == flash.start
    IN  /\ flash.pre_balance = s.balance[t]
        /\ balance[t] + flash.amount - s.balance[t] = donated[t] - s.donated[t]
        /\ books = <<s.deposit, s.debt>>
        /\ h \in DOMAIN s.market /\ DOMAIN s.market \subseteq Created
        /\ flash.cache = SyncedAtStart(h)
        /\ \A g \in DOMAIN s.market :
             \/ market[g] = s.market[g] /\ params[g] = s.params[g]
             \/ market[g] = SyncedAtStart(g)

\* The flash loan starts from the state it remembers.
LEMMA FlashBeginTrace ==
  ASSUME Laws, IInv, NEW h \in Created, NEW amount \in Amount, FlashBegin(h, amount)
  PROVE  FlashTrace'
<1> DEFINE t == AssetOf[h]
<1>1. /\ flash'.hub_asset = h /\ flash'.amount = amount /\ flash'.cache = Synced(h).m
      /\ flash'.pre_balance = balance[t]
      /\ flash'.start.market = market /\ flash'.start.params = params
      /\ flash'.start.balance = balance /\ flash'.start.donated = donated
      /\ flash'.start.deposit = deposit /\ flash'.start.debt = debt
  BY SMTT(30) DEF FlashBegin
<1>2. /\ balance' = [balance EXCEPT ![t] = balance[t] - amount]
      /\ market' = market /\ params' = params /\ donated' = donated /\ now' = now
      /\ deposit' = deposit /\ debt' = debt
  BY Zenon DEF FlashBegin, books
<1>3. t \in Asset /\ amount \in Nat
  BY SyncedSound, AssetAssumption, AmountAssumption, Zenon
<1>4. balance \in [Asset -> Nat] /\ donated \in [Asset -> Nat]
  BY Zenon DEF IInv, TokensOK
<1>5. balance'[t] = balance[t] - amount /\ balance[t] \in Nat /\ donated[t] \in Nat
  BY <1>2, <1>3, <1>4, Zenon
<1>6. balance'[t] + amount - balance[t] = donated[t] - donated[t]
  BY <1>3, <1>5
<1>7. Synced(h).m = SyncedAtStart(h)'
  BY <1>1, <1>2, Zenon DEF Synced, SyncedAtStart
<1> QED
  BY <1>1, <1>2, <1>6, <1>7, Zenon DEF FlashTrace, Created, books

\* A market that was synced in this ledger is not changed by another sync.
LEMMA SyncOnce ==
  ASSUME Laws, IInv, ~Idle, NEW g \in DOMAIN flash.start.market
  PROVE  /\ Accrued(flash.start.market[g], SyncedAtStart(g))
         /\ Sound(SyncedAtStart(g)) /\ SyncedAtStart(g).last_timestamp = now
         /\ \A p : GlobalSync(p, SyncedAtStart(g), now).m = SyncedAtStart(g)
<1>1. /\ MarketsOK(flash.start.market, flash.start.params, now) /\ now \in Nat
  BY Zenon DEF IInv, FlashOK
<1>2. /\ flash.start.params[g] \in MarketParams /\ Verify(flash.start.params[g])
      /\ Sound(flash.start.market[g]) /\ flash.start.market[g].last_timestamp <= now
  BY <1>1, Zenon DEF MarketsOK
<1>3. /\ Accrued(flash.start.market[g], SyncedAtStart(g)) /\ SyncedAtStart(g).last_timestamp = now
  BY <1>1, <1>2, Zenon DEF SyncedAtStart, Laws, SyncLaw
<1>4. PICK m : m = SyncedAtStart(g)
  BY Zenon
<1>5. now - m.last_timestamp = 0
  BY <1>1, <1>3, <1>4
<1>6. \A p : GlobalSync(p, m, now) = [ok |-> TRUE, m |-> m]
  BY <1>5 DEF GlobalSync
<1>7. \A p : GlobalSync(p, m, now).m = m
  BY <1>6
<1>8. Sound(SyncedAtStart(g))
  BY <1>3, Zenon DEF Accrued
<1> QED
  BY <1>3, <1>4, <1>7, <1>8, Zenon

\* What the receiver, or an owner while it runs, does to markets and tokens.
LEMMA ReceiverTrace ==
  ASSUME FlashTrace, UNCHANGED <<books, flash, now>>,
         ~Idle => /\ Created \subseteq DOMAIN market'
                  /\ balance'[AssetOf[flash.hub_asset]] - balance[AssetOf[flash.hub_asset]]
                       = donated'[AssetOf[flash.hub_asset]] - donated[AssetOf[flash.hub_asset]]
                  /\ balance[AssetOf[flash.hub_asset]] \in Int /\ balance'[AssetOf[flash.hub_asset]] \in Int
                  /\ donated[AssetOf[flash.hub_asset]] \in Int /\ donated'[AssetOf[flash.hub_asset]] \in Int
                  /\ flash.start.balance[AssetOf[flash.hub_asset]] \in Int
                  /\ flash.start.donated[AssetOf[flash.hub_asset]] \in Int
                  /\ flash.amount \in Int
                  /\ \A g \in DOMAIN flash.start.market :
                       \/ market'[g] = market[g] /\ params'[g] = params[g]
                       \/ market'[g] = SyncedAtStart(g)
  PROVE  FlashTrace'
<1>1. flash' = flash /\ (Idle' <=> Idle) /\ \A g : SyncedAtStart(g)' = SyncedAtStart(g)
  BY Zenon DEF Idle, SyncedAtStart
<1> SUFFICES ASSUME ~Idle
             PROVE  FlashTrace'
  BY <1>1, Zenon DEF FlashTrace
<1>2. PICK t, b, d, b2, d2, sb, sd, a :
        /\ t = AssetOf[flash.hub_asset] /\ b = balance[t] /\ d = donated[t] /\ b2 = balance'[t]
        /\ d2 = donated'[t] /\ sb = flash.start.balance[t] /\ sd = flash.start.donated[t] /\ a = flash.amount
  BY Zenon
<1>3. /\ b \in Int /\ d \in Int /\ b2 \in Int /\ d2 \in Int /\ sb \in Int /\ sd \in Int /\ a \in Int
      /\ b2 - b = d2 - d /\ b + a - sb = d - sd
  BY <1>2, Zenon DEF FlashTrace
<1>4. b2 + a - sb = d2 - sd
  BY <1>3
<1>5. \A g \in DOMAIN flash.start.market :
        \/ market'[g] = flash.start.market[g] /\ params'[g] = flash.start.params[g]
        \/ market'[g] = SyncedAtStart(g)
  BY Zenon DEF FlashTrace
<1> QED
  BY <1>1, <1>2, <1>4, <1>5, Zenon DEF FlashTrace, Created

\* The tokens of a flash loan's asset are counted.
LEMMA FlashTypes ==
  ASSUME Laws, IInv, ~Idle, NEW t, t = AssetOf[flash.hub_asset]
  PROVE  /\ t \in Asset /\ balance[t] \in Nat /\ donated[t] \in Nat
         /\ flash.start.balance[t] \in Nat /\ flash.start.donated[t] \in Nat /\ flash.amount \in Nat
<1>1. /\ flash.hub_asset \in Created /\ flash.amount \in Nat
      /\ TokensOK(flash.start.balance, flash.start.wallet, flash.start.donated)
      /\ TokensOK(balance, wallet, donated)
  BY Zenon DEF IInv, FlashOK
<1>2. t \in Asset
  BY <1>1, SyncedSound, AssetAssumption, Zenon
<1> QED
  BY <1>1, <1>2, Zenon DEF TokensOK

\* create_market while the receiver runs.
LEMMA CreateMarketTrace ==
  ASSUME Laws, IInv, FlashTrace, NEW h \in HubAsset, NEW p \in ParamSets, CreateMarket(h, p)
  PROVE  FlashTrace'
<1>1. /\ h \notin Created /\ DOMAIN market' = Created \cup {h}
      /\ \A g \in Created : market'[g] = market[g] /\ params'[g] = params[g]
      /\ UNCHANGED <<balance, donated, books, flash, now>>
  BY SMTT(30) DEF CreateMarket, tokens
<1>2. ASSUME ~Idle, NEW t, t = AssetOf[flash.hub_asset]
      PROVE  /\ balance'[t] - balance[t] = donated'[t] - donated[t]
             /\ balance[t] \in Int /\ balance'[t] \in Int /\ donated[t] \in Int /\ donated'[t] \in Int
             /\ flash.start.balance[t] \in Int /\ flash.start.donated[t] \in Int /\ flash.amount \in Int
  BY <1>1, <1>2, FlashTypes
<1>3. ~Idle => \A g \in DOMAIN flash.start.market : market'[g] = market[g] /\ params'[g] = params[g]
  BY <1>1, Zenon DEF FlashTrace
<1> QED
  BY <1>1, <1>2, <1>3, ReceiverTrace, Zenon

\* update_params while the receiver runs: it commits a sync at most once.
LEMMA UpdateParamsTrace ==
  ASSUME Laws, IInv, FlashTrace, NEW h \in HubAsset, NEW p \in ParamSets, UpdateParams(h, p)
  PROVE  FlashTrace'
<1>1. PICK next : next = [p EXCEPT !.unit = params[h].unit]
  BY Zenon
<1>2. /\ h \in Created /\ market' = [market EXCEPT ![h] = Synced(h).m]
      /\ params' = [params EXCEPT ![h] = next] /\ UNCHANGED <<balance, donated, books, flash, now>>
  BY <1>1, Zenon DEF UpdateParams, tokens
<1>3. /\ DOMAIN market' = Created /\ market'[h] = Synced(h).m
      /\ \A g \in Created \ {h} : market'[g] = market[g] /\ params'[g] = params[g]
  BY <1>2, Zenon DEF IInv, MarketsOK, Created
<1>4. ASSUME ~Idle, NEW t, t = AssetOf[flash.hub_asset]
      PROVE  /\ balance'[t] - balance[t] = donated'[t] - donated[t]
             /\ balance[t] \in Int /\ balance'[t] \in Int /\ donated[t] \in Int /\ donated'[t] \in Int
             /\ flash.start.balance[t] \in Int /\ flash.start.donated[t] \in Int /\ flash.amount \in Int
  BY <1>2, <1>4, FlashTypes
<1>5. ASSUME ~Idle, NEW g \in DOMAIN flash.start.market
      PROVE  \/ market'[g] = market[g] /\ params'[g] = params[g]
             \/ market'[g] = SyncedAtStart(g)
  <2>1. g \in Created /\ (\/ market[g] = flash.start.market[g] /\ params[g] = flash.start.params[g]
                          \/ market[g] = SyncedAtStart(g))
    BY <1>5, Zenon DEF FlashTrace
  <2>2. CASE g # h
    BY <1>3, <2>1, <2>2, Zenon
  <2>3. CASE g = h /\ market[g] = flash.start.market[g] /\ params[g] = flash.start.params[g]
    BY <1>3, <2>3, Zenon DEF Synced, SyncedAtStart
  <2>4. CASE g = h /\ market[g] = SyncedAtStart(g)
    <3>1. Synced(g).m = SyncedAtStart(g)
      BY <1>5, <2>4, SyncOnce, Zenon DEF Synced
    <3> QED
      BY <1>3, <2>4, <3>1, Zenon
  <2> QED
    BY <2>1, <2>2, <2>3, <2>4, Zenon
<1> QED
  BY <1>2, <1>3, <1>4, <1>5, ReceiverTrace, Zenon

\* A donation while the receiver runs is counted as one.
LEMMA DonateTrace ==
  ASSUME Laws, IInv, FlashTrace, NEW u \in Asset, NEW amount \in Donation, Donate(u, amount)
  PROVE  FlashTrace'
<1>1. /\ balance' = [balance EXCEPT ![u] = balance[u] + amount]
      /\ donated' = [donated EXCEPT ![u] = donated[u] + amount]
      /\ market' = market /\ params' = params /\ UNCHANGED <<books, flash, now>>
  BY Zenon DEF Donate
<1>2. ASSUME ~Idle, NEW t, t = AssetOf[flash.hub_asset]
      PROVE  /\ balance'[t] - balance[t] = donated'[t] - donated[t]
             /\ balance[t] \in Int /\ balance'[t] \in Int /\ donated[t] \in Int /\ donated'[t] \in Int
             /\ flash.start.balance[t] \in Int /\ flash.start.donated[t] \in Int /\ flash.amount \in Int
  <2>1. /\ t \in Asset /\ balance[t] \in Nat /\ donated[t] \in Nat
        /\ flash.start.balance[t] \in Nat /\ flash.start.donated[t] \in Nat /\ flash.amount \in Nat
    BY <1>2, FlashTypes, Zenon
  <2>2. balance \in [Asset -> Nat] /\ donated \in [Asset -> Nat] /\ amount \in Nat
    BY AmountAssumption, Zenon DEF IInv, TokensOK
  <2>3. CASE u = t
    <3>1. balance'[t] = balance[t] + amount /\ donated'[t] = donated[t] + amount
      BY <1>1, <2>1, <2>2, <2>3, Zenon
    <3> QED
      BY <2>1, <2>2, <3>1
  <2>4. CASE u # t
    <3>1. balance'[t] = balance[t] /\ donated'[t] = donated[t]
      BY <1>1, <2>1, <2>2, <2>4, Zenon
    <3> QED
      BY <2>1, <3>1
  <2> QED
    BY <2>3, <2>4, Zenon
<1> QED
  BY <1>1, <1>2, ReceiverTrace, Zenon DEF Created

\* A repaid flash loan leaves what a sync at its start would have left, and the
\* fee.
LEMMA FlashEndNeutral ==
  ASSUME Laws, IInv, FlashTrace, FlashEnd
  PROVE  LET h     == flash.hub_asset
             t     == AssetOf[h]
             start == flash.start
             synced(g) == GlobalSync(start.params[g], start.market[g], now).m
         IN  /\ balance'[t] = start.balance[t] + flash.fee /\ donated'[t] = start.donated[t]
             /\ books' = <<start.deposit, start.debt>>
             /\ market'[h].cash = start.market[h].cash + flash.fee
             /\ market'[h].borrowed = start.market[h].borrowed
             /\ market'[h].borrow_index = synced(h).borrow_index
             /\ \A g \in DOMAIN start.market \ {h} : market'[g] \in {start.market[g], synced(g)}
<1>1. PICK h, t, due, n :
        /\ h = flash.hub_asset /\ t = AssetOf[h] /\ due = flash.amount + flash.fee
        /\ n = BookFlashFee(params[h], flash.cache, flash.fee).m
  BY Zenon
<1>2. /\ ~Idle /\ BookFlashFee(params[h], flash.cache, flash.fee).ok
      /\ balance[t] = flash.pre_balance - flash.amount
      /\ market' = [market EXCEPT ![h] = n]
      /\ balance' = [balance EXCEPT ![t] = balance[t] + due]
      /\ UNCHANGED <<params, donated, books, now>>
  BY <1>1, Zenon DEF FlashEnd
<1>3. /\ flash.pre_balance = flash.start.balance[t]
      /\ balance[t] + flash.amount - flash.start.balance[t] = donated[t] - flash.start.donated[t]
      /\ books = <<flash.start.deposit, flash.start.debt>>
      /\ h \in DOMAIN flash.start.market /\ DOMAIN flash.start.market \subseteq Created
      /\ flash.cache = SyncedAtStart(h)
      /\ \A g \in DOMAIN flash.start.market :
           \/ market[g] = flash.start.market[g] /\ params[g] = flash.start.params[g]
           \/ market[g] = SyncedAtStart(g)
  BY <1>1, <1>2, Zenon DEF FlashTrace
<1>4. /\ t \in Asset /\ balance[t] \in Nat /\ donated[t] \in Nat
      /\ flash.start.balance[t] \in Nat /\ flash.start.donated[t] \in Nat /\ flash.amount \in Nat
      /\ flash.fee \in Nat /\ balance \in [Asset -> Nat]
  BY <1>1, <1>2, FlashTypes, Zenon DEF IInv, FlashOK, TokensOK
<1>5. balance'[t] = flash.start.balance[t] + flash.fee /\ donated'[t] = flash.start.donated[t]
  <2>1. balance'[t] = balance[t] + due /\ donated'[t] = donated[t]
    BY <1>2, <1>4, Zenon
  <2>2. PICK b, s, a, f, d, e :
          /\ b = balance[t] /\ s = flash.start.balance[t] /\ a = flash.amount /\ f = flash.fee
          /\ d = donated[t] /\ e = flash.start.donated[t]
    BY Zenon
  <2>3. /\ b \in Nat /\ s \in Nat /\ a \in Nat /\ f \in Nat /\ d \in Nat /\ e \in Nat
        /\ b = s - a /\ b + a - s = d - e
    BY <1>2, <1>3, <1>4, <2>2, Zenon
  <2>4. b + (a + f) = s + f /\ d = e
    BY <2>3
  <2> QED
    BY <1>1, <2>1, <2>2, <2>4, Zenon
<1>6. /\ market'[h] = n /\ \A g \in Created \ {h} : market'[g] = market[g]
  BY <1>2, <1>3, Zenon DEF Created, IInv, MarketsOK
<1>7. /\ n.cash = SyncedAtStart(h).cash + flash.fee - 0 /\ n.borrowed = SyncedAtStart(h).borrowed
      /\ n.borrow_index = SyncedAtStart(h).borrow_index
  <2>1. Sound(SyncedAtStart(h)) /\ params[h] \in MarketParams
    BY <1>2, <1>3, SyncOnce, SyncedSound, Zenon
  <2>2. Settled(SyncedAtStart(h), n, flash.fee, 0) /\ BooksKept(SyncedAtStart(h), n)
    BY <1>1, <1>2, <1>3, <1>4, <2>1, Zenon DEF Laws, LegLaws, BookFlashFeeLaw
  <2> QED
    BY <2>2, Zenon DEF Settled, BooksKept
<1>8. /\ SyncedAtStart(h).cash = flash.start.market[h].cash
      /\ SyncedAtStart(h).borrowed = flash.start.market[h].borrowed /\ Sound(SyncedAtStart(h))
  BY <1>2, <1>3, SyncOnce, Zenon DEF Accrued
<1>9. SyncedAtStart(h).cash \in Int
  BY <1>8, FieldIntegers, Zenon
<1>10. n.cash = flash.start.market[h].cash + flash.fee
  BY <1>4, <1>7, <1>8, <1>9
<1>11. \A g \in DOMAIN flash.start.market \ {h} :
         market'[g] \in {flash.start.market[g], SyncedAtStart(g)}
  BY <1>3, <1>6, Zenon
<1>12. books' = <<flash.start.deposit, flash.start.debt>>
  BY <1>2, <1>3, Zenon
<1>13. market'[h].cash = flash.start.market[h].cash + flash.fee
  BY <1>6, <1>10, Zenon
<1>14. market'[h].borrowed = flash.start.market[h].borrowed /\ market'[h].borrow_index = SyncedAtStart(h).borrow_index
  BY <1>6, <1>7, <1>8, Zenon
<1> QED
  BY <1>1, <1>5, <1>11, <1>12, <1>13, <1>14, Zenon DEF SyncedAtStart

\* An operation that waits for the end of a flash loan meets none.
LEMMA IdleTrace ==
  ASSUME Idle, UNCHANGED flash
  PROVE  FlashTrace'
  BY Zenon DEF FlashTrace, Idle

-----------------------------------------------------------------------------
(* The books and the cash of any number of accounts and markets.            *)

\* The total of a book moves with the one account that changes.
LEMMA TotalUpdateHolds ==
  ASSUME NEW book \in Book, NEW book2 \in Book, NEW a \in Account,
         \A b \in Account \ {a} : book2[b] = book[b],
         NEW h \in HubAsset
  PROVE  Total(book2, h) = Total(book, h) - book[a][h] + book2[a][h]
<1> DEFINE f == [b \in Account |-> book[b][h]]
           g == [b \in Account |-> book2[b][h]]
<1>1. \A b \in Account : f[b] \in Int /\ g[b] \in Int
  BY Ranges DEF Book
<1>2. \A b \in Account \ {a} : g[b] = f[b]
  OBVIOUS
<1>3. IsFiniteSet(Account)
  BY FiniteAssumption
<1> HIDE DEF f, g
<1>4. SumFunctionOnSet(g, Account) = SumFunctionOnSet(f, Account) - f[a] + g[a]
  BY <1>1, <1>2, <1>3, SumUpdate
<1> QED
  BY <1>4 DEF f, g, Total

\* A market nobody has a position in has total zero.
LEMMA TotalZeroHolds ==
  ASSUME NEW book, NEW h, \A a \in Account : book[a][h] = 0
  PROVE  Total(book, h) = 0
<1> DEFINE f == [a \in Account |-> book[a][h]]
<1>1. \A a \in Account : f[a] \in Nat /\ f[a] = 0
  OBVIOUS
<1>2. IsFiniteSet(Account)
  BY FiniteAssumption
<1> HIDE DEF f
<1>3. SumFunctionOnSet(f, Account) = 0
  BY <1>1, <1>2, SumNat, Zenon
<1> QED
  BY <1>3 DEF f, Total

\* The markets of a token are finitely many.
LEMMA OfAssetFinite ==
  ASSUME NEW M, M \subseteq HubAsset, NEW t
  PROVE  IsFiniteSet(OfAsset(M, t)) /\ OfAsset(M, t) \subseteq M
<1>1. OfAsset(M, t) \subseteq HubAsset
  BY DEF OfAsset
<1> QED
  BY <1>1, FiniteAssumption, FS_Subset, Zenon DEF OfAsset

\* The cash of a token moves with the legs of a batch.
LEMMA CashBatchHolds ==
  ASSUME NEW mk, NEW mk2, NEW pr, NEW time, MarketsOK(mk, pr, time), DOMAIN mk2 = DOMAIN mk,
         NEW M, M \subseteq DOMAIN mk, NEW in, NEW out, CashMoves(mk, mk2, M, in, out), NEW t
  PROVE  CashIn(mk2, t) = CashIn(mk, t) + SumFunctionOnSet(in, OfAsset(M, t))
                          - SumFunctionOnSet(out, OfAsset(M, t))
<1> DEFINE S == OfAsset(DOMAIN mk, t)
           R == OfAsset(M, t)
           f == [h \in DOMAIN mk |-> mk[h].cash]
           g == [h \in DOMAIN mk |-> mk2[h].cash]
<1>0. R \in SUBSET S /\ R = S \cap M
  BY DEF OfAsset
<1>1. IsFiniteSet(S) /\ S \subseteq DOMAIN mk /\ R \in SUBSET S /\ R = S \cap M
  BY <1>0, OfAssetFinite, Zenon DEF MarketsOK
<1>2. \A h \in S : f[h] \in Int
  <2>1. ASSUME NEW h \in S PROVE f[h] \in Int
    <3>1. h \in DOMAIN mk /\ Sound(mk[h])
      BY <1>1, Zenon DEF MarketsOK
    <3>2. mk[h].cash \in Int
      BY <3>1, Fields, Ranges DEF Sound
    <3> QED
      BY <3>1, <3>2, Zenon
  <2> QED
    BY <2>1, Zenon
<1>3. \A h \in R : in[h] \in Int /\ out[h] \in Int /\ g[h] = f[h] + in[h] - out[h]
  BY <1>1 DEF CashMoves
<1>4. \A h \in S \ R : g[h] = f[h]
  BY <1>1, Zenon DEF CashMoves
<1>5. CashIn(mk, t) = SumFunctionOnSet(f, S) /\ CashIn(mk2, t) = SumFunctionOnSet(g, S)
  BY Zenon DEF CashIn
<1> HIDE DEF f, g, S, R
<1>6. SumFunctionOnSet(g, S) = SumFunctionOnSet(f, S) + SumFunctionOnSet(in, R) - SumFunctionOnSet(out, R)
  BY <1>1, <1>2, <1>3, <1>4, SumBatch
<1> QED
  BY <1>5, <1>6, Zenon DEF R

\* What a batch transfers is a number of tokens.
LEMMA TransfersHolds ==
  ASSUME NEW M, NEW f, NEW t, M \subseteq HubAsset, \A h \in M : f[h] \in Nat
  PROVE  SumFunctionOnSet(f, OfAsset(M, t)) \in Nat
<1>1. IsFiniteSet(OfAsset(M, t)) /\ OfAsset(M, t) \subseteq M
  BY OfAssetFinite
<1>2. \A h \in OfAsset(M, t) : f[h] \in Nat
  BY <1>1, Zenon
<1> QED
  BY <1>1, <1>2, SumNat, Zenon

\* A new market starts without cash.
LEMMA CashNewHolds ==
  ASSUME NEW mk, NEW mk2, NEW pr, NEW time, MarketsOK(mk, pr, time), NEW h \in HubAsset \ DOMAIN mk,
         DOMAIN mk2 = DOMAIN mk \cup {h}, mk2[h].cash = 0,
         \A g \in DOMAIN mk : mk2[g] = mk[g], NEW t
  PROVE  CashIn(mk2, t) = CashIn(mk, t)
<1> DEFINE S == OfAsset(DOMAIN mk, t)
           T == OfAsset(DOMAIN mk2, t)
           f == [g \in DOMAIN mk |-> mk[g].cash]
           k == [g \in DOMAIN mk2 |-> mk2[g].cash]
<1>1. IsFiniteSet(T) /\ IsFiniteSet(S) /\ S \subseteq DOMAIN mk /\ T \subseteq DOMAIN mk2
  BY OfAssetFinite, Zenon DEF MarketsOK
<1>2. \A g \in T : k[g] \in Int
  <2>1. ASSUME NEW g \in T, g # h PROVE k[g] \in Int
    <3>1. g \in DOMAIN mk /\ Sound(mk[g]) /\ mk2[g] = mk[g]
      BY <1>1, <2>1, Zenon DEF MarketsOK
    <3>2. mk[g].cash \in Int
      BY <3>1, Fields, Ranges DEF Sound
    <3> QED
      BY <3>1, <3>2, Zenon
  <2>2. h \in T => k[h] \in Int
    BY <1>1
  <2> QED
    BY <2>1, <2>2, Zenon
<1>3. \A g \in S : k[g] = f[g]
  BY <1>1, Zenon
<1>4. CashIn(mk, t) = SumFunctionOnSet(f, S) /\ CashIn(mk2, t) = SumFunctionOnSet(k, T)
  BY DEF CashIn
<1>5. k[h] = 0 /\ (T = S \/ (h \in T /\ S = T \ {h}))
  BY DEF OfAsset
<1>a. SumFunctionOnSet(f, S) \in Int
  <2>1. \A g \in S : f[g] \in Int
    BY <1>2, <1>3, <1>5, Zenon
  <2> HIDE DEF f, S
  <2> QED
    BY <1>1, <2>1, SumType, Zenon
<1> HIDE DEF f, k, S, T
<1>6. SumFunctionOnSet(k, S) = SumFunctionOnSet(f, S)
  BY <1>1, <1>3, SumCongruence, Zenon
<1>7. SumFunctionOnSet(k, T) = SumFunctionOnSet(k, S)
  <2>1. CASE T = S
    BY <2>1, Zenon
  <2>2. CASE h \in T /\ S = T \ {h}
    <3>1. SumFunctionOnSet(k, T) = k[h] + SumFunctionOnSet(k, S)
      BY <1>1, <1>2, <2>2, SumRemove, Zenon
    <3> QED
      BY <1>5, <1>6, <1>a, <3>1
  <2> QED
    BY <1>5, <2>1, <2>2, Zenon
<1> QED
  BY <1>4, <1>6, <1>7, Zenon

\* The cash of a token is an integer.
LEMMA CashTypeHolds ==
  ASSUME NEW mk, NEW pr, NEW time, MarketsOK(mk, pr, time), NEW t
  PROVE  CashIn(mk, t) \in Nat
<1> DEFINE S == OfAsset(DOMAIN mk, t)
           f == [h \in DOMAIN mk |-> mk[h].cash]
<1>1. IsFiniteSet(S) /\ S \subseteq DOMAIN mk
  BY OfAssetFinite, Zenon DEF MarketsOK
<1>2. \A h \in S : f[h] \in Nat
  <2>1. ASSUME NEW h \in S PROVE f[h] \in Nat
    <3>1. h \in DOMAIN mk /\ Sound(mk[h])
      BY <1>1, Zenon DEF MarketsOK
    <3>2. mk[h].cash \in Nat
      BY <3>1, Fields, Ranges DEF Sound
    <3> QED
      BY <3>1, <3>2, Zenon
  <2> QED
    BY <2>1, Zenon
<1>3. CashIn(mk, t) = SumFunctionOnSet(f, S)
  BY DEF CashIn
<1> HIDE DEF f, S
<1> QED
  BY <1>1, <1>2, <1>3, SumNat, Zenon

\* One market changes: the cash of its token moves with it.
LEMMA CashOneHolds ==
  ASSUME NEW mk, NEW mk2, NEW pr, NEW time, MarketsOK(mk, pr, time), NEW h \in DOMAIN mk,
         DOMAIN mk2 = DOMAIN mk, \A g \in DOMAIN mk \ {h} : mk2[g] = mk[g], mk2[h].cash \in Int, NEW t
  PROVE  CashIn(mk2, t) = CashIn(mk, t) + (IF AssetOf[h] = t THEN mk2[h].cash - mk[h].cash ELSE 0)
<1> DEFINE S == OfAsset(DOMAIN mk, t)
           f == [g \in DOMAIN mk |-> mk[g].cash]
           k == [g \in DOMAIN mk |-> mk2[g].cash]
<1>0. S \subseteq DOMAIN mk /\ (h \in S <=> AssetOf[h] = t)
  BY DEF OfAsset
<1>1. IsFiniteSet(S) /\ S \subseteq DOMAIN mk /\ (h \in S <=> AssetOf[h] = t)
  BY <1>0, OfAssetFinite, Zenon DEF MarketsOK
<1>2. \A g \in DOMAIN mk : f[g] \in Int
  <2>1. ASSUME NEW g \in DOMAIN mk PROVE f[g] \in Int
    <3>1. mk[g].cash \in Int
      BY Fields, Ranges DEF Sound, MarketsOK
    <3> QED
      BY <3>1, Zenon
  <2> QED
    BY <2>1, Zenon
<1>3. \A g \in S \ {h} : k[g] = f[g]
  BY <1>1, Zenon
<1>4. CashIn(mk, t) = SumFunctionOnSet(f, S) /\ CashIn(mk2, t) = SumFunctionOnSet(k, S)
  BY Zenon DEF CashIn
<1>5. f[h] = mk[h].cash /\ k[h] = mk2[h].cash /\ f[h] \in Int /\ k[h] \in Int
  BY <1>2, Zenon
<1>6. \A g \in S : f[g] \in Int
  BY <1>1, <1>2, Zenon
<1> HIDE DEF f, k, S
<1>7. SumFunctionOnSet(f, S) \in Int
  BY <1>1, <1>6, SumType, Zenon
<1>8. CASE AssetOf[h] = t
  <2>0. h \in S /\ IsFiniteSet(S) /\ k[h] \in Int
    BY <1>1, <1>5, <1>8, Zenon
  <2>1. SumFunctionOnSet(k, S) = SumFunctionOnSet(f, S) - f[h] + k[h]
    BY <1>3, <1>6, <2>0, SumUpdate
  <2> QED
    BY <1>4, <1>5, <1>7, <1>8, <2>1, SMTT(30)
<1>9. CASE AssetOf[h] # t
  <2>1. \A g \in S : k[g] = f[g]
    BY <1>1, <1>3, <1>9, Zenon
  <2>2. SumFunctionOnSet(k, S) = SumFunctionOnSet(f, S)
    BY <1>1, <2>1, SumCongruence, Zenon
  <2> QED
    BY <1>4, <1>7, <1>9, <2>2
<1> QED
  BY <1>8, <1>9, Zenon

\* The laws that the lemmas about single steps assume.
LEMMA LawsHold == Laws
<1>1. TotalUpdateLaw /\ TotalZeroLaw
  BY TotalUpdateHolds, TotalZeroHolds DEF TotalUpdateLaw, TotalZeroLaw
<1>2. CashBatchLaw
  BY CashBatchHolds DEF CashBatchLaw
<1>3. TransfersLaw
  BY TransfersHolds, Zenon DEF TransfersLaw
<1>4. CashNewLaw
  BY CashNewHolds DEF CashNewLaw, EmptyMarketAdded
<1>5. CashTypeLaw
  BY CashTypeHolds, Zenon DEF CashTypeLaw
<1>6. CashOneLaw
  BY CashOneHolds DEF CashOneLaw
<1>7. SyncLaw
  BY GlobalSyncSound, Zenon DEF SyncLaw
<1> QED
  BY <1>1, <1>2, <1>3, <1>4, <1>5, <1>6, <1>7, LegLawsHold, Zenon DEF Laws

-----------------------------------------------------------------------------
(* The invariant holds initially and every action keeps it.                 *)

\* A new pool satisfies the invariant.
LEMMA InitInv ==
  ASSUME Init
  PROVE  IInv
<1>1. /\ DOMAIN market = {} /\ DOMAIN params = {}
      /\ market = [h \in {} |-> market[h]] /\ params = [h \in {} |-> params[h]]
  BY DEF Init
<1>2. MarketsOK(market, params, now) /\ now \in Nat
  BY <1>1 DEF Init, MarketsOK
<1>3. 0 \in 0..MaxI128
  BY I128Assumption
<1>4. BooksOK(market, deposit, debt)
  BY <1>1, <1>3, Zenon DEF Init, BooksOK, Book
<1>5. TokensOK(balance, wallet, donated)
  BY BoundAssumption, Zenon DEF Init, TokensOK
<1>6. Idle
  BY DEF Init, Idle
<1>7. \A t \in Asset : CashIn(market, t) = 0
  <2>1. ASSUME NEW t \in Asset PROVE CashIn(market, t) = 0
    <3>1. OfAsset(DOMAIN market, t) = {}
      BY <1>1 DEF OfAsset
    <3> QED
      BY <3>1, SumEmpty, Zenon DEF CashIn
  <2> QED
    BY <2>1
<1>8. Custody(market, balance, donated, Lent)
  BY <1>6, <1>7, Zenon DEF Init, Custody, Lent, Outstanding
<1> QED
  BY <1>2, <1>4, <1>5, <1>6, <1>8, Zenon DEF IInv, FlashOK

\* The invariant is about the variables only.
LEMMA StutterInv ==
  ASSUME IInv, UNCHANGED vars
  PROVE  IInv'
  BY Zenon DEF vars, books, tokens, IInv, FlashOK, Lent, NothingLent, Outstanding, Idle, Created, Synced

\* Every action keeps the invariant.
LEMMA NextInv ==
  ASSUME IInv, Next
  PROVE  IInv' /\ (FlashRevert \/ MarketsMove)
<1> USE LawsHold
<1>1. ASSUME NEW h \in HubAsset, NEW p \in ParamSets, CreateMarket(h, p) \/ UpdateParams(h, p)
      PROVE  IInv' /\ MarketsMove
  BY <1>1, CreateMarketInv, UpdateParamsInv, Zenon
<1>2. ASSUME NEW M \in SUBSET Created \ {{}}, UpdateIndexes(M)
      PROVE  IInv' /\ MarketsMove
  BY <1>2, UpdateIndexesInv, Zenon
<1>3. ASSUME NEW a \in Account, NEW batch \in Batches(Amount), Supply(a, batch) \/ Repay(a, batch)
      PROVE  IInv' /\ MarketsMove
  BY <1>3, SupplyInv, RepayInv, Zenon
<1>4. ASSUME NEW a \in Account, NEW batch \in Batches(Amount \ {0}), Borrow(a, batch)
      PROVE  IInv' /\ MarketsMove
  BY <1>4, BorrowInv, Zenon
<1>5. ASSUME NEW a \in Account, NEW batch \in Batches(Amount \cup {MaxI128}), Withdraw(a, batch)
      PROVE  IInv' /\ MarketsMove
  BY <1>5, WithdrawInv, Zenon
<1>6. ASSUME NEW a \in Account, NEW batch \in Batches([amount : Amount \cup {MaxI128}, fee : Fee]),
             LiquidationWithdraw(a, batch)
      PROVE  IInv' /\ MarketsMove
  BY <1>6, LiquidationWithdrawInv, Zenon
<1>7. ASSUME NEW a \in Account, NEW h \in Created, NEW amount \in Amount, NetSettle(a, h, amount)
      PROVE  IInv' /\ MarketsMove
  BY <1>7, NetSettleInv, Zenon
<1>8. ASSUME NEW a \in Account, NEW h \in Created, NEW amount \in Amount, NEW charge_fee \in BOOLEAN,
             CreateStrategy(a, h, amount, charge_fee)
      PROVE  IInv' /\ MarketsMove
  BY <1>8, CreateStrategyInv, Zenon
<1>9. ASSUME NEW a \in Account, SeizeAccount(a)
      PROVE  IInv' /\ MarketsMove
  BY <1>9, SeizeAccountInv, Zenon
<1>10. ASSUME NEW a \in Account, NEW h \in Created, NEW shares \in Shares, SeizeFee(a, h, shares)
       PROVE  IInv' /\ MarketsMove
  BY <1>10, SeizeFeeInv
<1>11. ASSUME NEW h \in Created, ClaimRevenue(h)
       PROVE  IInv' /\ MarketsMove
  BY <1>11, ClaimRevenueInv, Zenon
<1>12. ASSUME NEW h \in Created, NEW amount \in Amount, Recapitalize(h, amount) \/ FlashBegin(h, amount)
       PROVE  IInv' /\ MarketsMove
  BY <1>12, RecapitalizeInv, FlashBeginInv, Zenon
<1>13. ASSUME NEW t \in Asset, NEW amount \in Donation, Donate(t, amount)
       PROVE  IInv' /\ MarketsMove
  BY <1>13, DonateInv, Zenon
<1>14. CASE FlashEnd \/ FlashRevert \/ Tick
  BY <1>14, FlashEndInv, FlashRevertInv, TickInv, Zenon
<1> QED
  BY <1>1, <1>2, <1>3, <1>4, <1>5, <1>6, <1>7, <1>8, <1>9, <1>10, <1>11, <1>12, <1>13, <1>14, Zenon DEF Next

\* The inductive invariant: in every state of the pool, during a flash loan
\* too, the ledger is well formed, the books add up and cash is backed.
THEOREM LedgerInvariant == Spec => []IInv
<1>1. Init => IInv
  BY InitInv
<1>2. IInv /\ [Next]_vars => IInv'
  BY NextInv, StutterInv
<1> QED
  BY <1>1, <1>2, PTL DEF Spec

\* Every total, index, cash book and position of the pool stays in its range
\* and every clock in the past, for any number of markets and accounts.
THEOREM TypeCorrect == Spec => []TypeOK
<1>1. IInv => TypeOK
  BY Zenon DEF IInv, MarketsOK, BooksOK, Book, TokensOK, TypeOK, Created
<1> QED
  BY <1>1, LedgerInvariant, PTL

\* Revenue shares stay within the supply they are part of (INV-ACCT-01): every
\* fee is minted into both totals, every claim and seizure keeps the order.
THEOREM RevenueBounded == Spec => []RevenueWithinSupply
<1>1. IInv => RevenueWithinSupply
  BY Zenon DEF IInv, MarketsOK, Sound, RevenueWithinSupply, Created
<1> QED
  BY <1>1, LedgerInvariant, PTL

\* The positions the controller stores add up to the pool's totals
\* (INV-ACCT-10), through batches, liquidations, write-offs and flash loans.
THEOREM BooksAddUp == Spec => []BooksReconcile
<1>1. IInv => BooksReconcile
  BY Zenon DEF IInv, BooksOK, BooksReconcile, Created
<1> QED
  BY <1>1, LedgerInvariant, PTL

\* The cash books of all hubs of a token are backed by the tokens held or lent
\* out (INV-ACCT-02, INV-FLASH-01), also when a flash loan writes its copy back.
THEOREM CashIsBacked == Spec => []CashIsCustody
<1>1. ASSUME NEW t PROVE CashOf(t) = CashIn(market, t)
  BY Zenon DEF CashOf, CashIn, Created
<1>2. IInv => CashIsCustody
  BY <1>1, Zenon DEF IInv, Custody, Lent, CashIsCustody
<1> QED
  BY <1>2, LedgerInvariant, PTL

\* What an action property says of every step of the pool but the revert of a
\* flash loan.
LEMMA StepMoves ==
  ASSUME IInv, [Next]_vars
  PROVE  UNCHANGED vars \/ FlashRevert \/ MarketsMove
  BY NextInv

\* No step leaves a market with debt and without supply (INV-ACCT-09): every
\* exit of supply runs through the guard that keeps supply for debt.
THEOREM DebtNeverStranded == Spec => NoStrandedDebt
<1>1. IInv /\ [Next]_vars =>
        [FlashRevert \/ \A h \in Created :
           market[h].supplied > 0 /\ market'[h].supplied = 0 => market'[h].borrowed = 0]_vars
  BY StepMoves DEF MarketsMove, MarketMove
<1> QED
  BY <1>1, LedgerInvariant, PTL DEF Spec, NoStrandedDebt

\* Indexes only grow, but for the supply index in a write-off of debt that moves
\* no cash: accrual is monotone, and no other leg writes an index.
THEOREM IndexesOneWay == Spec => IndexesMoveOneWay
<1>1. IInv /\ [Next]_vars =>
        [FlashRevert \/ \A h \in Created :
           /\ market'[h].borrow_index >= market[h].borrow_index
           /\ market'[h].supply_index < market[h].supply_index =>
                market'[h].borrowed < market[h].borrowed /\ market'[h].cash = market[h].cash]_vars
  BY StepMoves DEF MarketsMove, MarketMove
<1> QED
  BY <1>1, LedgerInvariant, PTL DEF Spec, IndexesMoveOneWay

-----------------------------------------------------------------------------
(* Value.  Every leg covers what it adds to the claims of a market, a sync  *)
(* adds at most two units of rounding a chunk, and so does every operation. *)

\* From m to n the claims outgrow debt and cash by rounding only, or a write-off
\* stopped short.
KeptBacked(p, m, n) ==
  \/ Uncovered(p, n) <= Uncovered(p, m) + 2 * ChunkCount(n.last_timestamp - m.last_timestamp)
  \/ /\ n.borrowed < m.borrowed
     /\ n.supply_index = SupplyIndexFloor \/ ClaimsFloor(n) = 0

MarketsBacked == \A h \in Created : KeptBacked(params[h], market[h], market'[h])

\* What is known of a market and its synced copy.
LEMMA SyncedBacked ==
  ASSUME IInv, NEW h \in Created
  PROVE  /\ params[h] \in MarketParams /\ Sound(Synced(h).m) /\ Sound(market[h])
         /\ Accrued(market[h], Synced(h).m)
         /\ Uncovered(params[h], market[h]) \in Int /\ Uncovered(params[h], Synced(h).m) \in Int
         /\ Synced(h).m.last_timestamp = now
         /\ Uncovered(params[h], Synced(h).m)
              <= Uncovered(params[h], market[h]) + 2 * ChunkCount(now - market[h].last_timestamp)
         /\ now - market[h].last_timestamp \in Nat
<1>1. /\ params[h] \in MarketParams /\ Verify(params[h]) /\ Sound(market[h])
      /\ market[h].last_timestamp <= now /\ Sound(Synced(h).m) /\ Accrued(market[h], Synced(h).m)
      /\ Synced(h).m.last_timestamp = now
  BY LawsHold, SyncedSound, Zenon
<1>2. now \in Nat /\ market[h].last_timestamp \in Nat
  <2>1. now \in Nat
    BY Zenon DEF IInv
  <2>2. market[h].last_timestamp \in Nat
    BY <1>1, Fields, Zenon DEF Sound
  <2> QED
    BY <2>1, <2>2, Zenon
<1>3. now - market[h].last_timestamp \in Nat
  BY <1>1, <1>2
<1>4. /\ Uncovered(params[h], Synced(h).m) \in Int
      /\ Uncovered(params[h], Synced(h).m)
           <= Uncovered(params[h], market[h]) + 2 * ChunkCount(now - market[h].last_timestamp)
  BY <1>1, <1>2, GlobalSyncSound, Zenon DEF Synced
<1>5. Uncovered(params[h], market[h]) \in Int
  BY <1>1, ValueType, Zenon
<1> QED
  BY <1>1, <1>3, <1>4, <1>5, Zenon

\* A leg that covers what it adds, on top of a sync.
LEMMA LegBacked ==
  ASSUME IInv, NEW h \in Created, NEW n, Covered(params[h], Synced(h).m, n)
  PROVE  KeptBacked(params[h], market[h], n)
<1> DEFINE u == Uncovered(params[h], n)
           v == Uncovered(params[h], Synced(h).m)
           w == Uncovered(params[h], market[h])
           c == ChunkCount(now - market[h].last_timestamp)
<1>1. u \in Int /\ v \in Int /\ w \in Int /\ u <= v /\ v <= w + 2 * c /\ n.last_timestamp = now
  BY SyncedBacked, Zenon DEF Covered
<1>2. c \in Nat
  BY SyncedBacked, ChunkCountType, Zenon
<1> HIDE DEF u, v, w, c
<1>3. u <= w + 2 * c
  BY <1>1, <1>2
<1> QED
  BY <1>1, <1>3, Zenon DEF KeptBacked, u, w, c

\* A market that an operation leaves alone, or only syncs.
LEMMA QuietBacked ==
  ASSUME IInv, NEW h \in Created
  PROVE  KeptBacked(params[h], market[h], market[h]) /\ KeptBacked(params[h], market[h], Synced(h).m)
<1> DEFINE w == Uncovered(params[h], market[h])
           d == market[h].last_timestamp - market[h].last_timestamp
<1>1. w \in Int /\ market[h].last_timestamp \in Nat /\ Covered(params[h], Synced(h).m, Synced(h).m)
  BY SyncedBacked, CoveredNot, Fields, Zenon DEF Sound
<1>2. d \in Nat
  BY <1>1
<1>3. ChunkCount(d) \in Nat
  BY <1>2, ChunkCountType, Zenon
<1> HIDE DEF w, d
<1>4. w <= w + 2 * ChunkCount(d)
  BY <1>1, <1>3
<1> QED
  BY <1>1, <1>4, LegBacked, Zenon DEF KeptBacked, w, d

\* A batch of legs that cover.
LEMMA BatchBacked ==
  ASSUME IInv, NEW leg, Commit(leg), \A h \in DOMAIN leg : h \in Created => Covered(params[h], Synced(h).m, leg[h].m)
  PROVE  MarketsBacked
<1>1. ASSUME NEW h \in Created
      PROVE  KeptBacked(params[h], market[h], market'[h])
  <2>1. market'[h] = IF h \in DOMAIN leg THEN leg[h].m ELSE market[h]
    BY Zenon DEF Commit
  <2>2. CASE h \in DOMAIN leg
    BY <2>1, <2>2, LegBacked, Zenon
  <2>3. CASE h \notin DOMAIN leg
    BY <2>1, <2>3, QuietBacked, Zenon
  <2> QED
    BY <2>2, <2>3, Zenon
<1> QED
  BY <1>1, Zenon DEF MarketsBacked

\* One leg, committed alone.
LEMMA OneBacked ==
  ASSUME IInv, NEW h \in Created, NEW n, market' = [market EXCEPT ![h] = n],
         Covered(params[h], Synced(h).m, n)
  PROVE  MarketsBacked
<1>1. ASSUME NEW g \in Created
      PROVE  KeptBacked(params[g], market[g], market'[g])
  <2>1. CASE g = h
    <3>1. market'[g] = n
      BY <2>1, Zenon DEF Created, IInv, MarketsOK
    <3> QED
      BY <2>1, <3>1, LegBacked, Zenon
  <2>2. CASE g # h
    <3>1. market'[g] = market[g]
      BY <2>2, Zenon DEF Created, IInv, MarketsOK
    <3> QED
      BY <3>1, QuietBacked, Zenon
  <2> QED
    BY <2>1, <2>2, Zenon
<1> QED
  BY <1>1, Zenon DEF MarketsBacked

\* A step that commits no market.
LEMMA UntouchedBacked ==
  ASSUME IInv, \A h \in Created : market'[h] = market[h]
  PROVE  MarketsBacked
  BY QuietBacked, Zenon DEF MarketsBacked

\* The positions and amounts that the legs take.
LEMMA LegInputs ==
  ASSUME IInv, NEW h \in Created
  PROVE  /\ params[h] \in MarketParams /\ Sound(Synced(h).m)
         /\ \A a \in Account : deposit[a][h] \in 0..MaxI128 /\ debt[a][h] \in 0..MaxI128
<1>1. h \in HubAsset
  BY LawsHold, SyncedSound, Zenon
<1> QED
  BY <1>1, SyncedBacked, Zenon DEF IInv, BooksOK, Book

\* supply, repay, borrow and withdraw keep the backing of every market.
LEMMA PositionsBacked ==
  ASSUME IInv, NEW a \in Account
  PROVE  /\ \A batch \in Batches(Amount) : Supply(a, batch) \/ Repay(a, batch) => MarketsBacked
         /\ \A batch \in Batches(Amount \ {0}) : Borrow(a, batch) => MarketsBacked
         /\ \A batch \in Batches(Amount \cup {MaxI128}) : Withdraw(a, batch) => MarketsBacked
<1> USE LegInputs
<1>0. Amount \subseteq Nat /\ MaxI128 \in Nat /\ FALSE \in BOOLEAN /\ 0 \in Nat
  BY AmountAssumption, I128Assumption
<1>1. ASSUME NEW batch \in Batches(Amount), Supply(a, batch)
      PROVE  MarketsBacked
  <2> DEFINE leg == [h \in DOMAIN batch |-> SupplyLeg(params[h], Synced(h).m, deposit[a][h], batch[h])]
  <2>1. AllOk(leg) /\ Commit(leg)
    BY <1>1, Zenon DEF Supply
  <2>2. ASSUME NEW h \in DOMAIN leg, h \in Created
        PROVE  Covered(params[h], Synced(h).m, leg[h].m)
    <3>1. leg[h] = SupplyLeg(params[h], Synced(h).m, deposit[a][h], batch[h]) /\ leg[h].ok
      BY <2>1, Zenon DEF AllOk
    <3>2. batch[h] \in Nat
      BY <1>0, <1>1, BatchType, Zenon
    <3> QED
      BY <2>2, <3>1, <3>2, SupplyLegCovered, Zenon
  <2> HIDE DEF leg
  <2> QED
    BY <2>1, <2>2, BatchBacked, Zenon
<1>2. ASSUME NEW batch \in Batches(Amount), Repay(a, batch)
      PROVE  MarketsBacked
  <2> DEFINE leg == [h \in DOMAIN batch |-> RepayLeg(params[h], Synced(h).m, debt[a][h], batch[h])]
  <2>1. AllOk(leg) /\ Commit(leg)
    BY <1>2, Zenon DEF Repay
  <2>2. ASSUME NEW h \in DOMAIN leg, h \in Created
        PROVE  Covered(params[h], Synced(h).m, leg[h].m)
    <3>1. leg[h] = RepayLeg(params[h], Synced(h).m, debt[a][h], batch[h]) /\ leg[h].ok
      BY <2>1, Zenon DEF AllOk
    <3>2. batch[h] \in Nat
      BY <1>0, <1>2, BatchType, Zenon
    <3> QED
      BY <2>2, <3>1, <3>2, RepayLegCovered, Zenon
  <2> HIDE DEF leg
  <2> QED
    BY <2>1, <2>2, BatchBacked, Zenon
<1>3. ASSUME NEW batch \in Batches(Amount \ {0}), Borrow(a, batch)
      PROVE  MarketsBacked
  <2> DEFINE leg == [h \in DOMAIN batch |-> BorrowLeg(params[h], Synced(h).m, debt[a][h], batch[h])]
  <2>1. AllOk(leg) /\ Commit(leg)
    BY <1>3, Zenon DEF Borrow
  <2>2. ASSUME NEW h \in DOMAIN leg, h \in Created
        PROVE  Covered(params[h], Synced(h).m, leg[h].m)
    <3>1. leg[h] = BorrowLeg(params[h], Synced(h).m, debt[a][h], batch[h]) /\ leg[h].ok
      BY <2>1, Zenon DEF AllOk
    <3>2. batch[h] \in Nat
      BY <1>0, <1>3, BatchType, Zenon
    <3> QED
      BY <2>2, <3>1, <3>2, BorrowLegCovered, Zenon
  <2> HIDE DEF leg
  <2> QED
    BY <2>1, <2>2, BatchBacked, Zenon
<1>4. ASSUME NEW batch \in Batches(Amount \cup {MaxI128}), Withdraw(a, batch)
      PROVE  MarketsBacked
  <2> DEFINE leg == [h \in DOMAIN batch |->
                       WithdrawLeg(params[h], Synced(h).m, deposit[a][h], batch[h], FALSE, 0)]
  <2>1. AllOk(leg) /\ Commit(leg)
    BY <1>4, Zenon DEF Withdraw
  <2>2. ASSUME NEW h \in DOMAIN leg, h \in Created
        PROVE  Covered(params[h], Synced(h).m, leg[h].m)
    <3>1. leg[h] = WithdrawLeg(params[h], Synced(h).m, deposit[a][h], batch[h], FALSE, 0) /\ leg[h].ok
      BY <2>1, Zenon DEF AllOk
    <3>2. batch[h] \in Nat
      BY <1>0, <1>4, BatchType, Zenon
    <3> QED
      BY <1>0, <2>2, <3>1, <3>2, WithdrawLegCovered, Zenon
  <2> HIDE DEF leg
  <2> QED
    BY <2>1, <2>2, BatchBacked, Zenon
<1> QED
  BY <1>1, <1>2, <1>3, <1>4, Zenon

\* So do the withdrawals of a liquidation, the borrows of a strategy and net
\* settlements.
LEMMA ComposedBacked ==
  ASSUME IInv, NEW a \in Account
  PROVE  /\ \A batch \in Batches([amount : Amount \cup {MaxI128}, fee : Fee]) :
              LiquidationWithdraw(a, batch) => MarketsBacked
         /\ \A h \in Created, amount \in Amount, charge_fee \in BOOLEAN :
              CreateStrategy(a, h, amount, charge_fee) => MarketsBacked
         /\ \A h \in Created, amount \in Amount : NetSettle(a, h, amount) => MarketsBacked
<1> USE LegInputs
<1>0. Amount \subseteq Nat /\ Fee \subseteq Nat /\ MaxI128 \in Nat /\ TRUE \in BOOLEAN
  BY AmountAssumption, I128Assumption
<1>1. ASSUME NEW batch \in Batches([amount : Amount \cup {MaxI128}, fee : Fee]),
             LiquidationWithdraw(a, batch)
      PROVE  MarketsBacked
  <2> DEFINE leg == [h \in DOMAIN batch |->
                       WithdrawLeg(params[h], Synced(h).m, deposit[a][h], batch[h].amount, TRUE, batch[h].fee)]
  <2>1. AllOk(leg) /\ Commit(leg)
    BY <1>1, Zenon DEF LiquidationWithdraw
  <2>2. ASSUME NEW h \in DOMAIN leg, h \in Created
        PROVE  Covered(params[h], Synced(h).m, leg[h].m)
    <3>1. /\ leg[h] = WithdrawLeg(params[h], Synced(h).m, deposit[a][h], batch[h].amount, TRUE, batch[h].fee)
          /\ leg[h].ok
      BY <2>1, Zenon DEF AllOk
    <3>2. batch[h] \in [amount : Amount \cup {MaxI128}, fee : Fee]
      BY <1>1, BatchType, Zenon
    <3>3. batch[h].amount \in Nat /\ batch[h].fee \in Nat
      BY <1>0, <3>2, Zenon
    <3> QED
      BY <1>0, <2>2, <3>1, <3>3, WithdrawLegCovered, Zenon
  <2> HIDE DEF leg
  <2> QED
    BY <2>1, <2>2, BatchBacked, Zenon
<1>2. ASSUME NEW h \in Created, NEW amount \in Amount, NEW charge_fee \in BOOLEAN,
             CreateStrategy(a, h, amount, charge_fee)
      PROVE  MarketsBacked
  <2> DEFINE one == StrategyLeg(params[h], Synced(h).m, debt[a][h], amount, charge_fee)
             leg == [g \in {h} |-> one]
  <2>1. AllOk(leg) /\ Commit(leg)
    BY <1>2, Zenon DEF CreateStrategy
  <2>2. DOMAIN leg = {h} /\ leg[h] = one
    BY Zenon
  <2>3. Covered(params[h], Synced(h).m, one.m)
    <3>1. one.ok /\ amount \in Nat
      BY <1>0, <2>1, <2>2, Zenon DEF AllOk
    <3> QED
      BY <3>1, StrategyLegCovered, Zenon
  <2> HIDE DEF leg, one
  <2> QED
    BY <2>1, <2>2, <2>3, BatchBacked, Zenon
<1>3. ASSUME NEW h \in Created, NEW amount \in Amount, NetSettle(a, h, amount)
      PROVE  MarketsBacked
  <2> DEFINE leg == NetSettleLeg(params[h], Synced(h).m, deposit[a][h], debt[a][h], amount)
  <2>1. leg.ok /\ market' = [market EXCEPT ![h] = leg.m] /\ amount \in Nat
    BY <1>0, <1>3, Zenon DEF NetSettle
  <2>2. Covered(params[h], Synced(h).m, leg.m)
    BY <2>1, NetSettleLegCovered, Zenon
  <2> HIDE DEF leg
  <2> QED
    BY <2>1, <2>2, OneBacked, Zenon
<1> QED
  BY <1>1, <1>2, <1>3, Zenon

\* A cleanup of bad debt takes the debt it writes off from the claims, unless
\* the index is at its floor or no claims are left; seized fees move no value.
LEMMA SeizuresBacked ==
  ASSUME IInv, NEW a \in Account
  PROVE  /\ SeizeAccount(a) => MarketsBacked
         /\ \A h \in Created, shares \in Shares : SeizeFee(a, h, shares) => MarketsBacked
<1> USE LegInputs
<1>1. ASSUME SeizeAccount(a)
      PROVE  MarketsBacked
  <2> DEFINE M == {h \in Created : deposit[a][h] > 0 \/ debt[a][h] > 0}
             absorbed == [h \in M |-> IF deposit[a][h] > 0
                                        THEN SeizeDepositLeg(Synced(h).m, deposit[a][h])
                                        ELSE Synced(h)]
             leg == [h \in M |-> IF debt[a][h] > 0
                                   THEN SeizeDebtLeg(absorbed[h].m, debt[a][h])
                                   ELSE absorbed[h]]
  <2>1. /\ \A h \in M : absorbed[h].ok
        /\ AllOk(leg) /\ market' = [h \in Created |-> IF h \in DOMAIN leg THEN leg[h].m ELSE market[h]]
    BY <1>1, ZenonT(30) DEF SeizeAccount, Commit
  <2>2. DOMAIN leg = M /\ M \subseteq Created
    BY Zenon
  <2>3. ASSUME NEW h \in M
        PROVE  KeptBacked(params[h], market[h], leg[h].m)
    <3>0. h \in Created
      BY <2>2, Zenon
    <3>1. PICK s, m, d, b : s = Synced(h) /\ m = s.m /\ d = deposit[a][h] /\ b = debt[a][h]
      BY Zenon
    <3>2. PICK x, y : x = absorbed[h] /\ y = leg[h]
      BY Zenon
    <3>3. x = (IF d > 0 THEN SeizeDepositLeg(m, d) ELSE s) /\ x.ok
      BY <2>1, <3>1, <3>2, Zenon
    <3>4. y = (IF b > 0 THEN SeizeDebtLeg(x.m, b) ELSE x) /\ y.ok
      BY <2>1, <2>2, <3>1, <3>2, Zenon DEF AllOk
    <3> HIDE DEF absorbed, leg, M
    <3>5. d \in Nat /\ b \in Nat
      BY <3>0, <3>1, Ranges
    <3>6. SeizePath(s, m, x, y, d, b)
      BY <3>0, <3>1, <3>3, <3>4, Zenon DEF SeizePath
    <3>7. CASE Covered(params[h], m, y.m)
      BY <3>0, <3>1, <3>2, <3>7, LegBacked, Zenon
    <3>8. CASE b > 0 /\ (y.m.supply_index = SupplyIndexFloor \/ ClaimsFloor(y.m) = 0)
      <4>1. Seized(m, y.m, d, b)
        BY <3>5, <3>6, LegLawsHold, Zenon DEF LegLaws, SeizeMarketLaw
      <4>2. y.m.borrowed = m.borrowed - b /\ m.borrowed = market[h].borrowed /\ Sound(market[h])
        BY <3>0, <3>1, <4>1, SyncedBacked, Zenon DEF Seized, Accrued
      <4>3. market[h].borrowed \in Int
        BY <4>2, FieldIntegers, Zenon
      <4>4. y.m.borrowed < market[h].borrowed
        BY <3>5, <3>8, <4>2, <4>3
      <4> QED
        BY <3>2, <3>8, <4>4, Zenon DEF KeptBacked
    <3> QED
      BY <3>0, <3>5, <3>6, <3>7, <3>8, SeizeMarketCovered, Zenon
  <2>4. ASSUME NEW h \in Created
        PROVE  KeptBacked(params[h], market[h], market'[h])
    <3> HIDE DEF leg, M
    <3>1. market'[h] = IF h \in DOMAIN leg THEN leg[h].m ELSE market[h]
      BY <2>1, Zenon
    <3> QED
      BY <2>2, <2>3, <3>1, QuietBacked, Zenon
  <2> QED
    BY <2>4, Zenon DEF MarketsBacked
<1>2. ASSUME NEW h \in Created, NEW shares \in Shares, SeizeFee(a, h, shares)
      PROVE  MarketsBacked
  <2> DEFINE leg == SeizeDepositLeg(Synced(h).m, shares)
  <2>1. leg.ok /\ market' = [market EXCEPT ![h] = leg.m]
    BY <1>2, Zenon DEF SeizeFee
  <2>2. shares \in Nat
    BY AmountAssumption
  <2>3. Covered(params[h], Synced(h).m, leg.m)
    BY <2>1, <2>2, SeizeDepositLegCovered, Zenon
  <2> HIDE DEF leg
  <2> QED
    BY <2>1, <2>3, OneBacked, Zenon
<1> QED
  BY <1>1, <1>2, Zenon

\* Claims of revenue, recapitalizations and the fee of a flash loan keep the
\* backing, and so do the operations that move no value.
LEMMA ProtocolBacked ==
  ASSUME IInv
  PROVE  /\ \A h \in Created : ClaimRevenue(h) => MarketsBacked
         /\ \A h \in Created, amount \in Amount :
              Recapitalize(h, amount) \/ FlashBegin(h, amount) => MarketsBacked
         /\ FlashEnd => MarketsBacked
<1> USE LegInputs
<1>1. ASSUME NEW h \in Created, ClaimRevenue(h)
      PROVE  MarketsBacked
  <2> DEFINE one == ClaimRevenueLeg(params[h], Synced(h).m)
             leg == [g \in {h} |-> one]
  <2>1. AllOk(leg) /\ Commit(leg)
    BY <1>1, Zenon DEF ClaimRevenue
  <2>2. DOMAIN leg = {h} /\ leg[h] = one
    BY Zenon
  <2>3. Covered(params[h], Synced(h).m, one.m)
    BY <2>1, <2>2, ClaimRevenueLegCovered, Zenon DEF AllOk
  <2> HIDE DEF leg, one
  <2> QED
    BY <2>1, <2>2, <2>3, BatchBacked, Zenon
<1>2. ASSUME NEW h \in Created, NEW amount \in Amount, Recapitalize(h, amount)
      PROVE  MarketsBacked
  <2> DEFINE one == RecapitalizeLeg(params[h], Synced(h).m, amount)
             leg == [g \in {h} |-> one]
  <2>1. AllOk(leg) /\ Commit(leg) /\ amount \in Nat
    BY <1>2, AmountAssumption, Zenon DEF Recapitalize
  <2>2. DOMAIN leg = {h} /\ leg[h] = one
    BY Zenon
  <2>3. Covered(params[h], Synced(h).m, one.m)
    BY <2>1, <2>2, RecapitalizeLegCovered, Zenon DEF AllOk
  <2> HIDE DEF leg, one
  <2> QED
    BY <2>1, <2>2, <2>3, BatchBacked, Zenon
<1>3. ASSUME NEW h \in Created, NEW amount \in Amount, FlashBegin(h, amount)
      PROVE  MarketsBacked
  <2>1. market' = market
    BY <1>3, Zenon DEF FlashBegin
  <2> QED
    BY <2>1, UntouchedBacked, Zenon
<1>4. ASSUME FlashEnd
      PROVE  MarketsBacked
  <2>1. PICK h, n : h = flash.hub_asset /\ n = BookFlashFee(params[h], flash.cache, flash.fee).m
    BY Zenon
  <2>2. /\ ~Idle /\ BookFlashFee(params[h], flash.cache, flash.fee).ok
        /\ market' = [market EXCEPT ![h] = n]
    BY <1>4, <2>1, Zenon DEF FlashEnd
  <2>3. h \in Created /\ flash.fee \in Nat /\ flash.cache = Synced(h).m
    BY <2>1, <2>2, Zenon DEF IInv, FlashOK
  <2>4. Covered(params[h], Synced(h).m, n)
    BY <2>1, <2>2, <2>3, BookFlashFeeCovered, Zenon
  <2> QED
    BY <2>2, <2>3, <2>4, OneBacked, Zenon
<1> QED
  BY <1>1, <1>2, <1>3, <1>4, Zenon

\* Opening, tuning and syncing markets, donations and the clock leave a market
\* alone or sync it.
LEMMA ServiceBacked ==
  ASSUME IInv
  PROVE  /\ \A h \in HubAsset, p \in ParamSets : CreateMarket(h, p) \/ UpdateParams(h, p) => MarketsBacked
         /\ \A M \in SUBSET Created : UpdateIndexes(M) => MarketsBacked
         /\ \A t \in Asset, amount \in Donation : Donate(t, amount) => MarketsBacked
         /\ Tick => MarketsBacked
<1>1. ASSUME NEW h \in HubAsset, NEW p \in ParamSets, CreateMarket(h, p)
      PROVE  MarketsBacked
  <2>1. /\ h \notin Created
        /\ market' = [g \in Created \cup {h} |-> IF g = h THEN NewMarket(now) ELSE market[g]]
    BY <1>1, Zenon DEF CreateMarket
  <2>2. \A g \in Created : market'[g] = market[g]
    BY <2>1, Zenon
  <2> QED
    BY <2>2, UntouchedBacked, Zenon
<1>2. ASSUME NEW h \in HubAsset, NEW p \in ParamSets, UpdateParams(h, p)
      PROVE  MarketsBacked
  <2>1. h \in Created /\ market' = [market EXCEPT ![h] = Synced(h).m]
    BY <1>2, Zenon DEF UpdateParams
  <2>2. Covered(params[h], Synced(h).m, Synced(h).m)
    BY <2>1, SyncedBacked, CoveredNot, Zenon
  <2> QED
    BY <2>1, <2>2, OneBacked, Zenon
<1>3. ASSUME NEW M \in SUBSET Created, UpdateIndexes(M)
      PROVE  MarketsBacked
  <2>1. market' = [h \in Created |-> IF h \in M THEN Synced(h).m ELSE market[h]]
    BY <1>3, Zenon DEF UpdateIndexes
  <2>2. \A h \in Created : market'[h] = Synced(h).m \/ market'[h] = market[h]
    BY <2>1, Zenon
  <2> QED
    BY <2>2, QuietBacked, Zenon DEF MarketsBacked
<1>4. ASSUME NEW t \in Asset, NEW amount \in Donation, Donate(t, amount)
      PROVE  MarketsBacked
  <2>1. market' = market
    BY <1>4, Zenon DEF Donate
  <2> QED
    BY <2>1, UntouchedBacked, Zenon
<1>5. ASSUME Tick
      PROVE  MarketsBacked
  <2>1. market' = market
    BY <1>5, Zenon DEF Tick
  <2> QED
    BY <2>1, UntouchedBacked, Zenon
<1> QED
  BY <1>1, <1>2, <1>3, <1>4, <1>5, Zenon

\* No operation takes value out of a market (INV-ACCT-04): claims never outgrow
\* debt and cash, except by the rounding of an accrual chunk or when a write-off
\* stops at the index floor or finds no claims to cut.
THEOREM BackingNeverLost == Spec => BackingKept
<1>1. ASSUME IInv, Next
      PROVE  FlashRevert \/ MarketsBacked
  BY <1>1, PositionsBacked, ComposedBacked, SeizuresBacked, ProtocolBacked, ServiceBacked, ZenonT(60) DEF Next
<1>2. IInv /\ [Next]_vars =>
        [FlashRevert \/ \A h \in Created :
           LET m == market[h]
               n == market'[h]
           IN  \/ Uncovered(params[h], n)
                   <= Uncovered(params[h], m) + 2 * ChunkCount(n.last_timestamp - m.last_timestamp)
               \/ /\ n.borrowed < m.borrowed
                  /\ n.supply_index = SupplyIndexFloor \/ ClaimsFloor(n) = 0]_vars
  BY <1>1, Zenon DEF MarketsBacked, KeptBacked
<1> QED
  BY <1>2, LedgerInvariant, PTL DEF Spec, BackingKept

-----------------------------------------------------------------------------
(* Flash loans.                                                             *)

\* The operations that wait for the end of a flash loan.
LEMMA GuardedTrace ==
  ASSUME NEW a, NEW h, NEW batch, NEW amount, NEW charge_fee, NEW shares, NEW M,
         \/ Supply(a, batch) \/ Repay(a, batch) \/ Borrow(a, batch) \/ Withdraw(a, batch)
         \/ LiquidationWithdraw(a, batch) \/ NetSettle(a, h, amount)
         \/ CreateStrategy(a, h, amount, charge_fee) \/ SeizeAccount(a) \/ SeizeFee(a, h, shares)
         \/ ClaimRevenue(h) \/ Recapitalize(h, amount) \/ UpdateIndexes(M) \/ Tick
  PROVE  FlashTrace'
<1>1. CASE Supply(a, batch) \/ Repay(a, batch) \/ Borrow(a, batch)
  BY <1>1, IdleTrace, Zenon DEF Supply, Repay, Borrow
<1>2. CASE Withdraw(a, batch) \/ LiquidationWithdraw(a, batch)
  BY <1>2, IdleTrace, Zenon DEF Withdraw, LiquidationWithdraw
<1>3. CASE NetSettle(a, h, amount) \/ CreateStrategy(a, h, amount, charge_fee)
  BY <1>3, IdleTrace, Zenon DEF NetSettle, CreateStrategy
<1>4. CASE SeizeAccount(a) \/ SeizeFee(a, h, shares)
  BY <1>4, IdleTrace, Zenon DEF SeizeAccount, SeizeFee
<1>5. CASE ClaimRevenue(h) \/ Recapitalize(h, amount) \/ UpdateIndexes(M) \/ Tick
  BY <1>5, IdleTrace, Zenon DEF ClaimRevenue, Recapitalize, UpdateIndexes, Tick
<1> QED
  BY <1>1, <1>2, <1>3, <1>4, <1>5, Zenon

\* Every step keeps what is known of a flash loan in progress.
LEMMA TraceStep ==
  ASSUME IInv, FlashTrace, [Next]_vars
  PROVE  FlashTrace'
<1> USE LawsHold
<1>1. CASE UNCHANGED vars
  BY <1>1, Zenon DEF vars, books, FlashTrace, SyncedAtStart, Idle, Created
<1>2. ASSUME NEW h \in HubAsset, NEW p \in ParamSets, CreateMarket(h, p) \/ UpdateParams(h, p)
      PROVE  FlashTrace'
  BY <1>2, CreateMarketTrace, UpdateParamsTrace, Zenon
<1>3. ASSUME NEW h \in Created, NEW amount \in Amount, FlashBegin(h, amount)
      PROVE  FlashTrace'
  BY <1>3, FlashBeginTrace, Zenon
<1>4. ASSUME NEW t \in Asset, NEW amount \in Donation, Donate(t, amount)
      PROVE  FlashTrace'
  BY <1>4, DonateTrace, Zenon
<1>5. CASE FlashEnd \/ FlashRevert
  <2>1. Idle'
    BY <1>5, Zenon DEF FlashEnd, FlashRevert, Idle
  <2> QED
    BY <2>1, Zenon DEF FlashTrace
<1> QED
  BY <1>1, <1>2, <1>3, <1>4, <1>5, GuardedTrace, ZenonT(60) DEF Next

\* A flash loan that is repaid leaves the pool as a sync at its start would have
\* left it, plus the fee, whatever the receiver and the owner did meanwhile
\* (INV-FLASH-01): the copy committed at the end loses nothing.
THEOREM FlashLeavesOnlyTheFee == Spec => FlashIsNeutral
<1>1. Init => FlashTrace
  BY Zenon DEF Init, FlashTrace, Idle
<1>2. IInv /\ FlashTrace /\ [Next]_vars => FlashTrace'
  BY TraceStep
<1>3. IInv /\ FlashTrace /\ [Next]_vars =>
        [FlashEnd =>
           LET h     == flash.hub_asset
               t     == AssetOf[h]
               start == flash.start
               synced(g) == GlobalSync(start.params[g], start.market[g], now).m
           IN  /\ balance'[t] = start.balance[t] + flash.fee /\ donated'[t] = start.donated[t]
               /\ books' = <<start.deposit, start.debt>>
               /\ market'[h].cash = start.market[h].cash + flash.fee
               /\ market'[h].borrowed = start.market[h].borrowed
               /\ market'[h].borrow_index = synced(h).borrow_index
               /\ \A g \in DOMAIN start.market \ {h} : market'[g] \in {start.market[g], synced(g)}]_vars
  BY LawsHold, FlashEndNeutral, Zenon
<1> QED
  BY <1>1, <1>2, <1>3, LedgerInvariant, PTL DEF Spec, FlashIsNeutral
=============================================================================
