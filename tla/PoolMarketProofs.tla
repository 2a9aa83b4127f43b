-------------------------- MODULE PoolMarketProofs --------------------------
(***************************************************************************)
(* Net settlements, the fee of a liquidation, the cleaning of bad debt,    *)
(* the operations that move no position (revenue, the sync of indexes,     *)
(* opening and tuning a market, donations, flash loans) and the passing of *)
(* time keep the invariant of the pool.                                    *)
(***************************************************************************)
EXTENDS PoolLedgerProofs

-----------------------------------------------------------------------------
(* Netting a position, and the fee of a liquidation.                        *)

\* The law of a netting leg, at one leg.
LEMMA NetSettled ==
  ASSUME Laws, NEW p \in MarketParams, NEW m, Sound(m), NEW supply \in 0..MaxI128, NEW owed \in 0..MaxI128,
         NEW amount \in Nat, NEW leg, leg = NetSettleLeg(p, m, supply, owed, amount), leg.ok
  PROVE  /\ Settled(m, leg.m, 0, 0)
         /\ leg.supply \in 0..MaxI128 /\ leg.debt \in 0..MaxI128
         /\ (leg.m.supplied - leg.m.revenue) - (m.supplied - m.revenue) = leg.supply - supply
         /\ leg.m.borrowed - m.borrowed = leg.debt - owed
<1>1. NetSettleLegLaw
  BY Zenon DEF Laws, LegLaws
<1> QED
  BY <1>1 DEF NetSettleLegLaw

\* net_settle keeps the invariant.
LEMMA NetSettleInv ==
  ASSUME Laws, IInv, NEW a \in Account, NEW h \in Created, NEW amount \in Amount, NetSettle(a, h, amount)
  PROVE  IInv' /\ MarketsMove
<1> DEFINE leg == NetSettleLeg(params[h], Synced(h).m, deposit[a][h], debt[a][h], amount)
<1>1. /\ Idle /\ leg.ok
      /\ market' = [market EXCEPT ![h] = leg.m]
      /\ deposit' = [deposit EXCEPT ![a][h] = leg.supply]
      /\ debt' = [debt EXCEPT ![a][h] = leg.debt]
      /\ UNCHANGED <<params, tokens, flash, now>>
  BY Zenon DEF NetSettle
<1>2. /\ MarketsOK(market, params, now) /\ deposit \in Book /\ debt \in Book /\ now \in Nat
      /\ BooksOK(market, deposit, debt)
  BY DEF IInv, BooksOK
<1>3. /\ Sound(Synced(h).m) /\ params[h] \in MarketParams /\ h \in HubAsset
      /\ deposit[a][h] \in 0..MaxI128 /\ debt[a][h] \in 0..MaxI128 /\ amount \in Nat
      /\ Accrued(market[h], Synced(h).m) /\ Synced(h).m.last_timestamp = now
  BY <1>2, SyncedSound, AmountAssumption, ZenonT(30) DEF Book
<1>4. /\ Settled(Synced(h).m, leg.m, 0, 0)
      /\ leg.supply \in 0..MaxI128 /\ leg.debt \in 0..MaxI128
      /\ (leg.m.supplied - leg.m.revenue) - (Synced(h).m.supplied - Synced(h).m.revenue)
            = leg.supply - deposit[a][h]
      /\ leg.m.borrowed - Synced(h).m.borrowed = leg.debt - debt[a][h]
  BY <1>1, <1>3, NetSettled
<1> HIDE DEF leg
<1>5. /\ deposit' \in Book /\ deposit'[a][h] = leg.supply
      /\ \A b \in Account \ {a} : deposit'[b] = deposit[b]
      /\ \A g \in HubAsset \ {h} : deposit'[a][g] = deposit[a][g]
  <2>1. PICK x \in 0..MaxI128 : x = leg.supply
    BY <1>4, Zenon
  <2>2. deposit' = [deposit EXCEPT ![a][h] = x]
    BY <1>1, <2>1, Zenon
  <2> QED
    BY <1>2, <1>3, <2>1, <2>2 DEF Book
<1>6. /\ debt' \in Book /\ debt'[a][h] = leg.debt
      /\ \A b \in Account \ {a} : debt'[b] = debt[b]
      /\ \A g \in HubAsset \ {h} : debt'[a][g] = debt[a][g]
  <2>1. PICK x \in 0..MaxI128 : x = leg.debt
    BY <1>4
  <2>2. debt' = [debt EXCEPT ![a][h] = x]
    BY <1>1, <2>1
  <2> QED
    BY <1>2, <1>3, <2>1, <2>2, Zenon DEF Book
<1>7. /\ market' = [g \in Created |-> market'[g]] /\ market'[h] = leg.m
      /\ \A g \in Created \ {h} : market'[g] = market[g]
  BY <1>1, <1>2, ZenonT(20) DEF MarketsOK, Created
<1>8. ASSUME NEW g \in Created
      PROVE  /\ Sound(market'[g]) /\ market'[g].last_timestamp <= now
             /\ market'[g].cash = market[g].cash /\ MarketMove(market[g], market'[g])
             /\ PositionsMove(market[g], market'[g], deposit[a][g], deposit'[a][g], debt[a][g], debt'[a][g])
  <2>1. CASE g = h
    <3>1. Sound(leg.m) /\ leg.m.last_timestamp <= now /\ leg.m.cash = market[h].cash
      <4>1. Synced(h).m.cash \in Int
        BY <1>3, MarketFields, MarketRanges DEF Sound
      <4> QED
        BY <1>2, <1>3, <1>4, <4>1 DEF Settled, Accrued
    <3>2. PositionsMove(Synced(h).m, leg.m, deposit[a][h], leg.supply, debt[a][h], leg.debt)
      BY <1>4, Zenon DEF PositionsMove
    <3>3. PositionsMove(market[h], leg.m, deposit[a][h], leg.supply, debt[a][h], leg.debt)
      BY <3>2, SyncedBooks, Zenon
    <3>4. MarketMove(market[h], leg.m)
      <4>1. Sound(market[h])
        BY SyncedSound, Zenon
      <4> QED
        BY <1>3, <1>4, <4>1, SettlementMoves, Zenon
    <3> QED
      BY <1>5, <1>6, <1>7, <2>1, <3>1, <3>3, <3>4, Zenon
  <2>2. CASE g # h
    <3>1. /\ market'[g] = market[g] /\ Sound(market[g]) /\ market[g].last_timestamp <= now
          /\ g \in HubAsset /\ deposit'[a][g] = deposit[a][g] /\ debt'[a][g] = debt[a][g]
      BY <1>5, <1>6, <1>7, <2>2, SyncedSound, Zenon
    <3>2. /\ market[g].borrowed \in Int /\ market[g].supplied \in Int /\ market[g].revenue \in Int
          /\ deposit[a][g] \in Int /\ debt[a][g] \in Int
      BY <1>2, <3>1, MarketFields, MarketRanges, SMTT(30) DEF Sound, Book
    <3>3. MarketMove(market[g], market'[g])
      BY <3>1, AccrualMoves
    <3> QED
      BY <3>1, <3>2, <3>3 DEF PositionsMove
  <2> QED
    BY <2>1, <2>2
<1>9. \A g \in HubAsset \ Created : deposit'[a][g] = 0 /\ debt'[a][g] = 0
  BY <1>2, <1>5, <1>6 DEF BooksOK, Created
<1>10. QuietMarkets(a)
  BY <1>7, <1>8, Zenon DEF QuietMarkets
<1>11. QuietBooks(a)
  BY <1>5, <1>6, <1>9 DEF QuietBooks
<1> QED
  BY <1>1, <1>10, <1>11, QuietStep

\* seize_positions of the fee shares of a Credit-mode liquidation keeps the
\* invariant.
LEMMA SeizeFeeInv ==
  ASSUME Laws, IInv, NEW a \in Account, NEW h \in Created, NEW shares \in Shares, SeizeFee(a, h, shares)
  PROVE  IInv' /\ MarketsMove
<1> DEFINE leg == SeizeDepositLeg(Synced(h).m, shares)
<1>1. /\ Idle /\ leg.ok /\ shares \in 1..deposit[a][h]
      /\ market' = [market EXCEPT ![h] = leg.m]
      /\ deposit' = [deposit EXCEPT ![a][h] = deposit[a][h] - shares]
      /\ UNCHANGED <<params, tokens, debt, flash, now>>
  BY Zenon DEF SeizeFee
<1>2. /\ MarketsOK(market, params, now) /\ deposit \in Book /\ debt \in Book /\ now \in Nat
      /\ BooksOK(market, deposit, debt)
  BY DEF IInv, BooksOK
<1>3. /\ Sound(Synced(h).m) /\ h \in HubAsset
      /\ deposit[a][h] \in 0..MaxI128 /\ debt[a][h] \in 0..MaxI128 /\ shares \in Nat
      /\ Accrued(market[h], Synced(h).m) /\ Synced(h).m.last_timestamp = now
  BY <1>2, SyncedSound, AmountAssumption, Zenon DEF Book
<1>4. /\ Settled(Synced(h).m, leg.m, 0, 0)
      /\ leg.m.borrowed = Synced(h).m.borrowed
      /\ leg.m.supplied - leg.m.revenue = Synced(h).m.supplied - Synced(h).m.revenue - shares
  BY <1>1, <1>3, Zenon DEF Laws, LegLaws, SeizeDepositLegLaw
<1> HIDE DEF leg
<1>5. /\ deposit' \in Book /\ deposit'[a][h] = deposit[a][h] - shares
      /\ \A b \in Account \ {a} : deposit'[b] = deposit[b]
      /\ \A g \in HubAsset \ {h} : deposit'[a][g] = deposit[a][g]
  <2>1. PICK x \in 0..MaxI128 : x = deposit[a][h] - shares
    BY <1>1, <1>3, MarketRanges
  <2>2. deposit' = [deposit EXCEPT ![a][h] = x]
    BY <1>1, <2>1
  <2> QED
    BY <1>2, <1>3, <2>1, <2>2 DEF Book
<1>6. debt' = debt
  BY <1>1
<1>7. /\ market' = [g \in Created |-> market'[g]] /\ market'[h] = leg.m
      /\ \A g \in Created \ {h} : market'[g] = market[g]
  BY <1>1, <1>2, ZenonT(20) DEF MarketsOK, Created
<1>8. ASSUME NEW g \in Created
      PROVE  /\ Sound(market'[g]) /\ market'[g].last_timestamp <= now
             /\ market'[g].cash = market[g].cash /\ MarketMove(market[g], market'[g])
             /\ PositionsMove(market[g], market'[g], deposit[a][g], deposit'[a][g], debt[a][g], debt'[a][g])
  <2>1. CASE g = h
    <3>0. /\ Synced(h).m.cash \in Int /\ Synced(h).m.supplied \in Int /\ Synced(h).m.revenue \in Int
          /\ Synced(h).m.borrowed \in Int
      BY <1>3, MarketFields, MarketRanges DEF Sound
    <3>1. Sound(leg.m) /\ leg.m.last_timestamp <= now /\ leg.m.cash = market[h].cash
      <4>1. /\ Sound(leg.m) /\ leg.m.last_timestamp = Synced(h).m.last_timestamp
            /\ leg.m.cash = Synced(h).m.cash + 0 - 0
        BY <1>4, Zenon DEF Settled
      <4>2. Synced(h).m.cash = market[h].cash
        BY <1>3, Zenon DEF Accrued
      <4> QED
        BY <1>2, <1>3, <3>0, <4>1, <4>2
    <3>2. PositionsMove(Synced(h).m, leg.m, deposit[a][h], deposit[a][h] - shares, debt[a][h], debt[a][h])
      BY <1>3, <1>4, <3>0, MarketRanges, SMTT(30) DEF PositionsMove
    <3>3. PositionsMove(market[h], leg.m, deposit[a][h], deposit[a][h] - shares, debt[a][h], debt[a][h])
      BY <3>2, SyncedBooks, Zenon
    <3>4. MarketMove(market[h], leg.m)
      <4>1. Sound(market[h])
        BY SyncedSound
      <4> QED
        BY <1>3, <1>4, <4>1, SettlementMoves, SMTT(30)
    <3> QED
      BY <1>5, <1>6, <1>7, <2>1, <3>1, <3>3, <3>4
  <2>2. CASE g # h
    <3>1. /\ market'[g] = market[g] /\ Sound(market[g]) /\ market[g].last_timestamp <= now
          /\ g \in HubAsset /\ deposit'[a][g] = deposit[a][g] /\ debt'[a][g] = debt[a][g]
      BY <1>5, <1>6, <1>7, <2>2, SyncedSound, SMTT(30)
    <3>2. /\ market[g].borrowed \in Int /\ market[g].supplied \in Int /\ market[g].revenue \in Int
          /\ deposit[a][g] \in Int /\ debt[a][g] \in Int
      BY <1>2, <3>1, MarketFields, MarketRanges DEF Sound, Book
    <3>3. MarketMove(market[g], market'[g])
      BY <3>1, AccrualMoves
    <3> QED
      BY <3>1, <3>2, <3>3 DEF PositionsMove
  <2> QED
    BY <2>1, <2>2
<1>9. \A g \in HubAsset \ Created : deposit'[a][g] = 0 /\ debt'[a][g] = 0
  BY <1>2, <1>5, <1>6, Zenon DEF BooksOK, Created
<1>10. QuietMarkets(a)
  BY <1>7, <1>8 DEF QuietMarkets
<1>11. QuietBooks(a)
  BY <1>2, <1>5, <1>6, <1>9 DEF QuietBooks
<1> QED
  BY <1>1, <1>10, <1>11, QuietStep

-----------------------------------------------------------------------------
(* Bad debt.                                                                *)

\* seize_positions of an account in bad debt keeps the invariant.
LEMMA SeizeAccountInv ==
  ASSUME Laws, IInv, NEW a \in Account, SeizeAccount(a)
  PROVE  IInv' /\ MarketsMove
<1> DEFINE M == {h \in Created : deposit[a][h] > 0 \/ debt[a][h] > 0}
           absorbed == [h \in M |-> IF deposit[a][h] > 0
                                       THEN SeizeDepositLeg(Synced(h).m, deposit[a][h])
                                       ELSE Synced(h)]
           leg == [h \in M |-> IF debt[a][h] > 0
                                  THEN SeizeDebtLeg(absorbed[h].m, debt[a][h])
                                  ELSE absorbed[h]]
           none == [h \in HubAsset |-> 0]
<1>1. /\ Idle /\ \A h \in M : absorbed[h].ok
      /\ \A h \in DOMAIN leg : leg[h].ok
      /\ market' = [h \in Created |-> IF h \in DOMAIN leg THEN leg[h].m ELSE market[h]]
      /\ deposit' = [deposit EXCEPT ![a] = none]
      /\ debt' = [debt EXCEPT ![a] = none]
      /\ UNCHANGED <<params, tokens, flash, now>>
  BY ZenonT(20) DEF SeizeAccount, AllOk, Commit
<1>2. /\ MarketsOK(market, params, now) /\ deposit \in Book /\ debt \in Book /\ now \in Nat
      /\ BooksOK(market, deposit, debt) /\ Created \subseteq HubAsset
  BY DEF IInv, BooksOK, MarketsOK, Created
<1>3. none \in [HubAsset -> 0..MaxI128] /\ \A h \in HubAsset : none[h] = 0
  BY MarketRanges, SMTT(30)
<1>4. ASSUME NEW h \in M
      PROVE  /\ Sound(leg[h].m) /\ leg[h].m.last_timestamp = now /\ leg[h].m.cash = market[h].cash
             /\ PositionsMove(market[h], leg[h].m, deposit[a][h], 0, debt[a][h], 0)
             /\ MarketMove(market[h], leg[h].m)
  <2>1. PICK s, m, d, b : s = Synced(h) /\ m = Synced(h).m /\ d = deposit[a][h] /\ b = debt[a][h]
    BY SMTT(30)
  <2>2. /\ Sound(m) /\ d \in Nat /\ b \in Nat /\ m.last_timestamp = now
        /\ Accrued(market[h], m)
    BY <1>2, <2>1, SyncedSound, MarketRanges, SMTT(30) DEF Book
  <2>3. PICK x, y : x = absorbed[h] /\ y = leg[h]
    BY ZenonT(20)
  <2>4. x = (IF d > 0 THEN SeizeDepositLeg(m, d) ELSE s) /\ x.ok
    BY <1>1, <2>1, <2>3, ZenonT(20)
  <2>5. y = (IF b > 0 THEN SeizeDebtLeg(x.m, b) ELSE x) /\ y.ok
    BY <1>1, <2>1, <2>3, ZenonT(20)
  <2> HIDE DEF absorbed, leg
  <2>a. SeizePath(s, m, x, y, d, b)
    BY <2>1, <2>2, <2>4, <2>5, ZenonT(20) DEF SeizePath
  <2>b. SeizeMarketLaw
    BY DEF Laws, LegLaws
  <2>c. Seized(m, y.m, d, b)
    BY <2>a, <2>b, <2>2, Zenon DEF SeizeMarketLaw
  <2>6. /\ Sound(y.m) /\ y.m.last_timestamp = m.last_timestamp /\ y.m.cash = m.cash
        /\ y.m.borrow_index = m.borrow_index /\ y.m.supplied = m.supplied
        /\ (b = 0 => y.m.supply_index = m.supply_index)
        /\ y.m.supplied - y.m.revenue = m.supplied - m.revenue - d
        /\ y.m.borrowed = m.borrowed - b
    BY <2>c, Zenon DEF Seized
  <2>7. /\ m.supplied \in Int /\ m.revenue \in Int /\ m.borrowed \in Int
    BY <2>2, MarketFields, MarketRanges, SMTT(30) DEF Sound
  <2>8. PositionsMove(m, y.m, d, 0, b, 0)
    BY <2>2, <2>6, <2>7, SMTT(30) DEF PositionsMove
  <2>9. PositionsMove(market[h], y.m, d, 0, b, 0)
    BY <2>1, <2>8, SyncedBooks, SMTT(30)
  <2>10. MarketMove(market[h], y.m)
    <3>1. /\ m.supplied >= market[h].supplied /\ m.borrowed = market[h].borrowed /\ m.cash = market[h].cash
          /\ m.borrow_index >= market[h].borrow_index /\ m.supply_index >= market[h].supply_index
      BY <2>2, SMTT(30) DEF Accrued
    <3>2. /\ market[h].supplied \in Int /\ m.supply_index \in Int /\ market[h].supply_index \in Int
      BY <2>2, SyncedSound, FieldIntegers, SMTT(30)
    <3> QED
      BY <2>2, <2>6, <2>7, <3>1, <3>2, SMTT(30) DEF MarketMove
  <2> QED
    BY <2>1, <2>2, <2>3, <2>6, <2>9, <2>10, SMTT(30) DEF Accrued
<1>5. DOMAIN leg = M
  BY SMTT(30)
<1> HIDE DEF leg, absorbed
<1>6. /\ deposit' \in Book /\ debt' \in Book
      /\ \A h \in HubAsset : deposit'[a][h] = 0 /\ debt'[a][h] = 0
      /\ \A b \in Account \ {a} : deposit'[b] = deposit[b] /\ debt'[b] = debt[b]
  <2> HIDE DEF none
  <2> QED
    BY <1>1, <1>2, <1>3, SMTT(30) DEF Book
<1>7. ASSUME NEW h \in Created
      PROVE  /\ Sound(market'[h]) /\ market'[h].last_timestamp <= now
             /\ market'[h].cash = market[h].cash /\ MarketMove(market[h], market'[h])
             /\ PositionsMove(market[h], market'[h], deposit[a][h], deposit'[a][h], debt[a][h], debt'[a][h])
  <2>0. h \in HubAsset /\ deposit'[a][h] = 0 /\ debt'[a][h] = 0
    BY <1>2, <1>6, SMTT(30)
  <2>1. CASE h \in M
    <3>1. market'[h] = leg[h].m
      BY <1>1, <1>5, <2>1, SMTT(30)
    <3> QED
      BY <1>2, <1>4, <2>0, <2>1, <3>1, SMTT(30)
  <2>2. CASE h \notin M
    <3>1. /\ market'[h] = market[h] /\ Sound(market[h]) /\ market[h].last_timestamp <= now
      BY <1>1, <1>5, <2>2, SyncedSound, SMTT(30)
    <3>2. deposit[a][h] = 0 /\ debt[a][h] = 0
      BY <1>2, <2>0, <2>2, MarketRanges DEF Book
    <3>3. /\ market[h].borrowed \in Int /\ market[h].supplied \in Int /\ market[h].revenue \in Int
      BY <3>1, MarketFields, MarketRanges DEF Sound
    <3>4. MarketMove(market[h], market'[h])
      BY <3>1, AccrualMoves, SMTT(30)
    <3> QED
      BY <2>0, <3>1, <3>2, <3>3, <3>4, SMTT(30) DEF PositionsMove
  <2> QED
    BY <2>1, <2>2, SMTT(30)
<1>8. market' = [h \in Created |-> market'[h]]
  BY <1>1
<1>9. QuietMarkets(a)
  BY <1>7, <1>8, SMTT(30) DEF QuietMarkets
<1>10. QuietBooks(a)
  BY <1>6, SMTT(30) DEF QuietBooks
<1> QED
  BY <1>1, <1>9, <1>10, QuietStep, SMTT(30)

-----------------------------------------------------------------------------
(* Revenue and indexes.                                                     *)

\* A claim or a recapitalization: one market, no position.
LEMMA ProtocolLeg ==
  ASSUME Laws, IInv, Idle, NEW h \in Created, NEW one, NEW amount \in Nat, NEW leg, NEW in,
         leg = [g \in {h} |-> one], in = [g \in {h} |-> amount],
         Settled(Synced(h).m, one.m, amount, one.out), BooksKept(Synced(h).m, one.m),
         Commit(leg), Move(leg, in), UNCHANGED <<params, books, flash, now>>
  PROVE  IInv' /\ MarketsMove
<1>1. DOMAIN leg = {h} /\ leg[h] = one /\ in[h] = amount
  OBVIOUS
<1>2. \A g \in DOMAIN leg : in[g] \in Nat /\ Settled(Synced(g).m, leg[g].m, in[g], leg[g].out)
  BY <1>1
<1>3. DOMAIN leg \subseteq Created
  BY <1>1, SMTT(30)
<1>4. /\ MarketsOK(market, params, now)'
      /\ TokensOK(balance, wallet, donated)'
      /\ Custody(market, balance, donated, NothingLent)'
      /\ DOMAIN market' = Created
      /\ \A g \in DOMAIN leg : market'[g] = leg[g].m
      /\ \A g \in Created \ DOMAIN leg : market'[g] = market[g]
      /\ MarketsMove
  BY <1>2, <1>3, BatchSound, ZenonT(20)
<1>5. \A g \in Created : BooksKept(market[g], market'[g])
  <2>1. market'[h] = one.m /\ \A g \in Created \ {h} : market'[g] = market[g]
    BY <1>1, <1>4, ZenonT(20)
  <2>2. BooksKept(market[h], one.m)
    BY BooksKeptSynced, SMTT(30)
  <2>3. \A g \in Created : BooksKept(market[g], market[g])
    BY DEF BooksKept
  <2> QED
    BY <2>1, <2>2, <2>3, ZenonT(20)
<1>6. BooksOK(market, deposit, debt) /\ now \in Nat
  BY SMTT(30) DEF IInv
<1>7. BooksOK(market', deposit, debt)
  BY <1>4, <1>5, <1>6, BooksSame, ZenonT(20) DEF Created
<1> QED
  BY <1>4, <1>6, <1>7, IdleStep DEF Idle, books

\* claim_revenue keeps the invariant.
LEMMA ClaimRevenueInv ==
  ASSUME Laws, IInv, NEW h \in Created, ClaimRevenue(h)
  PROVE  IInv' /\ MarketsMove
<1> DEFINE one == ClaimRevenueLeg(params[h], Synced(h).m)
           leg == [g \in {h} |-> one]
           in  == [g \in {h} |-> 0]
<1>1. /\ Idle /\ AllOk(leg) /\ Commit(leg) /\ Move(leg, in)
      /\ UNCHANGED <<params, books, flash, now>>
  BY SMTT(30) DEF ClaimRevenue, NoTokens
<1>2. Sound(Synced(h).m) /\ params[h] \in MarketParams
  BY SyncedSound
<1>3. one.ok
  BY <1>1 DEF AllOk
<1>4. Settled(Synced(h).m, one.m, 0, one.out) /\ BooksKept(Synced(h).m, one.m)
  BY <1>2, <1>3 DEF Laws, LegLaws, ClaimRevenueLegLaw
<1>5. PICK o, l, i : o = one /\ l = [g \in {h} |-> o] /\ i = [g \in {h} |-> 0]
  BY ZenonT(20)
<1>6. Commit(l) /\ Move(l, i)
  BY <1>1, <1>5
<1>7. Settled(Synced(h).m, o.m, 0, o.out) /\ BooksKept(Synced(h).m, o.m)
  BY <1>4, <1>5
<1> HIDE DEF one, leg, in
<1>8. l = [g \in {h} |-> o] /\ i = [g \in {h} |-> 0]
  BY <1>5
<1> QED
  BY <1>1, <1>6, <1>7, <1>8, ProtocolLeg, SMTT(30)

\* recapitalize keeps the invariant.
LEMMA RecapitalizeInv ==
  ASSUME Laws, IInv, NEW h \in Created, NEW amount \in Amount, Recapitalize(h, amount)
  PROVE  IInv' /\ MarketsMove
<1> DEFINE one == RecapitalizeLeg(params[h], Synced(h).m, amount)
           leg == [g \in {h} |-> one]
           in  == [g \in {h} |-> amount]
<1>1. /\ Idle /\ AllOk(leg) /\ Commit(leg) /\ Move(leg, in) /\ amount \in Nat
      /\ UNCHANGED <<params, books, flash, now>>
  BY AmountAssumption, SMTT(30) DEF Recapitalize
<1>2. Sound(Synced(h).m) /\ params[h] \in MarketParams
  BY SyncedSound
<1>3. one.ok
  BY <1>1, SMTT(30) DEF AllOk
<1>4. Settled(Synced(h).m, one.m, amount, one.out) /\ BooksKept(Synced(h).m, one.m)
  BY <1>1, <1>2, <1>3 DEF Laws, LegLaws, RecapitalizeLegLaw
<1>5. PICK o, l, i : o = one /\ l = [g \in {h} |-> o] /\ i = [g \in {h} |-> amount]
  BY ZenonT(20)
<1>6. Commit(l) /\ Move(l, i)
  BY <1>1, <1>5
<1>7. Settled(Synced(h).m, o.m, amount, o.out) /\ BooksKept(Synced(h).m, o.m)
  BY <1>4, <1>5
<1> HIDE DEF one, leg, in
<1>8. l = [g \in {h} |-> o] /\ i = [g \in {h} |-> amount]
  BY <1>5
<1> QED
  BY <1>1, <1>6, <1>7, <1>8, ProtocolLeg

\* update_indexes keeps the invariant.
LEMMA UpdateIndexesInv ==
  ASSUME Laws, IInv, NEW M \in SUBSET Created, UpdateIndexes(M)
  PROVE  IInv' /\ MarketsMove
<1>1. /\ Idle /\ market' = [h \in Created |-> IF h \in M THEN Synced(h).m ELSE market[h]]
      /\ UNCHANGED <<params, tokens, books, flash, now>>
  BY DEF UpdateIndexes
<1>2. /\ MarketsOK(market, params, now) /\ now \in Nat
      /\ BooksOK(market, deposit, debt) /\ TokensOK(balance, wallet, donated)
  BY SMTT(30) DEF IInv
<1>3. ASSUME NEW h \in Created
      PROVE  /\ Sound(market'[h]) /\ market'[h].last_timestamp <= now
             /\ market'[h].cash = market[h].cash /\ BooksKept(market[h], market'[h])
  <2>1. /\ Sound(market[h]) /\ market[h].last_timestamp <= now
        /\ Accrued(market[h], Synced(h).m) /\ Synced(h).m.last_timestamp = now
    BY SyncedSound
  <2>2. market'[h] = Synced(h).m \/ market'[h] = market[h]
    BY <1>1
  <2> QED
    BY <1>2, <2>1, <2>2, SMTT(30) DEF Accrued, BooksKept
<1>4. market' = [h \in DOMAIN market |-> market'[h]]
  BY <1>1 DEF Created
<1>5. MarketsOK(market', params, now) /\ DOMAIN market' = DOMAIN market
  BY <1>2, <1>3, <1>4, MarketsStep, SMTT(30) DEF Created
<1>6. BooksOK(market', deposit, debt)
  BY <1>2, <1>3, <1>5, BooksSame, ZenonT(20) DEF Created
<1>7. \A t \in Asset : CashIn(market', t) = CashIn(market, t)
  BY <1>2, <1>3, <1>5, CashSame, ZenonT(20) DEF Created
<1>8. Custody(market', balance, donated, NothingLent)
  BY <1>1, <1>7, NothingIsLent DEF Custody
<1>9. NothingLent' = NothingLent
  BY DEF NothingLent
<1>10. MarketsMove
  <2>1. ASSUME NEW h \in Created PROVE MarketMove(market[h], market'[h])
    <3>1. Sound(market[h]) /\ Accrued(market[h], Synced(h).m)
      BY SyncedSound, SMTT(30)
    <3>2. market'[h] = Synced(h).m \/ market'[h] = market[h]
      BY <1>1
    <3> QED
      BY <3>1, <3>2, AccrualMoves, SMTT(30)
  <2> QED
    BY <2>1, SMTT(30) DEF MarketsMove
<1> QED
  BY <1>10, <1>1, <1>2, <1>5, <1>6, <1>8, <1>9, IdleStep DEF Idle, tokens, books

-----------------------------------------------------------------------------
(* Markets, donations, flash loans and time.                                *)

\* A step that may happen while the receiver of a flash loan runs.
LEMMA OpenStep ==
  ASSUME Laws, IInv, UNCHANGED <<flash, now>>, MarketsOK(market, params, now)', BooksOK(market, deposit, debt)',
         TokensOK(balance, wallet, donated)', Custody(market', balance', donated', Lent),
         ~Idle => /\ flash.hub_asset \in DOMAIN market'
                  /\ GlobalSync(params'[flash.hub_asset], market'[flash.hub_asset], now).m
                       = Synced(flash.hub_asset).m
  PROVE  IInv'
<1>1. Lent' = Lent /\ NothingLent' = NothingLent /\ (Idle' <=> Idle)
  BY SMTT(30) DEF Lent, Outstanding, NothingLent, Idle
<1>2. FlashOK'
  <2> SUFFICES ASSUME ~Idle
               PROVE  FlashOK'
    BY <1>1, ZenonT(20) DEF FlashOK
  <2>1. FlashOK
    BY SMTT(30) DEF IInv
  <2>2. Synced(flash.hub_asset).m' = flash.cache
    BY <2>1, SMTT(30) DEF FlashOK, Synced
  <2> QED
    BY <1>1, <2>1, <2>2, ZenonT(20) DEF FlashOK, Created
<1>3. now \in Nat
  BY ZenonT(20) DEF IInv
<1> QED
  BY <1>1, <1>2, <1>3, SMTT(30) DEF IInv

\* create_market keeps the invariant.
LEMMA CreateMarketInv ==
  ASSUME Laws, IInv, NEW h \in HubAsset, NEW p \in ParamSets, CreateMarket(h, p)
  PROVE  IInv' /\ MarketsMove
<1> DEFINE D == Created \cup {h}
<1>1. /\ h \notin Created /\ Verify(p) /\ p \in MarketParams
      /\ market' = [g \in D |-> IF g = h THEN NewMarket(now) ELSE market[g]]
      /\ params' = [g \in D |-> IF g = h THEN p ELSE params[g]]
      /\ UNCHANGED <<tokens, books, flash, now>>
  BY ParamAssumption DEF CreateMarket
<1>2. /\ MarketsOK(market, params, now) /\ now \in Nat /\ Created \subseteq HubAsset
      /\ BooksOK(market, deposit, debt) /\ TokensOK(balance, wallet, donated)
      /\ Custody(market, balance, donated, Lent) /\ FlashOK
  BY SMTT(30) DEF IInv, MarketsOK, Created
<1>3. Sound(NewMarket(now)) /\ NewMarket(now).last_timestamp = now /\ NewMarket(now).cash = 0
      /\ NewMarket(now).supplied = 0 /\ NewMarket(now).revenue = 0 /\ NewMarket(now).borrowed = 0
  BY <1>2, ZenonT(20) DEF NewMarket, Laws, LegLaws, NewMarketLaw
<1>4. /\ DOMAIN market' = D /\ DOMAIN params' = D
      /\ market'[h] = NewMarket(now) /\ params'[h] = p
      /\ \A g \in Created : market'[g] = market[g] /\ params'[g] = params[g]
  BY <1>1, SMTT(30)
<1>5. \A g \in D : /\ Sound(market'[g]) /\ market'[g].last_timestamp <= now
                    /\ params'[g] \in MarketParams /\ Verify(params'[g])
  BY <1>1, <1>2, <1>3, <1>4, SMTT(30) DEF MarketsOK, Created
<1>6. MarketsOK(market', params', now)
  <2>1. \A g \in D : market'[g] \in MarketState
    BY <1>5, SMTT(30) DEF Sound
  <2>2. market' \in [D -> MarketState] /\ params' \in [D -> MarketParams]
    BY <1>1, <1>5, <2>1, <1>4, ZenonT(20)
  <2> QED
    BY <1>2, <1>4, <1>5, <2>2 DEF MarketsOK
<1>7. BooksOK(market', deposit, debt)
  <2>1. Total(deposit, h) = 0 /\ Total(debt, h) = 0
    <3>1. \A a \in Account : deposit[a][h] = 0 /\ debt[a][h] = 0
      BY <1>1, <1>2, ZenonT(20) DEF BooksOK, Created
    <3> QED
      BY <3>1 DEF Laws, TotalZeroLaw
  <2> QED
    BY <1>2, <1>3, <1>4, <2>1, SMTT(30) DEF BooksOK, Created
<1>8. \A t \in Asset : CashIn(market', t) = CashIn(market, t)
  <2>1. CashNewLaw
    BY DEF Laws
  <2>2. h \in HubAsset \ DOMAIN market /\ market'[h].cash = 0
    BY <1>1, <1>3, <1>4, ZenonT(20) DEF Created
  <2>3. DOMAIN market' = DOMAIN market \cup {h} /\ \A g \in DOMAIN market : market'[g] = market[g]
    BY <1>4, SMTT(30) DEF Created
  <2>4. EmptyMarketAdded(market, market', h)
    BY <2>2, <2>3 DEF EmptyMarketAdded
  <2>5. MarketsOK(market, params, now)
    BY <1>2, SMTT(30)
  <2> QED
    BY <2>1, <2>4, <2>5, SMTT(20) DEF CashNewLaw
<1>9. Custody(market', balance, donated, Lent)
  BY <1>2, <1>8, ZenonT(20) DEF Custody
<1>10. ~Idle => /\ flash.hub_asset \in DOMAIN market'
                /\ GlobalSync(params'[flash.hub_asset], market'[flash.hub_asset], now).m
                     = Synced(flash.hub_asset).m
  BY <1>2, <1>4, SMTT(30) DEF FlashOK, Synced
<1>11. MarketsMove
  <2>1. ASSUME NEW g \in Created PROVE MarketMove(market[g], market'[g])
    <3>1. Sound(market[g]) /\ market'[g] = market[g]
      BY <1>4, SyncedSound, ZenonT(20)
    <3> QED
      BY <3>1, AccrualMoves, SMTT(30)
  <2> QED
    BY <2>1, SMTT(30) DEF MarketsMove
<1> QED
  BY <1>11, <1>1, <1>2, <1>6, <1>7, <1>9, <1>10, OpenStep, ZenonT(20) DEF tokens, books

\* update_params: on the market of a running flash loan it commits the very
\* copy the loan holds.
LEMMA UpdateParamsInv ==
  ASSUME Laws, IInv, NEW h \in HubAsset, NEW p \in ParamSets, UpdateParams(h, p)
  PROVE  IInv' /\ MarketsMove
<1>1. PICK next : next = [p EXCEPT !.unit = params[h].unit]
  BY ZenonT(20)
<1>2. /\ h \in Created /\ Verify(next) /\ p \in MarketParams
      /\ market' = [market EXCEPT ![h] = Synced(h).m]
      /\ params' = [params EXCEPT ![h] = next]
      /\ UNCHANGED <<tokens, books, flash, now>>
  BY <1>1, ParamAssumption DEF UpdateParams
<1>3. /\ MarketsOK(market, params, now) /\ now \in Nat /\ Created \subseteq HubAsset
      /\ BooksOK(market, deposit, debt) /\ TokensOK(balance, wallet, donated)
      /\ Custody(market, balance, donated, Lent) /\ FlashOK
  BY DEF IInv, MarketsOK, Created
<1>4. /\ Accrued(market[h], Synced(h).m) /\ Sound(Synced(h).m) /\ Synced(h).m.last_timestamp = now
      /\ params[h] \in MarketParams
  BY <1>2, SyncedSound
<1>5. next \in MarketParams
  <2>1. params[h].unit \in Nat \ {0}
    BY <1>4, SMTT(30) DEF MarketParams
  <2> QED
    BY <1>1, <1>2, <2>1 DEF MarketParams
<1>6. /\ market' = [g \in DOMAIN market |-> market'[g]] /\ market'[h] = Synced(h).m
      /\ \A g \in Created \ {h} : market'[g] = market[g]
      /\ params' \in [Created -> MarketParams] /\ DOMAIN params' = Created /\ params'[h] = next
      /\ \A g \in Created \ {h} : params'[g] = params[g]
  BY <1>2, <1>3, <1>5, ZenonT(20) DEF MarketsOK, Created
<1>7. ASSUME NEW g \in Created
      PROVE  /\ Sound(market'[g]) /\ market'[g].last_timestamp <= now
             /\ market'[g].cash = market[g].cash /\ BooksKept(market[g], market'[g])
             /\ params'[g] \in MarketParams /\ Verify(params'[g])
  <2>1. CASE g = h
    BY <1>2, <1>3, <1>4, <1>5, <1>6, <2>1, SMTT(30) DEF Accrued, BooksKept
  <2>2. CASE g # h
    BY <1>3, <1>6, <2>2, SMTT(30) DEF MarketsOK, Created, BooksKept
  <2> QED
    BY <2>1, <2>2
<1>8. MarketsOK(market', params, now) /\ DOMAIN market' = DOMAIN market
  BY <1>3, <1>6, <1>7, MarketsStep, SMTT(30) DEF Created
<1>9. MarketsOK(market', params', now)
  BY <1>6, <1>7, <1>8, SMTT(30) DEF MarketsOK, Created
<1>10. BooksOK(market', deposit, debt)
  BY <1>3, <1>7, <1>8, BooksSame, SMTT(30) DEF Created
<1>11. \A t \in Asset : CashIn(market', t) = CashIn(market, t)
  BY <1>3, <1>7, <1>8, CashSame, ZenonT(20) DEF Created
<1>12. Custody(market', balance, donated, Lent)
  BY <1>3, <1>11, SMTT(30) DEF Custody
<1>13. ASSUME ~Idle
       PROVE  /\ flash.hub_asset \in DOMAIN market'
              /\ GlobalSync(params'[flash.hub_asset], market'[flash.hub_asset], now).m
                   = Synced(flash.hub_asset).m
  <2>1. PICK f : f = flash.hub_asset
    BY SMTT(30)
  <2>2. f \in Created
    BY <1>3, <1>13, <2>1, SMTT(30) DEF FlashOK
  <2>3. CASE f = h
    <3>1. market'[f] = Synced(f).m /\ now - market'[f].last_timestamp = 0
      BY <1>3, <1>4, <1>6, <2>3, SMTT(30)
    <3>2. GlobalSync(params'[f], market'[f], now).m = market'[f]
      BY <3>1 DEF GlobalSync
    <3> QED
      BY <1>8, <2>1, <2>2, <3>1, <3>2, SMTT(30) DEF Created
  <2>4. CASE f # h
    BY <1>6, <1>8, <2>1, <2>2, <2>4 DEF Synced, Created
  <2> QED
    BY <2>3, <2>4
<1>14. MarketsMove
  <2>1. ASSUME NEW g \in Created PROVE MarketMove(market[g], market'[g])
    <3>1. Sound(market[g])
      BY SyncedSound
    <3>2. CASE g = h
      BY <1>4, <1>6, <3>1, <3>2, AccrualMoves, SMTT(30)
    <3>3. CASE g # h
      <4>1. market'[g] = market[g]
        BY <1>6, <3>3, SMTT(30) DEF Created
      <4> QED
        BY <3>1, <4>1, AccrualMoves
    <3> QED
      BY <3>2, <3>3, SMTT(30)
  <2> QED
    BY <2>1 DEF MarketsMove
<1> QED
  BY <1>14, <1>2, <1>3, <1>9, <1>10, <1>12, <1>13, OpenStep, ZenonT(20) DEF tokens, books

\* A transfer to the pool outside its entrypoints keeps the invariant.
LEMMA DonateInv ==
  ASSUME Laws, IInv, NEW t \in Asset, NEW amount \in Donation, Donate(t, amount)
  PROVE  IInv' /\ MarketsMove
<1>1. /\ amount \in 1..wallet[t]
      /\ balance' = [balance EXCEPT ![t] = balance[t] + amount]
      /\ wallet' = [wallet EXCEPT ![t] = wallet[t] - amount]
      /\ donated' = [donated EXCEPT ![t] = donated[t] + amount]
      /\ UNCHANGED <<market, params, books, flash, now>>
  BY DEF Donate
<1>2. /\ MarketsOK(market, params, now) /\ BooksOK(market, deposit, debt)
      /\ TokensOK(balance, wallet, donated)
      /\ Custody(market, balance, donated, Lent) /\ FlashOK
  BY DEF IInv
<1>3. balance[t] \in Nat /\ wallet[t] \in Nat /\ donated[t] \in Nat /\ amount \in Nat
  BY <1>1, <1>2, SMTT(30) DEF TokensOK
<1>4. TokensOK(balance', wallet', donated')
  <2>1. balance[t] + amount \in Nat /\ wallet[t] - amount \in Nat /\ donated[t] + amount \in Nat
    BY <1>1, <1>3, SMTT(30)
  <2> QED
    BY <1>1, <1>2, <2>1, SMTT(30) DEF TokensOK
<1>5. ASSUME NEW u \in Asset
      PROVE  balance'[u] + Lent[u] = donated'[u] + CashIn(market', u)
  <2>1. balance[u] + Lent[u] = donated[u] + CashIn(market, u) /\ market' = market
    BY <1>1, <1>2, SMTT(30) DEF Custody
  <2>2. CASE u # t
    BY <1>1, <1>2, <2>1, <2>2, SMTT(30) DEF TokensOK
  <2>3. CASE u = t
    <3>1. balance'[t] = balance[t] + amount /\ donated'[t] = donated[t] + amount
      BY <1>1, <1>2, SMTT(30) DEF TokensOK
    <3>2. CashIn(market, t) \in Nat
      BY <1>2, ZenonT(20) DEF Laws, CashTypeLaw
    <3>3. Lent[t] = Outstanding(t)
      BY ZenonT(20) DEF Lent
    <3>4. ~Idle => flash.amount \in Nat
      BY <1>2, ZenonT(20) DEF FlashOK
    <3>5. Lent[t] \in Nat
      BY <3>3, <3>4, SMTT(30) DEF Outstanding
    <3> QED
      BY <1>3, <2>1, <2>3, <3>1, <3>2, <3>5, SMTT(30)
  <2> QED
    BY <2>2, <2>3, SMTT(30)
<1>6. Custody(market', balance', donated', Lent)
  BY <1>5, SMTT(30) DEF Custody
<1>7. ~Idle => /\ flash.hub_asset \in DOMAIN market'
               /\ GlobalSync(params'[flash.hub_asset], market'[flash.hub_asset], now).m
                    = Synced(flash.hub_asset).m
  BY <1>1, <1>2, ZenonT(20) DEF FlashOK, Synced, Created
<1>8. MarketsMove
  <2>1. ASSUME NEW g \in Created PROVE MarketMove(market[g], market'[g])
    <3>1. Sound(market[g]) /\ market'[g] = market[g]
      BY <1>1, SyncedSound, ZenonT(20)
    <3> QED
      BY <3>1, AccrualMoves
  <2> QED
    BY <2>1 DEF MarketsMove
<1> QED
  BY <1>8, <1>1, <1>2, <1>4, <1>6, <1>7, OpenStep, ZenonT(20) DEF books

\* flash_loan up to the call of the receiver: the snapshot is the good state
\* before it.
LEMMA FlashBeginInv ==
  ASSUME Laws, IInv, NEW h \in Created, NEW amount \in Amount, FlashBegin(h, amount)
  PROVE  IInv' /\ MarketsMove
<1> DEFINE t == AssetOf[h]
           fee == FlashLoanFeeOn(params[h].flashloan_fee, amount)
           start == [market |-> market, params |-> params, balance |-> balance,
                     wallet |-> wallet, donated |-> donated, deposit |-> deposit, debt |-> debt]
<1>0. amount > 0 /\ balance[t] >= amount
  BY ZenonT(20) DEF FlashBegin
<1>12. /\ start.market = market /\ start.params = params /\ start.balance = balance
       /\ start.wallet = wallet /\ start.donated = donated
       /\ start.deposit = deposit /\ start.debt = debt
  BY SMTT(30)
<1>1. /\ Idle /\ amount > 0 /\ balance[t] >= amount
      /\ flash' = [hub_asset |-> h, amount |-> amount, fee |-> fee, cache |-> Synced(h).m,
                   pre_balance |-> balance[t], start |-> start]
      /\ balance' = [balance EXCEPT ![t] = balance[t] - amount]
      /\ wallet' = [wallet EXCEPT ![t] = wallet[t] + amount]
      /\ UNCHANGED <<market, params, donated, books, now>>
  BY ZenonT(20) DEF FlashBegin
<1>2. /\ MarketsOK(market, params, now) /\ BooksOK(market, deposit, debt)
      /\ TokensOK(balance, wallet, donated) /\ now \in Nat
      /\ Custody(market, balance, donated, NothingLent)
  BY <1>1, NothingIsLent, ZenonT(20) DEF IInv
<1>3. /\ amount \in Nat /\ params[h] \in MarketParams /\ h \in HubAsset /\ t \in Asset
  BY SyncedSound, AmountAssumption, AssetAssumption, ZenonT(20)
<1>4. fee \in Nat
  BY <1>3, ZenonT(20) DEF MarketParams, Laws, LegLaws, FlashFeeLaw
<1> HIDE DEF fee, start
<1>5. /\ flash'.hub_asset = h /\ flash'.amount = amount /\ flash'.fee = fee
      /\ flash'.cache = Synced(h).m /\ flash'.start = start
  BY <1>1, SMTT(30)
<1>6. ~Idle'
  <2> SUFFICES ASSUME flash' = NoFlash PROVE FALSE
    BY DEF Idle
  <2>1. flash'.amount = 0
    BY SMTT(30) DEF NoFlash
  <2>2. amount # 0
    BY <1>0, <1>3
  <2>3. amount = 0
    BY <1>5, <2>1, ZenonT(20)
  <2> QED
    BY <2>2, <2>3, ZenonT(20)
<1>7. balance[t] \in Nat /\ wallet[t] \in Nat
  BY <1>2, <1>3, SMTT(30) DEF TokensOK
<1>8. TokensOK(balance', wallet', donated')
  <2>1. balance[t] - amount \in Nat /\ wallet[t] + amount \in Nat
    BY <1>0, <1>3, <1>7
  <2> QED
    BY <1>1, <1>2, <2>1, ZenonT(20) DEF TokensOK
<1>9. Lent' = [u \in Asset |-> IF t = u THEN amount ELSE 0]
  BY <1>5, <1>6 DEF Lent, Outstanding
<1>10. ASSUME NEW u \in Asset
       PROVE  balance'[u] + Lent'[u] = donated'[u] + CashIn(market', u)
  <2>1. balance[u] + 0 = donated[u] + CashIn(market, u) /\ market' = market /\ donated' = donated
    BY <1>1, <1>2, ZenonT(20) DEF Custody, NothingLent
  <2>2. CASE u # t
    BY <1>1, <1>2, <1>9, <2>1, <2>2, SMTT(30) DEF TokensOK
  <2>3. CASE u = t
    <3>1. balance'[t] = balance[t] - amount /\ Lent'[t] = amount
      BY <1>1, <1>2, <1>3, <1>9, ZenonT(20) DEF TokensOK
    <3>2. (balance[t] - amount) + amount = balance[t] + 0
      BY <1>3, <1>7
    <3> QED
      BY <2>1, <2>3, <3>1, <3>2, ZenonT(20)
  <2> QED
    BY <2>2, <2>3, SMTT(30)
<1>11. Custody(market', balance', donated', Lent')
  BY <1>10, ZenonT(20) DEF Custody
<1>13. FlashOK'
  <2>1. Synced(h)' = Synced(h) /\ Created' = Created /\ NothingLent' = NothingLent
    BY <1>1, ZenonT(20) DEF Synced, Created, NothingLent
  <2>2. /\ MarketsOK(start.market, start.params, now')
        /\ BooksOK(start.market, start.deposit, start.debt)
        /\ TokensOK(start.balance, start.wallet, start.donated)
        /\ Custody(start.market, start.balance, start.donated, NothingLent)
    BY <1>1, <1>2, <1>12, ZenonT(20)
  <2> QED
    BY <1>1, <1>3, <1>4, <1>5, <1>12, <2>1, <2>2, <1>2, ZenonT(20) DEF FlashOK
<1>14. MarketsMove
  <2>1. ASSUME NEW g \in Created PROVE MarketMove(market[g], market'[g])
    <3>1. Sound(market[g]) /\ market'[g] = market[g]
      BY <1>1, SyncedSound, ZenonT(20)
    <3> QED
      BY <3>1, AccrualMoves, SMTT(30)
  <2> QED
    BY <2>1, SMTT(30) DEF MarketsMove
<1> QED
  BY <1>14, <1>1, <1>2, <1>8, <1>11, <1>13, SMTT(30) DEF IInv, books

\* The copy taken before the callback is written over the market: the state it
\* overwrites is, up to accrual, the one it was copied from.
LEMMA FlashEndInv ==
  ASSUME Laws, IInv, FlashEnd
  PROVE  IInv' /\ MarketsMove
<1>1. PICK h, t, due, n :
        /\ h = flash.hub_asset /\ t = AssetOf[h] /\ due = flash.amount + flash.fee
        /\ n = BookFlashFee(params[h], flash.cache, flash.fee).m
  BY SMTT(30)
<1>2. /\ ~Idle /\ wallet[t] >= due
      /\ BookFlashFee(params[h], flash.cache, flash.fee).ok
      /\ market' = [market EXCEPT ![h] = n]
      /\ balance' = [balance EXCEPT ![t] = balance[t] + due]
      /\ wallet' = [wallet EXCEPT ![t] = wallet[t] - due]
      /\ flash' = NoFlash
      /\ UNCHANGED <<params, donated, books, now>>
  BY <1>1, ZenonT(20) DEF FlashEnd
<1>3. /\ MarketsOK(market, params, now) /\ BooksOK(market, deposit, debt) /\ now \in Nat
      /\ TokensOK(balance, wallet, donated) /\ Custody(market, balance, donated, Lent)
  BY DEF IInv
<1>4. /\ h \in Created /\ flash.amount \in Nat /\ flash.fee \in Nat /\ flash.cache = Synced(h).m
  BY <1>1, <1>2, ZenonT(20) DEF IInv, FlashOK
<1>5. /\ params[h] \in MarketParams /\ Sound(Synced(h).m) /\ Accrued(market[h], Synced(h).m)
      /\ Synced(h).m.last_timestamp = now /\ Sound(market[h]) /\ h \in HubAsset /\ t \in Asset
  BY <1>1, <1>4, SyncedSound, AssetAssumption, ZenonT(20)
<1>6. Settled(Synced(h).m, n, flash.fee, 0) /\ BooksKept(Synced(h).m, n)
  BY <1>1, <1>2, <1>4, <1>5, ZenonT(20) DEF Laws, LegLaws, BookFlashFeeLaw
<1>7. /\ Sound(n) /\ n.last_timestamp = now /\ BooksKept(market[h], n)
      /\ n.cash = market[h].cash + flash.fee - 0
  <2>1. /\ Sound(n) /\ n.last_timestamp = Synced(h).m.last_timestamp
        /\ n.cash = Synced(h).m.cash + flash.fee - 0
    BY <1>6, ZenonT(20) DEF Settled
  <2>2. Synced(h).m.cash = market[h].cash
    BY <1>5, ZenonT(20) DEF Accrued
  <2>3. BooksKept(market[h], n)
    BY <1>4, <1>6, BooksKeptSynced, ZenonT(20)
  <2> QED
    BY <1>5, <2>1, <2>2, <2>3, ZenonT(20)
<1>8. market[h].cash \in Int /\ n.cash \in Int
  <2>1. market[h] \in MarketState /\ n \in MarketState
    BY <1>5, <1>7, ZenonT(20) DEF Sound
  <2>2. market[h].cash \in 0..MaxI128 /\ n.cash \in 0..MaxI128
    BY <2>1, MarketFields, ZenonT(20)
  <2>3. 0..MaxI128 \subseteq Int
    BY MarketRanges
  <2> QED
    BY <2>2, <2>3, ZenonT(20)
<1>9. /\ DOMAIN market' = DOMAIN market /\ market' = [g \in DOMAIN market |-> market'[g]]
      /\ market'[h] = n /\ \A g \in DOMAIN market \ {h} : market'[g] = market[g]
  BY <1>2, <1>3, <1>4, ZenonT(20) DEF MarketsOK, Created
<1>10. \A g \in DOMAIN market : /\ Sound(market'[g]) /\ market'[g].last_timestamp <= now
                               /\ BooksKept(market[g], market'[g])
  <2>1. now <= now
    BY <1>3
  <2> QED
    BY <1>3, <1>7, <1>9, <2>1 DEF MarketsOK, BooksKept
<1>11. MarketsOK(market', params, now)
  BY <1>3, <1>9, <1>10, MarketsStep
<1>12. BooksOK(market', deposit, debt)
  BY <1>3, <1>9, <1>10, BooksSame, SMTT(30)
<1>13. balance[t] \in Nat /\ wallet[t] \in Nat /\ due \in Nat
  BY <1>1, <1>3, <1>4, <1>5, SMTT(30) DEF TokensOK
<1>14. TokensOK(balance', wallet', donated')
  <2>1. balance[t] + due \in Nat /\ wallet[t] - due \in Nat
    BY <1>2, <1>13, SMTT(30)
  <2> QED
    BY <1>2, <1>3, <2>1, ZenonT(20) DEF TokensOK
<1>15. ASSUME NEW u \in Asset
       PROVE  balance'[u] + 0 = donated[u] + CashIn(market', u)
  <2>1. balance[u] + Lent[u] = donated[u] + CashIn(market, u)
    BY <1>3, SMTT(30) DEF Custody
  <2>2. CashIn(market', u) = CashIn(market, u) + (IF t = u THEN n.cash - market[h].cash ELSE 0)
    BY <1>1, <1>3, <1>4, <1>8, <1>9, SMTT(30) DEF Created, Laws, CashOneLaw
  <2>3. Lent[u] = IF t = u THEN flash.amount ELSE 0
    BY <1>1, <1>2, ZenonT(20) DEF Lent, Outstanding
  <2>4. CashIn(market, u) \in Int /\ donated[u] \in Int /\ balance[u] \in Int
    BY <1>3, SMTT(30) DEF TokensOK, Laws, CashTypeLaw
  <2>5. CASE u # t
    <3>1. balance'[u] = balance[u]
      BY <1>2, <1>3, <2>5, ZenonT(20) DEF TokensOK
    <3> QED
      BY <2>1, <2>2, <2>3, <2>4, <2>5, <3>1, SMTT(30)
  <2>6. CASE u = t
    <3>1. balance'[t] = balance[t] + due
      BY <1>2, <1>3, <1>5, ZenonT(20) DEF TokensOK
    <3>2. CashIn(market', t) = CashIn(market, t) + flash.fee
      BY <1>4, <1>7, <1>8, <2>2, <2>4, <2>6, SMTT(30)
    <3>3. balance[t] + flash.amount = donated[t] + CashIn(market, t)
      BY <2>1, <2>3, <2>6, SMTT(30)
    <3> QED
      BY <1>1, <1>4, <1>13, <2>4, <2>6, <3>1, <3>2, <3>3, SMTT(30)
  <2> QED
    BY <2>5, <2>6, SMTT(30)
<1>16. Custody(market', balance', donated, NothingLent)
  BY <1>15 DEF Custody, NothingLent
<1>17. NothingLent' = NothingLent /\ Idle'
  BY <1>2 DEF NothingLent, Idle
<1>18. MarketsMove
  <2>1. ASSUME NEW g \in Created PROVE MarketMove(market[g], market'[g])
    <3>1. Sound(market[g])
      BY SyncedSound, SMTT(30)
    <3>2. CASE g = h
      BY <1>4, <1>5, <1>6, <1>9, <3>2, SettlementMoves, SMTT(30)
    <3>3. CASE g # h
      <4>1. market'[g] = market[g]
        BY <1>9, <3>3, SMTT(30) DEF Created
      <4> QED
        BY <3>1, <4>1, AccrualMoves
    <3> QED
      BY <3>2, <3>3, SMTT(30)
  <2> QED
    BY <2>1 DEF MarketsMove
<1> QED
  BY <1>18, <1>2, <1>3, <1>11, <1>12, <1>14, <1>16, <1>17, IdleStep, ZenonT(20) DEF books

\* A reverted flash loan keeps the invariant.
LEMMA FlashRevertInv ==
  ASSUME Laws, IInv, FlashRevert
  PROVE  IInv'
<1>1. /\ market' = flash.start.market /\ params' = flash.start.params
      /\ balance' = flash.start.balance /\ wallet' = flash.start.wallet
      /\ donated' = flash.start.donated
      /\ deposit' = flash.start.deposit /\ debt' = flash.start.debt
      /\ flash' = NoFlash /\ now' = now /\ ~Idle
  BY SMTT(30) DEF FlashRevert
<1>2. /\ MarketsOK(flash.start.market, flash.start.params, now)
      /\ BooksOK(flash.start.market, flash.start.deposit, flash.start.debt)
      /\ TokensOK(flash.start.balance, flash.start.wallet, flash.start.donated)
      /\ Custody(flash.start.market, flash.start.balance, flash.start.donated, NothingLent)
      /\ now \in Nat
  BY <1>1, ZenonT(20) DEF IInv, FlashOK
<1>3. NothingLent' = NothingLent /\ Idle'
  BY <1>1, SMTT(30) DEF NothingLent, Idle
<1> QED
  BY <1>1, <1>2, <1>3, IdleStep, SMTT(30)

\* The clock keeps the invariant.
LEMMA TickInv ==
  ASSUME Laws, IInv, Tick
  PROVE  IInv' /\ MarketsMove
<1>1. /\ Idle /\ now' = now + 1 /\ UNCHANGED <<market, params, tokens, books, flash>>
  BY SMTT(30) DEF Tick
<1>2. /\ MarketsOK(market, params, now) /\ BooksOK(market, deposit, debt) /\ now \in Nat
      /\ TokensOK(balance, wallet, donated) /\ Custody(market, balance, donated, NothingLent)
  BY <1>1, NothingIsLent, SMTT(30) DEF IInv
<1>3. \A h \in DOMAIN market : market[h].last_timestamp <= now + 1
  <2>1. ASSUME NEW h \in DOMAIN market PROVE market[h].last_timestamp <= now + 1
    <3>1. market[h].last_timestamp <= now /\ market[h].last_timestamp \in Int
      BY <1>2, MarketFields, MarketRanges, SMTT(30) DEF MarketsOK, Sound
    <3> QED
      BY <1>2, <3>1, SMTT(30)
  <2> QED
    BY <2>1, SMTT(30)
<1>4. MarketsOK(market, params, now + 1) /\ now + 1 \in Nat
  BY <1>2, <1>3 DEF MarketsOK
<1>5. NothingLent' = NothingLent /\ Idle'
  BY <1>1, SMTT(30) DEF NothingLent, Idle
<1>6. MarketsMove
  <2>1. ASSUME NEW g \in Created PROVE MarketMove(market[g], market'[g])
    <3>1. Sound(market[g]) /\ market'[g] = market[g]
      BY <1>1, SyncedSound
    <3> QED
      BY <3>1, AccrualMoves, SMTT(30)
  <2> QED
    BY <2>1 DEF MarketsMove
<1> QED
  BY <1>6, <1>1, <1>2, <1>4, <1>5, IdleStep, SMTT(30) DEF tokens, books
=============================================================================
