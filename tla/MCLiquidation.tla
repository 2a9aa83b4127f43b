--------------------------- MODULE MCLiquidation ---------------------------
(***************************************************************************)
(* Small accounts for the liquidation plan: one collateral leg, two, and   *)
(* one held in whole units, against one or two debts.  A behaviour plays   *)
(* one of two scenes, with divisible collateral or with whole units.       *)
(***************************************************************************)
EXTENDS Liquidation

CONSTANTS A, B, W

VARIABLE scene

Leg(tokens, ltv, thr, bonus, fees) ==
  [scaled |-> tokens * Ray, ltv |-> ltv, thr |-> thr, bonus |-> bonus, fees |-> fees]

UnitOf == [a \in {A, B, W} |-> IF a = W THEN Ray ELSE Ray \div 100]

\* Nobody borrows a whole-unit asset, so its market accrues nothing.
SupplyIndexOf == [a \in {A, B, W} |-> IF a = W THEN Ray ELSE 2030]

DefaultCurve == [target_hf |-> 1100, hf_for_max_bonus |-> 800, bonus_factor |-> 100]

\* One leg, and two legs on different terms, against one debt or two.
PlainAccounts ==
  {[sup |-> A :> Leg(10, 70, 80, 5, 20), debt |-> B :> 7 * Ray],
   [sup |-> (A :> Leg(6, 70, 80, 5, 20)) @@ (B :> Leg(4, 50, 60, 10, 30)),
    debt |-> (B :> 4 * Ray) @@ (A :> 2 * Ray)]}

PlainPrices == (A :> {500, 720, 860, 1000}) @@ (B :> {1000}) @@ (W :> {1000})

PlainOffers ==
  {<<[asset |-> B, amount |-> n]>> : n \in {30, 150, 333, 900}}
    \cup {<<[asset |-> B, amount |-> n], [asset |-> A, amount |-> 270]>> : n \in {100, 500}}

\* Collateral in whole units beside nothing else.
WholeAccounts == {[sup |-> W :> Leg(n, 70, 80, 5, 20), debt |-> B :> d] : n \in 1..4, d \in {Ray, 2 * Ray, 3 * Ray}}

WholePrices == (W :> {400, 600, 850, 1100, 1300, 3700}) @@ (B :> {1000}) @@ (A :> {1000})

WholeOffers == {<<[asset |-> B, amount |-> n]>> : n \in {20, 45, 80, 110, 150, 240, 400}}

-----------------------------------------------------------------------------
Scenes ==
  [plain |-> [accounts |-> PlainAccounts, prices |-> PlainPrices, indexes |-> {2100, 2600},
              offers |-> PlainOffers, losses |-> {0, 7}, rounds |-> 2],
   whole |-> [accounts |-> WholeAccounts, prices |-> WholePrices, indexes |-> {2100},
              offers |-> WholeOffers, losses |-> {0, 1}, rounds |-> 3]]

In(c) == INSTANCE Liquidation WITH
  StartAccounts <- c.accounts, PriceSets <- c.prices, BorrowIndexes <- c.indexes,
  Offers <- c.offers, Losses <- c.losses, MaxRounds <- c.rounds

MCInit == \E name \in DOMAIN Scenes : scene = name /\ In(Scenes[name])!Init

MCNext == UNCHANGED scene /\ \E name \in DOMAIN Scenes : scene = name /\ In(Scenes[name])!Next

MCSpec == MCInit /\ [][MCNext]_<<vars, scene>>
=============================================================================
