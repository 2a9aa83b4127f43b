---------------------------- MODULE MCController ----------------------------
(***************************************************************************)
(* Small instances of the controller and its strategies.  One token is 20  *)
(* base units, one Wad is 100; B and D are two markets of one token in two *)
(* hubs and W is held in whole units.  A behaviour plays one of five       *)
(* scenes, each from a ledger its users reach by the module's own          *)
(* transactions.                                                           *)
(***************************************************************************)
EXTENDS Strategies

CONSTANTS alice, bob, liz, sp1, sp2, A, B, D, W, tokA, tokB, tokW, hub1, hub2

VARIABLES scene, calls

Model ==
  [max_borrow_rate |-> 100, base_borrow_rate |-> 10, slope1 |-> 20, slope2 |-> 40,
   slope3 |-> 80, mid_utilization |-> 80, optimal_utilization |-> 140,
   max_utilization |-> 200, reserve_factor |-> 20, is_flashloanable |-> TRUE,
   flashloan_fee |-> 5, unit |-> 10]

TokenOf == (A :> tokA) @@ (B :> tokB) @@ (D :> tokB) @@ (W :> tokW)
Hubs    == [h \in {A, B, D, W} |-> IF h = D THEN hub2 ELSE hub1]
Models  == [h \in {A, B, D, W} |-> IF h = W THEN [Model EXCEPT !.unit = 200] ELSE Model]

Terms(ltv, thr, fees, can_borrow, cap) ==
  [ltv |-> ltv, thr |-> thr, bonus |-> 10, fees |-> fees, supply_cap |-> 2 * cap, borrow_cap |-> cap,
   can_collateral |-> TRUE, can_borrow |-> can_borrow, flags |-> {}]

Pay(h, n) == [asset |-> h, amount |-> n]
One(h, n) == <<Pay(h, n)>>
Route(left, out) == [set |-> TRUE, left |-> left, out |-> out]
NoPay == Pay(A, 0)

-----------------------------------------------------------------------------
(* What the users of a strategy ask for, and the answers they get.          *)

Lever(mode, coll, debt, n, pay, route, convert) ==
  [mode |-> mode, collateral |-> coll, debt |-> debt, amount |-> n, payment |-> pay,
   route |-> route, convert |-> convert]

SomeMultiplies ==
  {Lever("Multiply", A, B, 20, Pay(A, 20), Route(3, 15), NoRoute),
   Lever("Long", A, B, 20, Pay(B, 15), Route(0, 34), NoRoute),
   Lever("Short", B, A, 20, Pay(D, 12), Route(-1, 20), NoRoute),
   Lever("Multiply", D, B, 20, Pay(A, 20), NoRoute, Route(2, 18)),
   Lever("Multiply", A, D, 30, NoPay, Route(0, 40), NoRoute)}

Swap(from, to, n, route) == [from |-> from, to |-> to, amount |-> n, route |-> route]

SomeDebtSwaps ==
  {Swap(B, D, 20, NoRoute), Swap(B, D, 60, NoRoute), Swap(B, A, 30, Route(4, 22)), Swap(B, A, 60, Route(0, 50))}
SomeCollateralSwaps ==
  {Swap(A, B, 30, Route(5, 24)), Swap(A, D, 80, Route(0, 75)), Swap(B, D, 20, NoRoute)}

Settle(coll, debt, n, route, close) ==
  [collateral |-> coll, debt |-> debt, amount |-> n, route |-> route, close |-> close]

SomeCollateralRepays ==
  {Settle(A, B, 30, Route(1, 26), FALSE), Settle(A, B, 60, Route(0, 55), TRUE),
   Settle(B, B, 15, NoRoute, FALSE), Settle(B, B, 90, NoRoute, TRUE), Settle(D, B, 30, NoRoute, FALSE)}

Leap(mode, debt, n, collaterals, refunds) ==
  [mode |-> mode, debt |-> debt, amount |-> n, collaterals |-> collaterals, refunds |-> refunds]

SomeFlashPositions ==
  {Leap("Multiply", B, 30, One(A, 20), {B}),
   Leap("Long", B, 30, <<Pay(A, 20), Pay(D, 0)>>, {}),
   Leap("Multiply", D, 30, One(A, 20), {})}
SomeSends == {[token |-> tokA, amount |-> 25], [token |-> tokA, amount |-> 60], [token |-> tokB, amount |-> 7]}

SomeMigrations ==
  {[caps |-> One(B, 30), withdraw |-> {A}, taken |-> (B :> 24), swept |-> (A :> 50)],
   [caps |-> <<Pay(B, 30), Pay(A, 10)>>, withdraw |-> {B}, taken |-> (B :> 30) @@ (A :> 0), swept |-> (B :> 45)],
   [caps |-> One(B, 20), withdraw |-> {}, taken |-> (B :> 12), swept |-> <<>>],
   [caps |-> <<>>, withdraw |-> {A, B}, taken |-> <<>>, swept |-> (A :> 0) @@ (B :> 9)]}

-----------------------------------------------------------------------------
(* The scenes.  Bob lends; Alice borrows B against A in the same spoke or   *)
(* in another, against W beside Liz, who holds A, or by a multiplication.   *)

NoRequests ==
  [supplies |-> {}, borrows |-> {}, repayments |-> {}, withdrawals |-> {}, offers |-> {}, losses |-> {0},
   recap |-> {}, configs |-> [h \in HubAsset |-> {}], flags |-> {}, limits |-> {}, floors |-> {}, curves |-> {},
   multiplies |-> {}, debts |-> {}, collaterals |-> {}, repays |-> {}, loans |-> {}, leaps |-> {},
   migrations |-> {}, sends |-> {}]

Plain ==
  [NoRequests EXCEPT
     !.supplies = {One(A, 40)}, !.borrows = {One(B, 9), One(B, 40)}, !.repayments = {One(B, 25), One(B, 90)},
     !.withdrawals = {One(A, 0), One(A, 30), One(B, 0)}, !.offers = {One(B, 30), One(B, 90)}, !.recap = {10},
     !.configs = [h \in HubAsset |->
        IF h = A THEN {Terms(30, 50, 20, TRUE, 100), Terms(70, 80, 20, TRUE, 100)} ELSE {}],
     !.limits = {[supply |-> 1, borrow |-> 1]}, !.floors = {400},
     !.curves = {[target_hf |-> 120, hf_for_max_bonus |-> 60, bonus_factor |-> 50]}]

Whole ==
  [NoRequests EXCEPT
     !.supplies = {One(W, 1), One(A, 40)}, !.borrows = {One(B, 10)}, !.repayments = {One(B, 25)},
     !.withdrawals = {One(W, 0), One(W, 1), One(W, 3)}, !.offers = {One(B, 15), One(B, 24), One(B, 60)},
     !.losses = {0, 1}]

Levered ==
  [NoRequests EXCEPT
     !.supplies = {One(B, 30)}, !.borrows = {One(A, 10)}, !.withdrawals = {One(A, 0)}, !.flags = {{"paused"}},
     !.multiplies = SomeMultiplies, !.debts = SomeDebtSwaps, !.collaterals = SomeCollateralSwaps,
     !.repays = SomeCollateralRepays, !.loans = {Pay(B, 30)}, !.migrations = SomeMigrations]

Leaping ==
  [NoRequests EXCEPT !.borrows = {One(A, 10)}, !.withdrawals = {One(A, 0)},
                     !.leaps = SomeFlashPositions, !.sends = SomeSends]

Lent == <<One(B, 120), One(A, 100), One(B, 60)>>

Scenes ==
  [risk   |-> [q |-> [Plain EXCEPT !.flags = {{"no_seize"}}], hubs |-> {A, B}, spokes |-> {sp1}, users |-> {alice, liz},
               prices |-> (tokA :> {0, 40, 100}) @@ (tokB :> {100}),
               cap |-> 100, time |-> 2, calls |-> 4, accounts |-> 4, opening |-> Lent],
   spokes |-> [q |-> [Plain EXCEPT !.flags = {{}, {"paused"}, {"frozen"}, {"no_seize"}}], hubs |-> {A, B},
               spokes |-> {sp1, sp2}, users |-> {alice, liz}, prices |-> (tokA :> {0, 40, 100}) @@ (tokB :> {100}),
               cap |-> 100, time |-> 2, calls |-> 3, accounts |-> 4, opening |-> Lent],
   whole  |-> [q |-> Whole, hubs |-> {A, B, W}, spokes |-> {sp1}, users |-> {alice, liz},
               prices |-> (tokA :> {100}) @@ (tokB :> {100}) @@ (tokW :> {40, 60, 100, 150}),
               cap |-> 100, time |-> 2, calls |-> 3, accounts |-> 5,
               opening |-> <<One(B, 120), One(W, 4), One(B, 40), One(A, 20)>>],
   levers |-> [q |-> Levered, hubs |-> {A, B, D}, spokes |-> {sp1}, users |-> {alice},
               prices |-> (tokA :> {70, 100}) @@ (tokB :> {100}),
               cap |-> 150, time |-> 1, calls |-> 3, accounts |-> 4,
               opening |-> <<<<Pay(A, 60), Pay(B, 120), Pay(D, 100)>>, One(A, 100), One(B, 40)>>],
   leaps  |-> [q |-> Leaping, hubs |-> {A, B, D}, spokes |-> {sp1}, users |-> {alice},
               prices |-> (tokA :> {60, 100, 130}) @@ (tokB :> {100}),
               cap |-> 150, time |-> 1, calls |-> 4, accounts |-> 4,
               opening |-> <<<<Pay(A, 60), Pay(B, 120), Pay(D, 100)>>,
                             Lever("Multiply", A, B, 40, Pay(A, 70), Route(0, 30), NoRoute)>>]]

In(c) == INSTANCE Strategies WITH
  HubAsset <- c.hubs, Spoke <- c.spokes, User <- c.users, PriceSets <- c.prices,
  MaxTime <- c.time, MaxAccounts <- c.accounts,
  Supplies <- c.q.supplies, Borrows <- c.q.borrows, Repayments <- c.q.repayments,
  Withdrawals <- c.q.withdrawals, Offers <- c.q.offers, Losses <- c.q.losses,
  Recapitalizations <- c.q.recap, Configs <- c.q.configs, FlagSets <- c.q.flags,
  LimitChoices <- c.q.limits, FloorChoices <- c.q.floors, CurveChoices <- c.q.curves,
  Multiplies <- c.q.multiplies, DebtSwaps <- c.q.debts, CollateralSwaps <- c.q.collaterals,
  CollateralRepays <- c.q.repays, FlashLoans <- c.q.loans, FlashPositions <- c.q.leaps,
  Migrations <- c.q.migrations, CallbackSends <- c.q.sends

Tokens(c) == DOMAIN c.prices

Start(c) ==
  /\ listing = [sp \in c.spokes |-> [h \in c.hubs |->
                  IF h = W THEN Terms(60, 75, 0, FALSE, c.cap) ELSE Terms(70, 80, 20, TRUE, c.cap)]]
  /\ deprecated = {}
  /\ curve = [sp \in c.spokes |-> [target_hf |-> 110, hf_for_max_bonus |-> 80, bonus_factor |-> 100]]
  /\ price = [t \in Tokens(c) |-> 100]
  /\ limits = [supply |-> PositionLimitMax, borrow |-> PositionLimitMax]
  /\ floor = 0
  /\ now = 0
  /\ paused = FALSE
  /\ s = In(c)!EmptyLedger
  /\ held = [t \in Tokens(c) |-> 0]
  /\ gifts = [t \in Tokens(c) |-> 0]
  /\ blend_approved = TRUE
  /\ flash = NoFlash
  /\ last = NoStrategy

MCInit ==
  /\ \E name \in DOMAIN Scenes : scene = name /\ Start(Scenes[name])
  /\ calls = 0

Opening(c) ==
  CASE calls = 0 -> SupplyNew(s, bob, IF scene = "spokes" THEN sp2 ELSE sp1, c.opening[1])
    [] calls = 1 -> IF scene = "leaps" THEN Multiply(s, alice, 0, sp1, c.opening[2])
                    ELSE SupplyNew(s, alice, sp1, c.opening[2])
    [] calls = 2 -> Borrow(s, 2, c.opening[3])
    [] calls = 3 -> SupplyNew(s, liz, sp1, c.opening[4])

Play(c) ==
  /\ calls < Len(c.opening) + c.calls
  /\ calls' = calls + 1
  /\ IF calls < Len(c.opening) THEN Commit(Opening(c)) /\ UNCHANGED strategy
     ELSE \/ In(c)!PlainAction
          \/ scene \in {"levers", "leaps"} /\ In(c)!StrategyStep

MCNext == UNCHANGED scene /\ \E name \in DOMAIN Scenes : scene = name /\ Play(Scenes[name])

MCSpec == MCInit /\ [][MCNext]_<<vars, strategy, scene, calls>>
=============================================================================
