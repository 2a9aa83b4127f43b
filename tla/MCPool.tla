------------------------------- MODULE MCPool -------------------------------
(***************************************************************************)
(* Small instances of the pool.  One Ray is 100, a token base unit is 10   *)
(* Ray, a year is two milliseconds: interest, both rounding directions and *)
(* the chunked accrual all show within a few steps.  A behaviour plays one *)
(* of several scenes, which differ in who acts and with what.              *)
(***************************************************************************)
EXTENDS Pool, TLC

CONSTANTS
  a1, a2, a3, h1, h2, xlm,
  Headroom   \* an i128 so small that a market fills it

VARIABLES scene, calls

\* A steep model: up to 100% a year, a fifth of it for the protocol.
Steep ==
  [max_borrow_rate |-> 100, base_borrow_rate |-> 10, slope1 |-> 20, slope2 |-> 40,
   slope3 |-> 80, mid_utilization |-> 40, optimal_utilization |-> 70,
   max_utilization |-> 90, reserve_factor |-> 2000, is_flashloanable |-> TRUE,
   flashloan_fee |-> 500, unit |-> 10]

\* A flat model without a utilization ceiling, reserve or flash loans.
Flat ==
  [Steep EXCEPT !.max_borrow_rate = 40, !.slope3 = 40, !.slope2 = 40, !.max_utilization = 100,
                !.reserve_factor = 0, !.is_flashloanable = FALSE, !.flashloan_fee = 0]

MCOneModel  == {Steep}
MCNoFlash   == {[Steep EXCEPT !.is_flashloanable = FALSE]}
MCTwoModels == {Steep, Flat}

OneToken == [h \in HubAsset |-> xlm]

-----------------------------------------------------------------------------
\* Who acts, with which amounts, and the bounds: tokens, ticks and calls.
Scenes ==
  [market   |-> [hubs |-> {h1}, accounts |-> {a1, a2}, models |-> MCNoFlash, amounts |-> {10, 25}, fees |-> {2},
                 shares |-> {33}, gifts |-> {}, limit |-> MaxI128, tokens |-> 35, time |-> 2, calls |-> 6],
   accrual  |-> [hubs |-> {h1}, accounts |-> {a3}, models |-> MCTwoModels, amounts |-> {10, 25}, fees |-> {2},
                 shares |-> {33}, gifts |-> {}, limit |-> MaxI128, tokens |-> 35, time |-> 5, calls |-> 5],
   hubs     |-> [hubs |-> {h1, h2}, accounts |-> {a3}, models |-> MCTwoModels, amounts |-> {1}, fees |-> {1},
                 shares |-> {7}, gifts |-> {1}, limit |-> MaxI128, tokens |-> 3, time |-> 1, calls |-> 6],
   headroom |-> [hubs |-> {h1}, accounts |-> {a3}, models |-> MCOneModel, amounts |-> {10, 20}, fees |-> {0, 1},
                 shares |-> {7}, gifts |-> {1}, limit |-> Headroom, tokens |-> 42, time |-> 1, calls |-> 6]]

In(c) == INSTANCE Pool WITH
  Account <- c.accounts, ParamSets <- c.models, Amount <- c.amounts, Fee <- c.fees, Shares <- c.shares,
  Donation <- c.gifts, MaxI128 <- c.limit, TokenSupply <- c.tokens, MaxTime <- c.time

\* Every scene has the same accounts and hubs; the tokens in existence differ.
Funded(c) == INSTANCE Pool WITH TokenSupply <- c.tokens

MCInit ==
  /\ \E name \in DOMAIN Scenes : scene = name /\ Funded(Scenes[name])!Init
  /\ calls = 0

\* At the limit of i128 a market may refuse everything.
Over == calls = Scenes[scene].calls \/ scene = "headroom"

MCNext ==
  \/ \E name \in DOMAIN Scenes :
       /\ scene = name
       /\ calls < Scenes[name].calls
       /\ In(Scenes[name])!Next
       /\ Created' \subseteq Scenes[name].hubs
       /\ now' # now => Created # {}    \* the clock starts with the first market
       /\ calls' = IF now' = now THEN calls + 1 ELSE calls
       /\ UNCHANGED scene
  \/ Over /\ UNCHANGED <<vars, scene, calls>>

MCSpec == MCInit /\ [][MCNext]_<<vars, scene, calls>>

Accounts == Permutations({a1, a2})
=============================================================================
