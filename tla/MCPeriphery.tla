---------------------------- MODULE MCPeriphery ----------------------------
(***************************************************************************)
(* The contracts around the controller.  A behaviour plays one scene.      *)
(* Delegates: two owners and two managers over three accounts; tokens      *)
(* change hands and come back, grants go stale, and the delegate list is   *)
(* at its cap of one.  Vaults: the DeFindex adapter holds accounts for two *)
(* vaults, on the scale of MCPool.  Programs, fees and venues: the swap    *)
(* router over two tokens A and B, an Aquarius share token L and a pool p  *)
(* that is also a Curve share token, running any program, taking and       *)
(* paying fees, and routing through the venues that keep state.            *)
(***************************************************************************)
EXTENDS Accounts, RouterProgram, SequencesExt

CONSTANTS
  alice, bob, keeper, vault,
  Ray, Bps, MaxI128, MsPerYear, MaxIndex, SupplyIndexFloor, MaxBorrowRate, MaxFlashFee, WadUnit,
  BorrowableUnit, LiquidationBuffer,
  Vault, Others, Lent, Amounts, Losses, Gifts, MaxId, MaxNow, MaxCalls

VARIABLES
  scene,
  market, account, mapping, vault_next, now, calls,   \* the adapter
  book, static_fee, referrals, whitelist, run, swaps  \* the router

MCOwners == {alice, bob}
MCManagers == {keeper, vault}

Steep ==
  [max_borrow_rate |-> 100, base_borrow_rate |-> 10, slope1 |-> 20, slope2 |-> 40,
   slope3 |-> 80, mid_utilization |-> 40, optimal_utilization |-> 70,
   max_utilization |-> 90, reserve_factor |-> 2000, is_flashloanable |-> TRUE,
   flashloan_fee |-> 500, unit |-> 10]

Adapter == INSTANCE DefindexStrategy WITH P <- Steep, next_id <- vault_next

adapter == <<market, account, mapping, vault_next, now, calls>>

-----------------------------------------------------------------------------
(* The swap router's programs and scenes.                                   *)

\* A program as it travels.
Record(opcode, mode, a, b, c) == <<opcode, mode, a, b, c>>
Blob(token_in, token_out, min_out, referral, records, weights) ==
  <<1, token_in, token_out, min_out, 0, 0, 0, referral, Len(records), Len(weights)>>
    \o FlattenSeq(records) \o FlattenSeq([i \in DOMAIN weights |-> <<0, 0, weights[i]>>])

Registry == <<"A", "B", "L", "p">>
Strategy(ops, amounts) == [ops |-> ops, assets |-> Registry, amounts |-> amounts]

\* The mode bytes.
All == 0
Prev == 1
Fixed(i) == 2 + i
Ppm(i) == 128 + i

Order == [t \in {"A", "B", "L", "p"} |-> CASE t = "A" -> 1 [] t = "B" -> 2 [] t = "L" -> 3 [] OTHER -> 4]

\* Every program of one or two records over a few bytes, valid or not: an
\* unknown opcode, indices past the registries, Prev anywhere, one address
\* listed under two indices.
SomeRecords ==
  {Record(opcode, mode, 3, b, c) :
     opcode \in {2, 5, 6, 8}, mode \in {All, Prev, Fixed(1), Fixed(2), Ppm(0), Ppm(1)}, b \in 0..2, c \in 0..4}
FirstRecords == {Record(2, All, 3, 0, 1), Record(2, Ppm(0), 3, 0, 1), Record(6, All, 3, 1, 0)}

TwoIndices(ops) == [ops |-> ops, assets |-> <<"A", "B", "A", "p">>, amounts |-> <<1, 2>>]

EveryProgram ==
  {TwoIndices(Blob(0, 1, 0, 0, records, <<1>>)) :
     records \in {<<r>> : r \in SomeRecords} \cup (FirstRecords \X SomeRecords)}
  \cup {TwoIndices(SubSeq(Blob(0, 1, 0, 0, <<Record(2, All, 3, 0, 1)>>, <<w>>), 1, n)) :
           w \in {0, 2, 5}, n \in {9, 17, 18}}

ProgramAnswers == {[tokens |-> <<"A", "L">>, share |-> "B", reserves |-> <<4, 4>>]}

\* Swaps of everything, in both directions, each with a referral of its own.
FeeStrategies ==
  {Strategy(Blob(0, 1, 0, 1, <<Record(2, All, 3, 0, 1)>>, <<>>), <<1>>),
   Strategy(Blob(1, 0, 0, 2, <<Record(2, Fixed(1), 3, 1, 0)>>, <<>>), <<1, 8>>)}

FeeAnswers == {[tokens |-> <<"A", "B">>, share |-> "L", reserves |-> <<10, 10>>]}
FeeLists == {<<"A">>, <<"B", "A", "B">>}

\* Routes through the venues that keep state or have shares.
VenueStrategies ==
  {Strategy(Blob(0, 1, 0, 0, <<Record(0, Ppm(0), 3, 0, 1), Record(1, All, 3, 0, 1)>>, <<2>>), <<1>>),
   Strategy(Blob(0, 2, 0, 0, <<Record(3, Ppm(0), 3, 0, 1), Record(6, All, 3, 2, 0)>>, <<2>>), <<1>>),
   Strategy(Blob(2, 1, 2, 0, <<Record(5, All, 3, 2, 0), Record(4, All, 3, 0, 1)>>, <<>>), <<1, 1, 2>>),
   Strategy(Blob(0, 1, 0, 0, <<Record(7, All, 3, 0, 3), Record(7, Prev, 3, 3, 1)>>, <<>>), <<1>>)}

VenueAnswers ==
  {[tokens |-> two, share |-> share, reserves |-> <<6, 18>>] :
     two \in {<<"A", "B">>, <<"B", "L">>, <<"A", "A">>, <<"p", "B">>}, share \in {"L", "B"}}

Scenes ==
  [programs |-> [payloads |-> EveryProgram, answers |-> ProgramAnswers, inputs |-> {4}, losses |-> {0, 4},
                 fills |-> {2}, fees |-> {}, preferred |-> {}, lists |-> {}, owners |-> {},
                 referrals |-> 1, held |-> 12, calls |-> 1, surplus |-> 0],
   fees     |-> [payloads |-> FeeStrategies, answers |-> FeeAnswers, inputs |-> {10}, losses |-> {0, 1},
                 fills |-> {0, 9, 11}, fees |-> {1, 4}, preferred |-> {"B"}, lists |-> FeeLists, owners |-> {"o"},
                 referrals |-> 2, held |-> 30, calls |-> 2, surplus |-> 1],
   venues   |-> [payloads |-> VenueStrategies, answers |-> VenueAnswers, inputs |-> {8}, losses |-> {0, 1},
                 fills |-> {1, 4, 5}, fees |-> {}, preferred |-> {}, lists |-> {}, owners |-> {},
                 referrals |-> 1, held |-> 30, calls |-> 2, surplus |-> 1]]

Swap(c) == INSTANCE Router WITH
  Address <- {"A", "B", "L", "p"}, Rank <- Order, Bps <- 10, FeeCap <- 3, ResidualPpm <- 20, ResidualDustFloor <- 1,
  FeeNum <- 3, FeeDen <- 10,
  Payloads <- c.payloads, Answers <- c.answers, Inputs <- c.inputs, Losses <- c.losses, Fills <- c.fills,
  FeeSteps <- c.fees, Preferred <- c.preferred, TokenLists <- c.lists, Owners <- c.owners,
  MaxReferrals <- c.referrals, MaxHeld <- c.held, MaxCalls <- c.calls, MaxSurplus <- c.surplus, calls <- swaps

router == <<book, static_fee, referrals, whitelist, run, swaps>>

-----------------------------------------------------------------------------

MCInit ==
  /\ Init /\ Adapter!Init
  /\ \/ scene \in {"delegates", "vaults"} /\ Swap(Scenes.fees)!Init
     \/ \E name \in DOMAIN Scenes : scene = name /\ Swap(Scenes[name])!Init

MCNext ==
  /\ UNCHANGED scene
  /\ \/ scene = "delegates" /\ Next /\ UNCHANGED <<adapter, router>>
     \/ scene = "vaults" /\ Adapter!Next /\ UNCHANGED <<vars, router>>
     \/ \E name \in DOMAIN Scenes : scene = name /\ Swap(Scenes[name])!Next /\ UNCHANGED <<vars, adapter>>

MCSpec == MCInit /\ [][MCNext]_<<vars, adapter, router, scene>>

\* Every open account is the account of exactly one vault, through deposits,
\* exits, re-entries and third parties (get_vault_account is the only route
\* back to the collateral), and a withdrawal pays it to the unit.
ClaimsStayReachable == Adapter!ClaimsStayReachable

\* Every fee that was taken can be paid, and ReservedTotal is the sum of the
\* buckets, through fees, residuals, claims, sweeps and reverted runs: fees.rs.
FeesAreBacked == Swap(Scenes.fees)!FeesAreBacked

\* A run is paid for by its own input: what the router holds beyond its
\* reserves is the same before and after every instruction: executor.rs.
SurplusUntouched == [][Swap(Scenes.fees)!SurplusKept]_router

Vaults == Permutations(Vault)
=============================================================================
