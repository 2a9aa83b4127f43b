------------------------------- MODULE Router -------------------------------
(***************************************************************************)
(* The swap router: contracts/swap-aggregator.  execute_strategy runs a    *)
(* decoded program (RouterProgram) one instruction at a time against       *)
(* venues that are not trusted, over an invocation-local Vault, and what   *)
(* it keeps goes to fee buckets that the owner and the referrals claim.    *)
(*                                                                         *)
(* `book' is what the ledger holds: the router's token balances, the       *)
(* admin and referral fee buckets, and the counter ReservedTotal.  A run   *)
(* works on a copy of its own, which the last step commits: any failure on *)
(* the way reverts the invocation and drops the copy.  The host lets no    *)
(* contract call back into the router while it runs.                       *)
(***************************************************************************)
EXTENDS RouterProgram, SequencesExt, FiniteSetsExt

CONSTANTS
  Address,      \* tokens and pools, the share token of a Curve pool being the pool
  Rank,         \* the order of addresses
  Payloads,     \* the strategies: [ops, assets, amounts]
  Answers,      \* what a pool reports: [tokens, share, reserves]
  Inputs,       \* the values of total_in
  Losses,       \* what an input transfer may withhold
  Fills,        \* the amounts a venue may send
  FeeSteps,     \* the fees the owner may set, in basis points
  Preferred,    \* the tokens the owner may whitelist
  TokenLists,   \* the lists claims and sweeps are called with
  Owners,       \* the owners of referrals
  Bps, FeeCap,
  ResidualPpm, ResidualDustFloor,
  FeeNum, FeeDen,  \* Soroswap's fee
  MaxReferrals, MaxHeld, MaxCalls, MaxSurplus   \* bounds of the instance

VARIABLES
  book,       \* [held, admin, refs, reserved]
  static_fee, \* StaticFeeBps
  referrals,  \* the ReferralConfig of every id issued
  whitelist,  \* WhitelistedTokens
  run,        \* the invocation in progress
  calls       \* strategies started

vars == <<book, static_fee, referrals, whitelist, run, calls>>
config == <<static_fee, referrals, whitelist>>

Zero == [t \in Address |-> 0]
NoRun == [pc |-> 0]
NoOutput == [token |-> "none", amount |-> 0]

Running == run.pc > 0

Init ==
  /\ book = [held |-> Zero, admin |-> Zero, refs |-> [i \in 1..MaxReferrals |-> Zero], reserved |-> Zero]
  /\ static_fee = 0
  /\ referrals = <<>>
  /\ whitelist = {}
  /\ run = NoRun
  /\ calls = 0

-----------------------------------------------------------------------------
(* vault.rs                                                                 *)

Deposit(r, t, amount) == [r EXCEPT !.vault[t] = @ + amount, !.credited[t] = @ + amount]
Withdraw(r, t, amount) == [r EXCEPT !.vault[t] = @ - amount]

-----------------------------------------------------------------------------
(* storage.rs and fees.rs                                                   *)

FeeAmount(balance, fee_bps) == (balance * fee_bps) \div Bps

AccumulateSwapFees(b, t, id, static_amount, referral_amount) ==
  [b EXCEPT !.admin[t] = @ + static_amount,
            !.refs[id][t] = @ + referral_amount,
            !.reserved[t] = @ + static_amount + referral_amount]

\* try_load_referral, and its active flag.
Active(id) == id \in DOMAIN referrals /\ referrals[id].active

CombinedBps(id) == static_fee + referrals[id].fee_bps

\* The combined cap is looked at when a fee is taken, not when it is set.
FeesAllowed(r, t, id) ==
  Active(id) /\ r.vault[t] > 0 => CombinedBps(id) <= FeeCap

ApplyFeesOnToken(r, t, id) ==
  IF ~Active(id) THEN r
  ELSE LET static_amount   == FeeAmount(r.vault[t], static_fee)
           referral_amount == FeeAmount(r.vault[t], referrals[id].fee_bps)
       IN  [Withdraw(r, t, static_amount + referral_amount) EXCEPT
              !.book = AccumulateSwapFees(@, t, id, static_amount, referral_amount)]

Bucket(b, t, id) == IF id = 0 THEN b.admin[t] ELSE b.refs[id][t]

\* take_fee_bucket, the admin's bucket being the one of id 0.
TakeFeeBucket(b, t, id) ==
  LET released == [b EXCEPT !.reserved[t] = @ - Bucket(b, t, id)]
  IN  IF id = 0 THEN [released EXCEPT !.admin[t] = 0] ELSE [released EXCEPT !.refs[id][t] = 0]

\* claim_fee_bucket, token by token: a token listed twice has nothing left.
ClaimFeeBucket(tokens, id) ==
  FoldLeft(LAMBDA b, t : [TakeFeeBucket(b, t, id) EXCEPT !.held[t] = @ - Bucket(b, t, id)],
           book, tokens)

\* Mutant: only the admin's bucket is left behind.
SweepAboveAdmin(tokens) ==
  FoldLeft(LAMBDA b, t : [b EXCEPT !.held[t] = IF @ > b.admin[t] THEN b.admin[t] ELSE @],
           book, tokens)

SweepAboveReserved(tokens) ==
  FoldLeft(LAMBDA b, t : [b EXCEPT !.held[t] = IF @ > b.reserved[t] THEN b.reserved[t] ELSE @],
           book, tokens)

-----------------------------------------------------------------------------
(* venues: what the router asks of a pool before it trusts a hop to it.     *)

\* pool_tokens: the list a pool reported first, if it is one.
ListValid(tokens, pool) ==
  Len(tokens) \in 2..MaxAssets /\ IsInjective(tokens) /\ ~Contains(tokens, pool)

PoolTokens(pool, answer) == IF pool \in DOMAIN run.cache THEN run.cache[pool] ELSE answer.tokens

PoolTokensValid(pool, answer) == pool \in DOMAIN run.cache \/ ListValid(answer.tokens, pool)

Remember(r, pool, tokens) == [r EXCEPT !.cache = (pool :> tokens) @@ @]

SoroswapFee(amount) == (amount * FeeNum + FeeDen - 1) \div FeeDen

SoroswapAmountOut(amount, reserve_in, reserve_out) ==
  LET in_less == amount - SoroswapFee(amount)
  IN  IF amount <= 0 \/ reserve_in <= 0 \/ reserve_out <= 0 \/ in_less <= 0 THEN 0
      ELSE (in_less * reserve_out) \div (reserve_in + in_less)

ReserveIn(hop, answer)  == answer.reserves[IF Rank[hop.token_in] < Rank[hop.token_out] THEN 1 ELSE 2]
ReserveOut(hop, answer) == answer.reserves[IF Rank[hop.token_in] < Rank[hop.token_out] THEN 2 ELSE 1]

SoroswapServes(hop, amount, answer) ==
  SoroswapAmountOut(amount, ReserveIn(hop, answer), ReserveOut(hop, answer)) > 0

AquariusServes(hop, answer) ==
  /\ PoolTokensValid(hop.pool, answer)
  /\ {hop.token_in, hop.token_out} \subseteq ToSet(PoolTokens(hop.pool, answer))

\* The pool is its own share token: burnt for one coin, or minted from one.
CurveServes(hop, answer) ==
  /\ PoolTokensValid(hop.pool, answer)
  /\ {hop.token_in, hop.token_out} \ {hop.pool} \subseteq ToSet(PoolTokens(hop.pool, answer))

\* direction_for_pair on token0 and token1, which are not remembered.
SushiServes(hop, answer) ==
  answer.tokens \in {<<hop.token_in, hop.token_out>>, <<hop.token_out, hop.token_in>>}

\* Phoenix and Comet are asked nothing.
Serves(hop, amount, answer) ==
  CASE hop.venue = "Soroswap" -> SoroswapServes(hop, amount, answer)
    [] hop.venue = "Aquarius" -> AquariusServes(hop, answer)
    [] hop.venue = "Curve"    -> CurveServes(hop, answer)
    [] hop.venue = "Sushi"    -> SushiServes(hop, answer)
    [] OTHER -> TRUE

CachesTokens(venue) == venue \in {"Aquarius", "Curve"}

-----------------------------------------------------------------------------
(* execute: the instructions.  What a pool does to the router's balances is *)
(* bounded by what the router authorized: it takes what it is offered or    *)
(* less, and sends what it likes.                                           *)

Asset(i)  == run.payload.assets[i + 1]
Amount(i) == run.payload.amounts[i + 1]

Op == OpAt(run.payload.ops, run.pc - 1)
Hop == [pool |-> Asset(Op.a), token_in |-> Asset(Op.b), token_out |-> Asset(Op.c), venue |-> Op.opcode]

ResolveAmount(mode, t) ==
  CASE mode.kind = "All"   -> run.vault[t]
    [] mode.kind = "Prev"  -> run.prev.amount
    [] mode.kind = "Fixed" -> Amount(mode.idx)
    [] mode.kind = "Ppm"   -> (run.vault[t] * Weight(run.payload.ops, mode.idx)) \div PpmDenominator

Resolves(mode, t) == mode.kind = "Prev" => run.prev.token = t

InInstruction == Running /\ run.pc <= OpCount(run.payload.ops)

Advance(r) == run' = [r EXCEPT !.pc = @ + 1] /\ UNCHANGED <<book, config, calls>>

Moved(b, token_in, spent, token_out, received) ==
  [b EXCEPT !.held = [@ EXCEPT ![token_in] = @ - spent, ![token_out] = @ + received]]

\* vault.withdraw of a positive amount.
Spendable(amount, t) == amount > 0 /\ amount <= run.vault[t]

SpentExactly(spent, amount) == spent = amount

\* dispatch_hop: the fill is the measured increase, and the input must have
\* gone down by exactly what was offered.
SwapThrough(hop, amount, answer, received, spent) ==
  /\ Spendable(amount, hop.token_in)
  /\ Serves(hop, amount, answer)
  /\ received > 0
  /\ SpentExactly(spent, amount)
  /\ run.book.held[hop.token_out] + received <= MaxHeld
  /\ LET moved == [Deposit(Withdraw(run, hop.token_in, amount), hop.token_out, received) EXCEPT
                     !.book = Moved(@, hop.token_in, spent, hop.token_out, received),
                     !.prev = [token |-> hop.token_out, amount |-> received]]
     IN  Advance(IF CachesTokens(hop.venue)
                   THEN Remember(moved, hop.pool, PoolTokens(hop.pool, answer)) ELSE moved)

Swap(answer, received) ==
  /\ InInstruction /\ IsSwap(Op.opcode)
  /\ Resolves(Op.mode, Hop.token_in)
  /\ \E spent \in ResolveAmount(Op.mode, Hop.token_in) - 1 .. ResolveAmount(Op.mode, Hop.token_in) :
       SwapThrough(Hop, ResolveAmount(Op.mode, Hop.token_in), answer, received, spent)

FloorsMet(received, tokens, start) ==
  \A k \in DOMAIN tokens : Amount(start + k - 1) >= 0 /\ received[tokens[k]] >= Amount(start + k - 1)

\* remove_liquidity: all shares go, and each constituent is measured.
\* `sent' is what the pool sends of each of its tokens.
Burn(answer, sent) ==
  LET pool == Asset(Op.a)
      lp   == Asset(Op.b)
      tokens   == PoolTokens(pool, answer)
      shares   == run.vault[lp]
      held     == [t \in Address |-> run.book.held[t] - (IF t = lp THEN shares ELSE 0)
                                       + (IF Contains(tokens, t) THEN sent ELSE 0)]
      received == [t \in Address |-> IF Contains(tokens, t) THEN held[t] - run.book.held[t] ELSE 0]
  IN  /\ InInstruction /\ Op.opcode = "Burn"
      /\ PoolTokensValid(pool, answer) /\ answer.share = lp
      /\ Op.c + Len(tokens) <= Len(run.payload.amounts)
      /\ shares > 0
      /\ run.book.held[lp] - held[lp] = shares
      /\ FloorsMet(received, tokens, Op.c)
      /\ \E t \in Address : received[t] > 0
      /\ \A t \in ToSet(tokens) : held[t] <= MaxHeld
      /\ Advance([Remember(run, pool, tokens) EXCEPT
           !.vault = [t \in Address |-> @[t] - (IF t = lp THEN shares ELSE 0) + received[t]],
           !.credited = [t \in Address |-> @[t] + received[t]],
           !.book.held = held,
           !.prev = NoOutput])

\* add_liquidity: every constituent is offered in full, the pool takes a part
\* of it, and the shares are measured.
Mint(answer, kept, sent) ==
  LET pool == Asset(Op.a)
      lp   == Asset(Op.b)
      tokens == ToSet(PoolTokens(pool, answer))
      spent  == [t \in Address |-> IF t \in tokens THEN Max({run.vault[t] - kept, 0}) ELSE 0]
      held   == [t \in Address |-> run.book.held[t] - spent[t] + (IF t = lp THEN sent ELSE 0)]
      shares == held[lp] - run.book.held[lp]
      charged(t) == IF t \in tokens /\ run.vault[t] > 0 THEN run.book.held[t] - held[t] ELSE 0
  IN  /\ InInstruction /\ Op.opcode = "Mint"
      /\ PoolTokensValid(pool, answer) /\ answer.share = lp
      /\ Amount(Op.c) > 0
      /\ \E t \in tokens : run.vault[t] > 0
      /\ \A t \in tokens : charged(t) >= 0
      /\ shares >= Amount(Op.c)
      /\ held[lp] <= MaxHeld
      /\ Advance([Remember(run, pool, PoolTokens(pool, answer)) EXCEPT
           !.vault = [t \in Address |-> @[t] - charged(t) + (IF t = lp THEN shares ELSE 0)],
           !.credited[lp] = @ + shares,
           !.book.held = held,
           !.prev = [token |-> lp, amount |-> shares]])

-----------------------------------------------------------------------------
(* execute::run                                                             *)

FeeOnInput(id, token_in, token_out) ==
  id # 0 /\ (token_out \notin whitelist \/ token_in \in whitelist)

\* Mutant: the vault is credited what was asked for.
CreditDeclared(total_in, loss) == total_in

\* transfer_amount_measured: the token may deliver less.
CreditMeasured(total_in, loss) == total_in - loss

StartRun(payload, token_in, total_in, loss) ==
  Deposit([pc |-> 1, payload |-> payload, book |-> [book EXCEPT !.held[token_in] = @ + total_in - loss],
           vault |-> Zero, credited |-> Zero, prev |-> NoOutput, cache |-> <<>>,
           token_in |-> token_in, token_out |-> payload.assets[TokenOut(payload.ops) + 1],
           referral |-> ReferralId(payload.ops),
           fee_on_input |-> FeeOnInput(ReferralId(payload.ops), token_in,
                                       payload.assets[TokenOut(payload.ops) + 1])],
          token_in, CreditMeasured(total_in, loss))

TakeInputFee(r) ==
  IF r.fee_on_input
    THEN FeesAllowed(r, r.token_in, r.referral) /\ run' = ApplyFeesOnToken(r, r.token_in, r.referral)
    ELSE run' = r

ExecuteStrategy(payload, total_in, loss) ==
  /\ ~Running
  /\ calls < MaxCalls
  /\ total_in > 0 /\ loss <= total_in
  /\ ProgramValid(payload.ops, payload.assets, Len(payload.amounts))
  /\ payload.amounts[MinOut(payload.ops) + 1] > 0
  /\ LET token_in == payload.assets[TokenIn(payload.ops) + 1]
     IN  /\ book.held[token_in] + total_in <= MaxHeld
         /\ TakeInputFee(StartRun(payload, token_in, total_in, loss))
  /\ calls' = calls + 1
  /\ UNCHANGED <<book, config>>

AfterHops(r) == IF r.fee_on_input THEN r ELSE ApplyFeesOnToken(r, r.token_out, r.referral)

ResidualAllowance(credited) == Max({credited \div ResidualPpm, ResidualDustFloor})

Paid(r) ==
  [r EXCEPT !.vault[r.token_out] = 0, !.book.held[r.token_out] = @ - r.vault[r.token_out]]

ResidualWithinAllowance(r) ==
  \A t \in Address : r.vault[t] > 0 => r.vault[t] <= ResidualAllowance(r.credited[t])

\* accrue_residual_as_revenue
WithResidual(r) ==
  [r.book EXCEPT !.admin = [t \in Address |-> @[t] + r.vault[t]],
                 !.reserved = [t \in Address |-> @[t] + r.vault[t]]]

Settle(r) ==
  /\ r.vault[r.token_out] >= Amount(MinOut(r.payload.ops))
  /\ ResidualWithinAllowance(Paid(r))
  /\ book' = WithResidual(Paid(r))
  /\ run' = NoRun
  /\ UNCHANGED <<config, calls>>

Finish ==
  /\ Running /\ run.pc > OpCount(run.payload.ops)
  /\ ~run.fee_on_input => FeesAllowed(run, run.token_out, run.referral)
  /\ Settle(AfterHops(run))

\* A failed condition, here or in a venue, reverts the whole invocation.
Abort == Running /\ run' = NoRun /\ UNCHANGED <<book, config, calls>>

-----------------------------------------------------------------------------
(* lib.rs: the owner's entry points, and the claims.                        *)

SetStaticFee(fee_bps) ==
  /\ ~Running /\ fee_bps <= FeeCap
  /\ static_fee' = fee_bps
  /\ UNCHANGED <<book, referrals, whitelist, run, calls>>

AddToWhitelist(t) ==
  /\ ~Running
  /\ whitelist' = whitelist \cup {t}
  /\ UNCHANGED <<book, static_fee, referrals, run, calls>>

RemoveFromWhitelist(t) ==
  /\ ~Running
  /\ whitelist' = whitelist \ {t}
  /\ UNCHANGED <<book, static_fee, referrals, run, calls>>

AddReferral(owner, fee_bps) ==
  /\ ~Running /\ fee_bps <= FeeCap
  /\ Len(referrals) < MaxReferrals
  /\ referrals' = Append(referrals, [owner |-> owner, fee_bps |-> fee_bps, active |-> TRUE])
  /\ UNCHANGED <<book, static_fee, whitelist, run, calls>>

EditReferral(id, cfg) ==
  /\ ~Running
  /\ referrals' = [referrals EXCEPT ![id] = cfg]
  /\ UNCHANGED <<book, static_fee, whitelist, run, calls>>

SetReferralFee(id, fee_bps) ==
  fee_bps <= FeeCap /\ EditReferral(id, [referrals[id] EXCEPT !.fee_bps = fee_bps])
SetReferralActive(id, active) == EditReferral(id, [referrals[id] EXCEPT !.active = active])
SetReferralOwner(id, owner)   == EditReferral(id, [referrals[id] EXCEPT !.owner = owner])

Payout(b) == ~Running /\ book' = b /\ UNCHANGED <<config, run, calls>>

ClaimAdminFees(tokens)        == Payout(ClaimFeeBucket(tokens, 0))
ClaimReferralFees(id, tokens) == Payout(ClaimFeeBucket(tokens, id))
SweepBalance(tokens)          == Payout(SweepAboveReserved(tokens))

\* Anyone may send the router tokens.
Donate(t) ==
  /\ ~Running /\ book.held[t] - book.reserved[t] < MaxSurplus
  /\ book' = [book EXCEPT !.held[t] = @ + 1]
  /\ UNCHANGED <<config, run, calls>>

Instruction ==
  \/ \E answer \in Answers, received \in Fills : Swap(answer, received)
  \/ \E answer \in Answers, sent \in Fills : Burn(answer, sent)
  \/ \E answer \in Answers, kept \in 0..1, sent \in Fills : Mint(answer, kept, sent)

Administer ==
  \/ \E fee \in FeeSteps : SetStaticFee(fee)
  \/ \E t \in Preferred : AddToWhitelist(t) \/ RemoveFromWhitelist(t)
  \/ \E owner \in Owners, fee \in FeeSteps : AddReferral(owner, fee)
  \/ \E id \in DOMAIN referrals :
       \/ \E fee \in FeeSteps : SetReferralFee(id, fee)
       \/ \E active \in BOOLEAN : SetReferralActive(id, active)
       \/ \E owner \in Owners : SetReferralOwner(id, owner)

Claim ==
  \E tokens \in TokenLists :
    \/ ClaimAdminFees(tokens)
    \/ \E id \in DOMAIN referrals : ClaimReferralFees(id, tokens)
    \/ SweepBalance(tokens)

Next ==
  \/ \E payload \in Payloads, total_in \in Inputs, loss \in Losses : ExecuteStrategy(payload, total_in, loss)
  \/ Instruction
  \/ Finish
  \/ Abort
  \/ Administer
  \/ Claim
  \/ \E t \in Address : Donate(t)

Spec == Init /\ [][Next]_vars

-----------------------------------------------------------------------------
(* What the router promises.                                                *)

Working == IF Running THEN run.book ELSE book
InVault == IF Running THEN run.vault ELSE Zero

BucketTotal(b, t) == b.admin[t] + MapThenSumSet(LAMBDA id : b.refs[id][t], DOMAIN b.refs)

\* Every fee that was taken can be paid: whatever the venues and the tokens do,
\* and however often the owner sweeps, the router holds the tokens of all the
\* buckets.  storage.rs keeps ReservedTotal beside the buckets it sums: through
\* fees, residuals, claims and reverted runs the two agree, so that release never
\* underflows and sweep_balance knows what is not its own.
FeesAreBacked ==
  \A t \in Address :
    BucketTotal(Working, t) = Working.reserved[t] /\ Working.reserved[t] <= Working.held[t]

\* A run is paid for by its own input.  At every instruction, on commit and
\* on revert, the tokens of the router that are neither reserved nor in the
\* vault of the run are the same: none of them fills a hop, and nothing the
\* run received is left behind unaccounted.
Unclaimed(t) == Working.held[t] - Working.reserved[t] - InVault[t]

SurplusKept == Running \/ run'.pc > 0 => \A t \in Address : Unclaimed(t)' = Unclaimed(t)

=============================================================================
