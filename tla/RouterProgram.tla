--------------------------- MODULE RouterProgram ---------------------------
(***************************************************************************)
(* The packed instruction stream of a strategy: contracts/swap-aggregator, *)
(* program.rs.  A program is a sequence of bytes, a header, then records   *)
(* of OpLen bytes, then weights of WeightLen bytes; `assets' is the        *)
(* address registry and `amounts_len' the length of the amount registry.   *)
(* Offsets and indices count from 0, as on the wire.                       *)
(***************************************************************************)
EXTENDS Integers, Sequences

CONSTANTS
  MaxOps,        \* MAX_OPS
  MaxWeights,    \* MAX_WEIGHTS
  MaxAssets,     \* MAX_ASSETS
  MaxAmounts,    \* MAX_AMOUNTS
  PpmDenominator \* PPM_DENOMINATOR

ASSUME ProgramAssumption ==
  /\ {MaxOps, MaxWeights, MaxAssets, MaxAmounts, PpmDenominator} \subseteq Nat \ {0}
  /\ MaxAmounts <= 126 /\ MaxAssets <= 256

Version       == 1
HeaderLen     == 10
OpLen         == 5
WeightLen     == 3
ModeFixedBase == 2
ModePpmBase   == 128

\* The header fields.
OpCount(buf)     == buf[9]
WeightCount(buf) == buf[10]
TokenIn(buf)     == buf[2]
TokenOut(buf)    == buf[3]
MinOut(buf)      == buf[4]
ReferralId(buf)  == ((buf[5] * 256 + buf[6]) * 256 + buf[7]) * 256 + buf[8]

Opcode(b) ==
  CASE b = 0 -> "Soroswap" [] b = 1 -> "Aquarius" [] b = 2 -> "Phoenix" [] b = 3 -> "Sushi"
    [] b = 4 -> "CometDex" [] b = 5 -> "Burn"     [] b = 6 -> "Mint"    [] b = 7 -> "Curve"
    [] OTHER -> "none"

IsSwap(opcode) == opcode \notin {"Burn", "Mint", "none"}

\* Every byte is a mode; idx selects the amount or the weight.
Mode(b) ==
  CASE b = 0 -> [kind |-> "All", idx |-> 0]
    [] b = 1 -> [kind |-> "Prev", idx |-> 0]
    [] b >= ModePpmBase -> [kind |-> "Ppm", idx |-> b - ModePpmBase]
    [] OTHER -> [kind |-> "Fixed", idx |-> b - ModeFixedBase]

OpAt(buf, i) ==
  LET at == HeaderLen + OpLen * i
  IN  [opcode |-> Opcode(buf[at + 1]), mode |-> Mode(buf[at + 2]),
       a |-> buf[at + 3], b |-> buf[at + 4], c |-> buf[at + 5]]

Weight(buf, i) ==
  LET at == HeaderLen + OpLen * OpCount(buf) + WeightLen * i
  IN  (buf[at + 1] * 256 + buf[at + 2]) * 256 + buf[at + 3]

-----------------------------------------------------------------------------
(* Program::decode and Program::validate: the error a program is refused    *)
(* with is left out, what matters is that it is refused.                    *)

SameToken(assets, a, b) == assets[a + 1] = assets[b + 1]

HeaderValid(buf, assets, amounts_len) ==
  /\ Len(assets) \in 1..MaxAssets
  /\ amounts_len <= MaxAmounts
  /\ Len(buf) >= HeaderLen
  /\ Len(buf) <= HeaderLen + OpLen * MaxOps + WeightLen * MaxWeights
  /\ buf[1] = Version
  /\ OpCount(buf) \in 1..MaxOps
  /\ WeightCount(buf) <= MaxWeights
  /\ Len(buf) = HeaderLen + OpLen * OpCount(buf) + WeightLen * WeightCount(buf)
  /\ TokenIn(buf) < Len(assets) /\ TokenOut(buf) < Len(assets)
  /\ MinOut(buf) < amounts_len
  /\ ~SameToken(assets, TokenIn(buf), TokenOut(buf))

\* What a following Prev may consume: a swap's output, a mint's share token.
Produces(op, idx) ==
  \/ IsSwap(op.opcode) /\ op.c = idx
  \/ op.opcode = "Mint" /\ op.b = idx

PrevLinked(buf, i) ==
  OpAt(buf, i).mode.kind = "Prev" => i > 0 /\ Produces(OpAt(buf, i - 1), OpAt(buf, i).b)

ModeInRange(mode, amounts_len, weight_count) ==
  /\ mode.kind = "Fixed" => mode.idx < amounts_len
  /\ mode.kind = "Ppm" => mode.idx < weight_count

OpValid(buf, i, assets, amounts_len) ==
  LET op == OpAt(buf, i)
  IN  /\ op.opcode # "none"
      /\ PrevLinked(buf, i)
      /\ ModeInRange(op.mode, amounts_len, WeightCount(buf))
      /\ op.a < Len(assets) /\ op.b < Len(assets)
      /\ IF IsSwap(op.opcode)
           THEN op.c < Len(assets) /\ ~SameToken(assets, op.b, op.c)
           ELSE op.mode.kind = "All" /\ op.c < amounts_len

ProgramValid(buf, assets, amounts_len) ==
  /\ HeaderValid(buf, assets, amounts_len)
  /\ \A i \in 0..OpCount(buf) - 1 : OpValid(buf, i, assets, amounts_len)
  /\ \A i \in 0..WeightCount(buf) - 1 : Weight(buf, i) \in 1..PpmDenominator
=============================================================================
