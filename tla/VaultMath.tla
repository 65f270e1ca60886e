------------------------------ MODULE VaultMath ------------------------------
(***************************************************************************)
(* The conversion arithmetic of the vault contract:                        *)
(*   contracts/vault/src/math.rs      shares <-> assets, rounding down     *)
(*   contracts/vault/src/fee_math.rs  protocol fee, rounding down          *)
(*                                                                         *)
(* The contract computes in i128 with checked operations: a result outside *)
(* the type panics, which reverts the whole transaction.  Here the numbers *)
(* are integers, Fits says whether a number is representable, and every    *)
(* operator has a companion "...Fits" that is the condition under which    *)
(* the Rust function returns at all.                                       *)
(***************************************************************************)
EXTENDS Integers

CONSTANTS MaxI128,          \* the largest representable number
          BPS_DENOMINATOR   \* basis points in the whole (10_000 in the code)

ASSUME WidthAssumption == MaxI128 \in Nat \ {0}
ASSUME BpsAssumption == BPS_DENOMINATOR \in Nat \ {0}

\* An i128 holds -2^127 .. 2^127 - 1.
Fits(n) == -MaxI128 - 1 <= n /\ n <= MaxI128

\* Rust's integer division: the quotient is truncated toward zero.
Abs(n) == IF n < 0 THEN -n ELSE n
Quotient(a, b) ==
    IF (a < 0) = (b < 0) THEN Abs(a) \div Abs(b) ELSE -(Abs(a) \div Abs(b))

-----------------------------------------------------------------------------
\* Mutant: minting rounds up.
assets_to_shares_up(assets, total_shares, total_assets) ==
    IF total_assets = 0 \/ total_shares = 0
    THEN assets
    ELSE Quotient(assets * total_shares + total_assets - 1, total_assets)

assets_to_shares(assets, total_shares, total_assets) ==
    IF total_assets = 0 \/ total_shares = 0
    THEN assets
    ELSE Quotient(assets * total_shares, total_assets)

assets_to_shares_fits(assets, total_shares, total_assets) ==
    \/ total_assets = 0 \/ total_shares = 0
    \/ Fits(assets * total_shares)

\* Mutant: redeeming rounds up.
shares_to_assets_up(shares, total_shares, total_assets) ==
    IF total_shares = 0
    THEN 0
    ELSE Quotient(shares * total_assets + total_shares - 1, total_shares)

shares_to_assets(shares, total_shares, total_assets) ==
    IF total_shares = 0
    THEN 0
    ELSE Quotient(shares * total_assets, total_shares)

shares_to_assets_fits(shares, total_shares, total_assets) ==
    total_shares = 0 \/ Fits(shares * total_assets)

\* fee_math::calculate_protocol_fee returns the pair (fee, amount - fee); the
\* callers are accrue_yield, which repeats the formula, and report_benji_yield.
protocol_fee(amount, fee_bps) == Quotient(amount * fee_bps, BPS_DENOMINATOR)
=============================================================================
