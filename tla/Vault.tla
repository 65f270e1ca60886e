-------------------------------- MODULE Vault --------------------------------
(***************************************************************************)
(* The ledger of the YieldVault contract (contracts/vault/src/lib.rs): who *)
(* owns how many shares, how many assets they are worth, and where the     *)
(* tokens behind them are.                                                 *)
(*                                                                         *)
(* A Soroban invocation is atomic: an error or a panic reverts all of it.  *)
(* So each entry point is one action, enabled exactly when the invocation  *)
(* would succeed.  batch_deposit is the exception: its loop is one step    *)
(* per entry, and batch_left keeps every other invocation out until the    *)
(* batch is over.  The batch may end after any entry, so every state on    *)
(* the way is the outcome of some batch; one with an entry that panics is  *)
(* reverted as a whole and is not a step.                                  *)
(*                                                                         *)
(* The contract keeps its totals twice.  DataKey::State holds the numbers  *)
(* the conversions use (total_shares, total_assets); DataKey::TotalAssets  *)
(* is only the idle part (here idle) and DataKey::TotalShares is a second  *)
(* copy of the supply (here total_shares_key).                             *)
(*                                                                         *)
(* Not state here: DataKey::UserDeposit and PerUserCap.  The cap can never *)
(* be set (set_per_user_cap reads DataKey::Admin, which nothing writes),   *)
(* so the only reader of UserDeposit compares it with i128::MAX.           *)
(***************************************************************************)
EXTENDS VaultMath

CONSTANTS Users,             \* depositors
          Strategies,        \* strategy connector contracts
          VaultAddr, AdminAddr, TreasuryAddr,  \* the other token holders
          None,              \* an absent Option
          Supply,            \* tokens of each account at the start
          DepositAmounts, ShareAmounts, YieldAmounts,  \* arguments of the
          MoveAmounts, GiftAmounts,                    \* operations
          FeeChoices,        \* arguments of set_fee_bps
          ThresholdChoices,  \* ... of set_large_withdrawal_threshold
          MinDepositChoices, CooldownChoices, BufferChoices, BatchSizeChoices,
          CapChoices, RiskChoices, TreasuryChoices, RelayerChoices,
          PauseChoices,      \* TRUE: pause, FALSE: unpause
          NavChoices,        \* values a strategy may report as total_value()
          KoreanYields,      \* results of the Korean strategy's harvest_yield()
          Timelock,          \* 86_400 seconds in the code
          SHARE_PRICE_SCALE, \* 10^18 in the code
          MaxTime,           \* bound: the last ledger timestamp
          LeavesPendingAlone \* see withdraw

Accounts == Users \cup Strategies \cup {VaultAddr, AdminAddr, TreasuryAddr}

ASSUME AddressAssumption ==
    /\ Users \cap Strategies = {}
    /\ {VaultAddr, AdminAddr, TreasuryAddr} \cap (Users \cup Strategies) = {}
    /\ VaultAddr # AdminAddr /\ VaultAddr # TreasuryAddr
    /\ AdminAddr # TreasuryAddr
    /\ None \notin Accounts
ASSUME NumberAssumption ==
    /\ Supply \in [Accounts -> Nat] /\ Supply[VaultAddr] = 0
    /\ DepositAmounts \subseteq Nat \ {0} /\ ShareAmounts \subseteq Nat \ {0}
    /\ YieldAmounts \subseteq Nat \ {0} /\ MoveAmounts \subseteq Nat \ {0}
    /\ GiftAmounts \subseteq Nat \ {0}
    /\ FeeChoices \subseteq Int /\ ThresholdChoices \subseteq Int
    /\ MinDepositChoices \subseteq Int /\ BufferChoices \subseteq Int
    /\ CooldownChoices \subseteq Nat /\ BatchSizeChoices \subseteq Nat
    /\ CapChoices \subseteq Int /\ RiskChoices \subseteq Int
    /\ TreasuryChoices \subseteq {TreasuryAddr}
    /\ RelayerChoices \subseteq BOOLEAN /\ PauseChoices \subseteq BOOLEAN
    /\ NavChoices \subseteq Nat /\ KoreanYields \subseteq Int
    /\ Timelock \in Nat /\ SHARE_PRICE_SCALE \in Nat \ {0} /\ MaxTime \in Nat
    /\ LeavesPendingAlone \in BOOLEAN

VARIABLES
    total_shares, total_assets, is_paused,  \* DataKey::State
    total_shares_key,  \* DataKey::TotalShares
    idle,              \* DataKey::TotalAssets
    treasury_balance,  \* DataKey::TreasuryBalance
    share_balance,     \* DataKey::ShareBalance(user)
    last_deposit,      \* DataKey::LastDepositTime(user)
    pending,           \* DataKey::PendingWithdrawal(user)
    watermark,         \* DataKey::StrategyWatermark(strategy)
    conf,              \* the admin's settings, one field per key
    batch_left,        \* None, or the entries a running batch may still hold
    tokens,            \* external: balances of the underlying token
    nav,               \* external: total_value() of each strategy
    now,               \* ledger timestamp
    invested,          \* history: sent to strategies minus recalled from them
    booked             \* history: Korean yield booked without tokens

state == <<total_shares, total_assets, total_shares_key, idle>>
users == <<share_balance, last_deposit, pending>>
history == <<invested, booked>>
vars == <<state, is_paused, treasury_balance, users, watermark, conf,
          batch_left, tokens, nav, now, history>>

Pending == [shares : Nat, unlock_timestamp : Nat]
NoPending == [shares |-> 0, unlock_timestamp |-> 0]

Config == [fee_bps : 0..BPS_DENOMINATOR, treasury : {None, TreasuryAddr},
           large_withdrawal_threshold : Int, min_deposit : Int,
           withdrawal_cooldown : Nat, min_liquidity_buffer : Int,
           strategy : Strategies \cup {None}, benji : Strategies \cup {None},
           whitelist : SUBSET Strategies, cap : [Strategies -> Int],
           risk : [Strategies -> Int], relayer : BOOLEAN,
           max_batch_size : Nat]

TypeOK ==
    /\ total_shares \in Int /\ total_assets \in Int /\ is_paused \in BOOLEAN
    /\ total_shares_key \in Int /\ idle \in Nat /\ treasury_balance \in Nat
    /\ share_balance \in [Users -> Int] /\ last_deposit \in [Users -> Nat]
    /\ pending \in [Users -> Pending]
    /\ watermark \in [Strategies -> Int]
    /\ conf \in Config
    /\ batch_left \in Nat \cup {None}
    /\ tokens \in [Accounts -> Nat] /\ nav \in [Strategies -> Nat]
    /\ now \in Nat /\ invested \in Int /\ booked \in Int

-----------------------------------------------------------------------------
\* initialize writes State, TotalAssets and TotalShares; every other key is
\* absent, and these are the defaults its readers use.
initialize ==
    /\ total_shares = 0 /\ total_assets = 0 /\ is_paused = FALSE
    /\ total_shares_key = 0 /\ idle = 0 /\ treasury_balance = 0
    /\ share_balance = [u \in Users |-> 0]
    /\ last_deposit = [u \in Users |-> 0]
    /\ pending = [u \in Users |-> NoPending]
    /\ watermark = [s \in Strategies |-> 0]
    /\ conf = [fee_bps |-> 0, treasury |-> None,
               large_withdrawal_threshold |-> MaxI128, min_deposit |-> 0,
               withdrawal_cooldown |-> 0, min_liquidity_buffer |-> 0,
               strategy |-> None, benji |-> None, whitelist |-> {},
               cap |-> [s \in Strategies |-> MaxI128],
               risk |-> [s \in Strategies |-> BPS_DENOMINATOR],
               relayer |-> FALSE, max_batch_size |-> 50]
    /\ batch_left = None
    /\ tokens = Supply /\ nav = [s \in Strategies |-> 0] /\ now = 0
    /\ invested = 0 /\ booked = 0

\* No invocation is running.
Ready == batch_left = None

\* The token contract: a transfer fails unless the payer holds the amount.
transfer(bal, from, to, n) == [bal EXCEPT ![from] = @ - n, ![to] = @ + n]

-----------------------------------------------------------------------------
(* Deposits *)

shares_to_mint(amount) == assets_to_shares(amount, total_shares, total_assets)

\* What deposit and a batch entry accept ...
acceptable(amount) ==
    /\ amount >= conf.min_deposit
    /\ assets_to_shares_fits(amount, total_shares, total_assets)
    /\ shares_to_mint(amount) # 0

\* The share balances after a mint.
credited(user, minted) == [share_balance EXCEPT ![user] = @ + minted]

\* ... and what they then do: pull the tokens, add to both copies of both
\* totals, mint the shares and restart the user's cooldown.
mint(user, amount) ==
    LET minted == shares_to_mint(amount) IN
    /\ tokens[user] >= amount
    /\ Fits(idle + amount) /\ Fits(total_assets + amount)
    /\ Fits(total_shares + minted) /\ Fits(share_balance[user] + minted)
    /\ tokens' = transfer(tokens, user, VaultAddr, amount)
    /\ idle' = idle + amount
    /\ total_assets' = total_assets + amount
    /\ total_shares' = total_shares + minted
    /\ share_balance' = credited(user, minted)
    /\ last_deposit' = [last_deposit EXCEPT ![user] = now]
    /\ UNCHANGED <<is_paused, treasury_balance, pending, watermark, conf, nav,
                   now, history>>

deposit(user, amount) ==
    /\ Ready /\ ~is_paused
    /\ acceptable(amount)
    /\ mint(user, amount)
    /\ total_shares_key' = total_shares + shares_to_mint(amount)
    /\ UNCHANGED batch_left

\* A whitelisted relayer's batch starts; the pause is checked once, here.
batch_deposit ==
    /\ Ready /\ ~is_paused /\ conf.relayer
    /\ batch_left' = conf.max_batch_size
    /\ UNCHANGED <<state, is_paused, treasury_balance, users, watermark, conf,
                   tokens, nav, now, history>>

\* The stored TotalShares after an entry.
batch_supply(minted) == total_shares_key + minted

\* One entry.  A failed validation is only recorded; a mint adds to the stored
\* TotalShares, not to the total_shares of the in-memory state.
process_single_batch_entry(user, amount) ==
    /\ ~Ready /\ batch_left > 0
    /\ batch_left' = batch_left - 1
    /\ \/ /\ acceptable(amount)
          /\ mint(user, amount)
          /\ Fits(batch_supply(shares_to_mint(amount)))
          /\ total_shares_key' = batch_supply(shares_to_mint(amount))
       \/ /\ \/ amount < conf.min_deposit
             \/ /\ assets_to_shares_fits(amount, total_shares, total_assets)
                /\ shares_to_mint(amount) = 0
          /\ UNCHANGED <<state, is_paused, treasury_balance, users, watermark,
                         conf, tokens, nav, now, history>>

batch_deposit_returns ==
    /\ ~Ready
    /\ batch_left' = None
    /\ UNCHANGED <<state, is_paused, treasury_balance, users, watermark, conf,
                   tokens, nav, now, history>>

-----------------------------------------------------------------------------
(* Withdrawals *)

assets_to_return(shares) ==
    shares_to_assets(shares, total_shares, total_assets)

\* The watermark of a strategy after amount was recalled from it.
lowered(mark, amount) == IF mark > amount THEN mark - amount ELSE 0

\* Recall amount from the active strategy (a public entry point, and what a
\* withdrawal does for the part the idle balance does not cover).
recall(amount) ==
    /\ conf.strategy # None
    /\ tokens[conf.strategy] >= amount
    /\ Fits(idle + amount)
    /\ watermark' = [watermark EXCEPT ![conf.strategy] = lowered(@, amount)]
    /\ invested' = invested - amount

\* Burn shares and pay assets; State loses both, the idle balance the assets.
do_withdraw(user, shares, assets) ==
    LET needed == assets - idle
        short == needed > 0
        refilled == IF short
                    THEN transfer(tokens, conf.strategy, VaultAddr, needed)
                    ELSE tokens
    IN /\ shares_to_assets_fits(shares, total_shares, total_assets)
       /\ assets >= 0
       /\ IF short THEN recall(needed) ELSE UNCHANGED <<watermark, invested>>
       /\ refilled[VaultAddr] >= assets
       /\ tokens' = transfer(refilled, VaultAddr, user, assets)
       /\ idle' = (IF short THEN idle + needed ELSE idle) - assets
       /\ Fits(total_shares - shares) /\ Fits(total_assets - assets)
       /\ total_shares_key' = total_shares - shares
       /\ total_shares' = total_shares - shares
       /\ total_assets' = total_assets - assets
       /\ share_balance' = [share_balance EXCEPT ![user] = @ - shares]
       /\ UNCHANGED <<is_paused, treasury_balance, last_deposit, conf,
                      batch_left, nav, now, booked>>

cooled_down(user) ==
    conf.withdrawal_cooldown > 0
        => now >= last_deposit[user] + conf.withdrawal_cooldown

\* Above the threshold the request is only recorded.  The contract lets a user
\* with a pending request withdraw again; LeavesPendingAlone is the assumption
\* that no user does.
withdraw(user, shares) ==
    LET assets == assets_to_return(shares) IN
    /\ Ready /\ ~is_paused
    /\ cooled_down(user)
    /\ share_balance[user] >= shares
    /\ LeavesPendingAlone => pending[user] = NoPending
    /\ shares_to_assets_fits(shares, total_shares, total_assets)
    /\ \/ /\ assets > conf.large_withdrawal_threshold
          /\ pending' = [pending EXCEPT ![user] =
                [shares |-> shares, unlock_timestamp |-> now + Timelock]]
          /\ UNCHANGED <<state, is_paused, treasury_balance, share_balance,
                         last_deposit, watermark, conf, batch_left, tokens,
                         nav, now, history>>
       \/ /\ assets <= conf.large_withdrawal_threshold
          /\ do_withdraw(user, shares, assets)
          /\ UNCHANGED pending

execute_withdrawal(user) ==
    /\ Ready
    /\ pending[user] # NoPending
    /\ now >= pending[user].unlock_timestamp
    /\ pending' = [pending EXCEPT ![user] = NoPending]
    /\ do_withdraw(user, pending[user].shares,
                   assets_to_return(pending[user].shares))
-----------------------------------------------------------------------------
(* Strategies.  The connector is benji_strategy.rs: deposit and withdraw     *)
(* move exactly the amount of the underlying token, total_value() is its     *)
(* balance of fund tokens, which neither of them changes.                    *)

total_assets_view == idle + nav[conf.strategy]

\* What is left idle after an investment.
liquid(amount) ==
    /\ idle >= amount
    /\ idle - amount >= conf.min_liquidity_buffer

invest(amount) ==
    LET s == conf.strategy
        new_total_invested == nav[s] + amount
    IN /\ Ready /\ s # None
       /\ Fits(new_total_invested) /\ Fits(total_assets_view)
       /\ new_total_invested <= conf.cap[s]
       /\ total_assets_view > 0 =>
             /\ Fits(new_total_invested * BPS_DENOMINATOR)
             /\ Quotient(new_total_invested * BPS_DENOMINATOR,
                         total_assets_view) <= conf.risk[s]
       /\ liquid(amount)
       /\ tokens[VaultAddr] >= amount
       /\ tokens' = transfer(tokens, VaultAddr, s, amount)
       /\ idle' = idle - amount
       /\ watermark' = [watermark EXCEPT ![s] =
             IF new_total_invested > @ THEN new_total_invested ELSE @]
       /\ invested' = invested + amount
       /\ UNCHANGED <<total_shares, total_assets, total_shares_key, is_paused,
                      treasury_balance, users, conf, batch_left, nav, now,
                      booked>>

\* Mutant: recalled funds are counted as new assets.
divest_counted_twice(amount) ==
    /\ Ready
    /\ recall(amount)
    /\ tokens' = transfer(tokens, conf.strategy, VaultAddr, amount)
    /\ idle' = idle + amount
    /\ total_assets' = total_assets + amount
    /\ UNCHANGED <<total_shares, total_shares_key, is_paused,
                   treasury_balance, users, conf, batch_left, nav, now, booked>>

divest(amount) ==
    /\ Ready
    /\ recall(amount)
    /\ tokens' = transfer(tokens, conf.strategy, VaultAddr, amount)
    /\ idle' = idle + amount
    /\ UNCHANGED <<total_shares, total_assets, total_shares_key, is_paused,
                   treasury_balance, users, conf, batch_left, nav, now, booked>>

\* Tokens go from one connector to the other through the vault; the idle
\* balance is left alone.  The caller's slippage bounds either hold or revert
\* the call; with this connector they hold when they ask for at most amount
\* back and for no rise of total_value().
rebalance(from, to, amount) ==
    /\ Ready
    /\ tokens[from] >= amount
    /\ tokens' = transfer(transfer(tokens, from, VaultAddr, amount),
                          VaultAddr, to, amount)
    /\ watermark' =
         LET low == [watermark EXCEPT ![from] = lowered(@, amount)]
         IN  [low EXCEPT ![to] = IF nav[to] > @ THEN nav[to] ELSE @]
    /\ UNCHANGED <<state, is_paused, treasury_balance, users, conf, batch_left,
                   nav, now, history>>

-----------------------------------------------------------------------------
(* Yield and fees *)

\* The gross amount arrives as tokens; the fee is the treasury's, the rest
\* raises the idle balance and the total the shares are priced with.
credit_yield(payer, amount) ==
    LET fee == protocol_fee(amount, conf.fee_bps)
        net_yield == amount - fee
    IN /\ Fits(amount * conf.fee_bps)
       /\ tokens[payer] >= amount
       /\ Fits(treasury_balance + fee) /\ Fits(idle + net_yield)
       /\ Fits(total_assets + net_yield)
       /\ tokens' = transfer(tokens, payer, VaultAddr, amount)
       /\ treasury_balance' = treasury_balance + fee
       /\ idle' = idle + net_yield
       /\ total_assets' = total_assets + net_yield
       /\ UNCHANGED <<total_shares, total_shares_key, is_paused, users, conf,
                      batch_left, nav, now, history>>

\* accrue_yield also computes the share price before and after.
accrue_yield(amount) ==
    /\ Ready
    /\ credit_yield(AdminAddr, amount)
    /\ total_shares > 0 => /\ Fits(total_assets * SHARE_PRICE_SCALE)
                           /\ Fits(total_assets' * SHARE_PRICE_SCALE)
                           /\ Quotient(total_assets' * SHARE_PRICE_SCALE,
                                       total_shares)
                              >= Quotient(total_assets * SHARE_PRICE_SCALE,
                                          total_shares)
    /\ UNCHANGED watermark

report_benji_yield(strategy, amount) ==
    /\ Ready
    /\ strategy = conf.benji
    /\ credit_yield(strategy, amount)
    /\ Fits(watermark[strategy] + amount)
    /\ watermark' = [watermark EXCEPT ![strategy] = @ + amount]

\* The harvest is a number the Korean strategy returns; no token moves.
accrue_korean_debt_yield(harvested) ==
    /\ Ready
    /\ harvested > 0
    /\ Fits(total_assets + harvested)
    /\ booked + harvested <= MaxI128    \* bound on the history counter
    /\ total_assets' = total_assets + harvested
    /\ booked' = booked + harvested
    /\ UNCHANGED <<total_shares, total_shares_key, idle, is_paused,
                   treasury_balance, users, watermark, conf, batch_left,
                   tokens, nav, now, invested>>

\* Mutant: the claimed fees stay on the books.
claim_fees_again ==
    /\ Ready /\ conf.treasury # None
    /\ treasury_balance # 0
    /\ tokens[VaultAddr] >= treasury_balance
    /\ tokens' = transfer(tokens, VaultAddr, conf.treasury, treasury_balance)
    /\ UNCHANGED <<state, is_paused, treasury_balance, users, watermark, conf,
                   batch_left, nav, now, history>>

claim_fees ==
    /\ Ready
    /\ conf.treasury # None
    /\ treasury_balance # 0
    /\ tokens[VaultAddr] >= treasury_balance
    /\ tokens' = transfer(tokens, VaultAddr, conf.treasury, treasury_balance)
    /\ treasury_balance' = 0
    /\ UNCHANGED <<state, is_paused, users, watermark, conf, batch_left, nav,
                   now, history>>

-----------------------------------------------------------------------------
(* Settings (all but the benji connector need the admin's signature) *)

configure(new) ==
    /\ Ready
    /\ conf' = new
    /\ UNCHANGED <<state, is_paused, treasury_balance, users, watermark,
                   batch_left, tokens, nav, now, history>>

set_fee_bps(bps) ==
    /\ 0 <= bps /\ bps <= BPS_DENOMINATOR
    /\ configure([conf EXCEPT !.fee_bps = bps])
set_treasury(treasury) == configure([conf EXCEPT !.treasury = treasury])
set_large_withdrawal_threshold(threshold) ==
    /\ threshold > 0
    /\ configure([conf EXCEPT !.large_withdrawal_threshold = threshold])
set_min_deposit(new_min) ==
    /\ new_min >= 0
    /\ configure([conf EXCEPT !.min_deposit = new_min])
set_min_liquidity_buffer(new_buffer) ==
    /\ new_buffer >= 0
    /\ configure([conf EXCEPT !.min_liquidity_buffer = new_buffer])
set_withdrawal_cooldown(seconds) ==
    configure([conf EXCEPT !.withdrawal_cooldown = seconds])
set_relayer(approved) == configure([conf EXCEPT !.relayer = approved])
set_max_batch_size(size) ==
    /\ size # 0
    /\ configure([conf EXCEPT !.max_batch_size = size])
whitelist_strategy(s, approved) ==
    configure([conf EXCEPT !.whitelist = IF approved THEN @ \cup {s}
                                                     ELSE @ \ {s}])
set_strategy(s) ==
    /\ s \in conf.whitelist
    /\ configure([conf EXCEPT !.strategy = s])
set_strategy_cap(s, cap) == configure([conf EXCEPT !.cap[s] = cap])
set_strategy_risk_threshold(s, threshold) ==
    /\ 0 <= threshold /\ threshold <= BPS_DENOMINATOR
    /\ configure([conf EXCEPT !.risk[s] = threshold])
\* The effect of execute_strategy_proposal on this component.
execute_strategy_proposal(s) == configure([conf EXCEPT !.benji = s])

\* pause and unpause.
set_paused(value) ==
    /\ Ready
    /\ is_paused' = value
    /\ UNCHANGED <<state, treasury_balance, users, watermark, conf, batch_left,
                   tokens, nav, now, history>>

-----------------------------------------------------------------------------
(* The environment *)

\* Anyone may send tokens to the vault or to a strategy outside the contract.
token_gift(from, to, amount) ==
    /\ Ready
    /\ tokens[from] >= amount
    /\ tokens' = transfer(tokens, from, to, amount)
    /\ UNCHANGED <<state, is_paused, treasury_balance, users, watermark, conf,
                   batch_left, nav, now, history>>

\* A strategy's fund-token balance moves with the fund.
fund_moves(s, value) ==
    /\ Ready
    /\ nav' = [nav EXCEPT ![s] = value]
    /\ UNCHANGED <<state, is_paused, treasury_balance, users, watermark, conf,
                   batch_left, tokens, now, history>>

tick ==
    /\ Ready
    /\ now < MaxTime
    /\ now' = now + 1
    /\ UNCHANGED <<state, is_paused, treasury_balance, users, watermark, conf,
                   batch_left, tokens, nav, history>>

-----------------------------------------------------------------------------
UserNext == \E u \in Users :
    \/ \E n \in DepositAmounts : deposit(u, n) \/ process_single_batch_entry(u, n)
    \/ \E n \in ShareAmounts : withdraw(u, n)
    \/ execute_withdrawal(u)

BatchNext == batch_deposit \/ batch_deposit_returns

StrategyNext ==
    \/ \E n \in MoveAmounts : invest(n) \/ divest(n)
    \/ \E s, t \in Strategies, n \in MoveAmounts : rebalance(s, t, n)

YieldNext ==
    \/ \E n \in YieldAmounts : \/ accrue_yield(n)
                                \/ \E s \in Strategies : report_benji_yield(s, n)
    \/ \E n \in KoreanYields : accrue_korean_debt_yield(n)
    \/ claim_fees

ConfigNext ==
    \/ \E n \in FeeChoices : set_fee_bps(n)
    \/ \E a \in TreasuryChoices : set_treasury(a)
    \/ \E n \in ThresholdChoices : set_large_withdrawal_threshold(n)
    \/ \E n \in MinDepositChoices : set_min_deposit(n)
    \/ \E n \in BufferChoices : set_min_liquidity_buffer(n)
    \/ \E n \in CooldownChoices : set_withdrawal_cooldown(n)
    \/ \E n \in BatchSizeChoices : set_max_batch_size(n)
    \/ \E b \in RelayerChoices : set_relayer(b)
    \/ \E s \in Strategies :
          \/ \E b \in BOOLEAN : whitelist_strategy(s, b)
          \/ set_strategy(s)
          \/ execute_strategy_proposal(s)
          \/ \E n \in CapChoices : set_strategy_cap(s, n)
          \/ \E n \in RiskChoices : set_strategy_risk_threshold(s, n)
    \/ \E b \in PauseChoices : set_paused(b)

EnvironmentNext ==
    \/ \E from \in Users \cup {AdminAddr}, to \in Strategies \cup {VaultAddr},
          n \in GiftAmounts : token_gift(from, to, n)
    \/ \E s \in Strategies, n \in NavChoices : fund_moves(s, n)
    \/ tick

Next == UserNext \/ BatchNext \/ StrategyNext \/ YieldNext \/ ConfigNext
        \/ EnvironmentNext

Spec == initialize /\ [][Next]_vars
-----------------------------------------------------------------------------
(* Properties *)

\* The two copies of the share supply agree: deposit and withdraw write
\* TotalShares from State, while a batch adds to the stored copy entry by entry
\* and persists its in-memory State once at the end (lib.rs:1360).
SupplyCopiesAgree == total_shares_key = total_shares

\* The tokens the contract holds cover its idle assets and the unclaimed fees,
\* whatever sequence of deposits, recalls, yields, rebalances, claims and
\* direct transfers led there: no payout path can spend what another owns.
Custody == tokens[VaultAddr] >= idle + treasury_balance

\* The total the shares are priced with is the idle balance, plus what was
\* sent to strategies and not recalled, plus Korean yield booked without
\* tokens: State and TotalAssets are updated separately by nine entry points.
AssetsAccounted == total_assets = idle + invested + booked

\* The books agree with each other: both copies of the supply, and the total
\* with its parts.
BooksAgree == SupplyCopiesAgree /\ AssetsAccounted

\* No step of anybody lowers the price of a share (total_assets per
\* total_shares), so rounding always favours the holders who stay:
\* accrue_yield asserts this of itself only (lib.rs:1915).
PriceHolds ==
    total_shares > 0 /\ total_assets >= 0 /\ total_shares' > 0
        => total_assets' * total_shares >= total_assets * total_shares'
PriceNeverFalls == [][PriceHolds]_vars
=============================================================================
