----------------------------- MODULE VaultProofs -----------------------------
(* Theorems about Vault, for every set of users, strategies and settings and *)
(* every width of the integers.                                              *)
EXTENDS MCVault, Sums, TLAPS

-----------------------------------------------------------------------------
(* The arithmetic *)

\* Division of naturals, as math.rs and fee_math.rs use it, rounds down.
LEMMA QuotientRoundsDown ==
    ASSUME NEW a \in Nat, NEW b \in Nat \ {0}
    PROVE  Quotient(a, b) \in Nat /\ b * Quotient(a, b) <= a
<1>1. Quotient(a, b) = a \div b
  BY DEF Quotient, Abs
<1>2. a \div b \in Nat /\ b * (a \div b) <= a
  OBVIOUS
<1> QED BY <1>1, <1>2

\* Truncated division of integers is an integer.
LEMMA QuotientInt ==
    ASSUME NEW a \in Int, NEW b \in Int, b # 0
    PROVE  Quotient(a, b) \in Int
<1>1. Abs(a) \in Nat /\ Abs(b) \in Nat \ {0}
  BY DEF Abs
<1>2. Abs(a) \div Abs(b) \in Int
  BY <1>1
<1> QED BY <1>2 DEF Quotient

\* A fee rate of at most the whole takes no more than the amount
\* (fee_math.rs:11, "fee_amount + net_amount == amount").
LEMMA FeeWithinAmount ==
    ASSUME NEW amount \in Nat, NEW bps \in 0..BPS_DENOMINATOR
    PROVE  /\ protocol_fee(amount, bps) \in Nat
           /\ protocol_fee(amount, bps) <= amount
<1> DEFINE f == Quotient(amount * bps, BPS_DENOMINATOR)
<1>0. BPS_DENOMINATOR \in Nat \ {0}
  BY BpsAssumption
<1>1. amount * bps \in Nat /\ amount * bps <= amount * BPS_DENOMINATOR
  BY <1>0
<1>2. f \in Nat /\ BPS_DENOMINATOR * f <= amount * bps
  BY <1>0, <1>1, QuotientRoundsDown
<1>3. f <= amount
  <2>1. BPS_DENOMINATOR * f <= amount * BPS_DENOMINATOR
    BY <1>0, <1>1, <1>2
  <2> HIDE DEF f
  <2>2. SUFFICES ASSUME f > amount PROVE FALSE
    BY <1>2
  <2>3. BPS_DENOMINATOR * f >= BPS_DENOMINATOR * (amount + 1)
    BY <2>2, <1>2, <1>0
  <2>4. BPS_DENOMINATOR * (amount + 1) = amount * BPS_DENOMINATOR + BPS_DENOMINATOR
    BY <1>0
  <2>5. BPS_DENOMINATOR * f \in Int /\ amount * BPS_DENOMINATOR \in Int
    BY <1>0, <1>2
  <2> QED BY <2>1, <2>3, <2>4, <2>5, <1>0
<1> QED BY <1>2, <1>3 DEF protocol_fee
\* math.rs:20, "No user can mint more shares than their assets entitle them
\* to": minting at the rounded-down rate never lowers assets per share.
LEMMA MintKeepsPrice ==
    ASSUME NEW a \in Nat, NEW S \in Nat \ {0}, NEW A \in Nat,
           NEW m, m = assets_to_shares(a, S, A)
    PROVE  m \in Nat /\ (A + a) * S >= A * (S + m)
<1>1. CASE A = 0
  BY <1>1 DEF assets_to_shares
<1>2. CASE A # 0
  <2>1. a * S \in Nat
    OBVIOUS
  <2>2. m = Quotient(a * S, A)
    BY <1>2 DEF assets_to_shares
  <2>3. m \in Nat /\ A * m <= a * S
    BY <1>2, <2>1, <2>2, QuotientRoundsDown
  <2>4. (A + a) * S = A * S + a * S /\ A * (S + m) = A * S + A * m
    BY <2>3
  <2>5. A * S \in Int /\ A * m \in Int
    BY <2>3
  <2> QED BY <2>1, <2>3, <2>4, <2>5
<1> QED BY <1>1, <1>2

\* math.rs:21, "No user can redeem more assets than their shares entitle them
\* to": burning at the rounded-down rate never lowers assets per share.
LEMMA BurnKeepsPrice ==
    ASSUME NEW sh \in Nat, NEW S \in Nat \ {0}, NEW A \in Nat,
           NEW r, r = shares_to_assets(sh, S, A)
    PROVE  r \in Nat /\ (A - r) * S >= A * (S - sh)
<1>1. sh * A \in Nat
  OBVIOUS
<1>2. r = Quotient(sh * A, S)
  BY DEF shares_to_assets
<1>3. r \in Nat /\ S * r <= sh * A
  BY <1>1, <1>2, QuotientRoundsDown
<1>4. (A - r) * S = A * S - S * r /\ A * (S - sh) = A * S - sh * A
  BY <1>3
<1>5. A * S \in Int /\ S * r \in Int
  BY <1>3
<1> QED BY <1>1, <1>3, <1>4, <1>5

\* The conversions return integers whatever the totals are.
LEMMA ConversionInt ==
    ASSUME NEW n \in Int, NEW S \in Int, NEW A \in Int
    PROVE  assets_to_shares(n, S, A) \in Int /\ shares_to_assets(n, S, A) \in Int
<1>1. n * S \in Int /\ n * A \in Int
  OBVIOUS
<1>2. A # 0 => Quotient(n * S, A) \in Int
  BY <1>1, QuotientInt
<1>3. S # 0 => Quotient(n * A, S) \in Int
  BY <1>1, QuotientInt
<1> QED BY <1>2, <1>3 DEF assets_to_shares, shares_to_assets

-----------------------------------------------------------------------------
(* The token *)

\* A covered transfer between two accounts moves n and touches nobody else.
LEMMA TransferMoves ==
    ASSUME NEW bal \in [Accounts -> Nat], NEW from \in Accounts,
           NEW to \in Accounts, from # to, NEW n \in Nat, bal[from] >= n
    PROVE  /\ transfer(bal, from, to, n) \in [Accounts -> Nat]
           /\ transfer(bal, from, to, n)[from] = bal[from] - n
           /\ transfer(bal, from, to, n)[to] = bal[to] + n
           /\ \A c \in Accounts \ {from, to} :
                transfer(bal, from, to, n)[c] = bal[c]
  BY DEF transfer

\* The addresses are different accounts, and None is none of them.
LEMMA Addresses ==
    /\ Users \subseteq Accounts /\ Strategies \subseteq Accounts
    /\ VaultAddr \in Accounts /\ AdminAddr \in Accounts /\ TreasuryAddr \in Accounts
    /\ VaultAddr \notin Users /\ VaultAddr \notin Strategies
    /\ VaultAddr # AdminAddr /\ VaultAddr # TreasuryAddr
    /\ None \notin Strategies /\ None # TreasuryAddr
    /\ Users \cap Strategies = {}
  BY AddressAssumption DEF Accounts
-----------------------------------------------------------------------------
(* The inductive invariant: the properties of Vault are inductive together   *)
(* with the types (the token balances are natural numbers, the fee rate is   *)
(* at most the whole).                                                       *)

IInv == TypeOK /\ SupplyCopiesAgree /\ Custody /\ AssetsAccounted

\* The settings an operation reads.
LEMMA ConfigFields ==
    ASSUME TypeOK
    PROVE  /\ conf.fee_bps \in 0..BPS_DENOMINATOR
           /\ conf.treasury \in {None, TreasuryAddr}
           /\ conf.strategy \in Strategies \cup {None}
           /\ conf.benji \in Strategies \cup {None}
           /\ conf.max_batch_size \in Nat
  BY DEF TypeOK, Config

\* The contract is deployed empty: every part of IInv holds.
LEMMA InitIInv == initialize => IInv
<1> SUFFICES ASSUME initialize PROVE IInv
  OBVIOUS
<1> USE WidthAssumption, BpsAssumption, NumberAssumption, Addresses
<1>1. conf \in Config
  BY DEF initialize, Config
<1>2. TypeOK
  <2>1. pending \in [Users -> Pending]
    BY DEF initialize, Pending, NoPending
  <2>2. is_paused \in BOOLEAN
    BY DEF initialize
  <2>3. tokens \in [Accounts -> Nat] /\ watermark \in [Strategies -> Int]
    BY DEF initialize
  <2> QED BY <1>1, <2>1, <2>2, <2>3 DEF initialize, TypeOK
<1>3. SupplyCopiesAgree /\ AssetsAccounted
  BY DEF initialize, SupplyCopiesAgree, AssetsAccounted
<1>4. Custody
  BY DEF initialize, Custody
<1> QED BY <1>2, <1>3, <1>4 DEF IInv

\* Minting, by deposit or by a batch entry.
LEMMA MintStep ==
    ASSUME IInv, NEW user \in Users, NEW amount \in Nat, mint(user, amount)
    PROVE  /\ shares_to_mint(amount) \in Int
           /\ total_shares' = total_shares + shares_to_mint(amount)
           /\ total_shares' \in Int /\ total_assets' \in Int /\ idle' \in Nat
           /\ share_balance' \in [Users -> Int]
           /\ last_deposit' \in [Users -> Nat]
           /\ tokens' \in [Accounts -> Nat]
           /\ Custody' /\ AssetsAccounted'
<1>1. shares_to_mint(amount) \in Int
  BY ConversionInt DEF shares_to_mint, IInv, TypeOK
<1>2. /\ tokens' \in [Accounts -> Nat]
      /\ tokens'[VaultAddr] = tokens[VaultAddr] + amount
  <2>1. tokens \in [Accounts -> Nat]
    BY DEF IInv, TypeOK
  <2>2. tokens[user] >= amount /\ tokens' = transfer(tokens, user, VaultAddr, amount)
    BY DEF mint
  <2>3. user \in Accounts /\ VaultAddr \in Accounts /\ user # VaultAddr
    BY Addresses
  <2> QED BY <2>1, <2>2, <2>3, TransferMoves
<1>3. Custody'
  BY <1>2, Addresses DEF mint, IInv, TypeOK, Custody
<1>4. AssetsAccounted'
  BY DEF mint, IInv, TypeOK, AssetsAccounted, history
<1>5. /\ share_balance' \in [Users -> Int]
      /\ last_deposit' \in [Users -> Nat]
  BY <1>1 DEF mint, credited, IInv, TypeOK
<1> QED BY <1>1, <1>2, <1>3, <1>4, <1>5 DEF mint, IInv, TypeOK

\* deposit: a mint, with the supply copy written from State.
LEMMA DepositStep ==
    ASSUME IInv, NEW user \in Users, NEW amount \in Nat, deposit(user, amount)
    PROVE  IInv'
<1>1. mint(user, amount)
  BY DEF deposit
<1>2. total_shares_key' = total_shares' /\ total_shares_key' \in Int
  BY <1>1, MintStep DEF deposit
<1>3. TypeOK'
  BY <1>1, <1>2, MintStep DEF deposit, mint, IInv, TypeOK, history
<1> QED BY <1>1, <1>2, <1>3, MintStep DEF IInv, SupplyCopiesAgree

\* A batch entry: a mint that adds to the stored copy, or a recorded failure.
LEMMA BatchEntryStep ==
    ASSUME IInv, NEW user \in Users, NEW amount \in Nat,
           process_single_batch_entry(user, amount)
    PROVE  IInv'
<1>0. batch_left' \in Nat \cup {None}
  BY DEF process_single_batch_entry, Ready, IInv, TypeOK
<1>1. CASE mint(user, amount)
           /\ total_shares_key' = batch_supply(shares_to_mint(amount))
  <2>1. total_shares_key' = total_shares' /\ total_shares_key' \in Int
    BY <1>1, MintStep DEF batch_supply, IInv, TypeOK, SupplyCopiesAgree
  <2>2. TypeOK'
    BY <1>0, <1>1, <2>1, MintStep DEF mint, IInv, TypeOK, history
  <2> QED BY <1>1, <2>1, <2>2, MintStep DEF IInv, SupplyCopiesAgree
<1>2. CASE UNCHANGED <<state, is_paused, treasury_balance, users, watermark,
                       conf, tokens, nav, now, history>>
  BY <1>0, <1>2 DEF IInv, TypeOK, SupplyCopiesAgree, Custody, AssetsAccounted,
                    state, users, history
<1> QED BY <1>1, <1>2 DEF process_single_batch_entry
\* Burning, by withdraw or by execute_withdrawal, with or without a recall.
LEMMA BurnStep ==
    ASSUME IInv, NEW user \in Users, NEW shares \in Int, NEW assets \in Int,
           do_withdraw(user, shares, assets), pending' \in [Users -> Pending]
    PROVE  IInv'
<1> DEFINE needed == assets - idle
           short == needed > 0
           refilled == IF short
                       THEN transfer(tokens, conf.strategy, VaultAddr, needed)
                       ELSE tokens
<1>0. /\ tokens \in [Accounts -> Nat] /\ idle \in Nat /\ treasury_balance \in Nat
      /\ watermark \in [Strategies -> Int] /\ invested \in Int
      /\ total_shares \in Int /\ total_assets \in Int /\ booked \in Int
      /\ assets \in Nat /\ share_balance \in [Users -> Int]
  BY DEF IInv, TypeOK, do_withdraw
<1>1. short => /\ recall(needed)
               /\ conf.strategy \in Strategies
               /\ conf.strategy \in Accounts /\ conf.strategy # VaultAddr
               /\ tokens[conf.strategy] >= needed
               /\ needed \in Nat
  BY <1>0, ConfigFields, Addresses DEF do_withdraw, recall, IInv
<1>2. /\ refilled \in [Accounts -> Nat]
      /\ short => refilled[VaultAddr] = tokens[VaultAddr] + needed
  <2>1. CASE short
    BY <1>0, <1>1, <2>1, Addresses, TransferMoves
  <2>2. CASE ~short
    BY <1>0, <2>2
  <2> QED BY <2>1, <2>2
<1>3. /\ refilled[VaultAddr] >= assets
      /\ tokens' = transfer(refilled, VaultAddr, user, assets)
      /\ idle' = (IF short THEN idle + needed ELSE idle) - assets
  BY DEF do_withdraw
<1>4. user \in Accounts /\ user # VaultAddr /\ VaultAddr \in Accounts
  BY Addresses
<1> HIDE DEF refilled
<1>5. /\ tokens' \in [Accounts -> Nat]
      /\ tokens'[VaultAddr] = refilled[VaultAddr] - assets
  BY <1>0, <1>2, <1>3, <1>4, TransferMoves
<1> USE DEF refilled
<1>6. idle' \in Nat /\ Custody'
  <2>1. treasury_balance' = treasury_balance
    BY DEF do_withdraw
  <2>2. CASE short
    BY <1>0, <1>2, <1>3, <1>5, <2>1, <2>2, <1>4 DEF IInv, Custody
  <2>3. CASE ~short
    BY <1>0, <1>2, <1>3, <1>5, <2>1, <2>3, <1>4 DEF IInv, Custody
  <2> QED BY <2>2, <2>3
<1>7. /\ watermark' \in [Strategies -> Int] /\ invested' \in Int
      /\ AssetsAccounted'
  <2>1. total_assets' = total_assets - assets /\ booked' = booked
    BY DEF do_withdraw
  <2>2. CASE short
    <3>1. /\ watermark' = [watermark EXCEPT ![conf.strategy] = lowered(@, needed)]
          /\ invested' = invested - needed
      BY <1>1, <2>2 DEF recall
    <3>2. lowered(watermark[conf.strategy], needed) \in Int
      BY <1>0, <1>1, <2>2 DEF lowered
    <3> QED BY <1>0, <1>1, <1>3, <2>1, <2>2, <3>1, <3>2
            DEF IInv, AssetsAccounted
  <2>3. CASE ~short
    <3>1. UNCHANGED <<watermark, invested>>
      BY <2>3 DEF do_withdraw
    <3> QED BY <1>0, <1>3, <2>1, <2>3, <3>1 DEF IInv, AssetsAccounted
  <2> QED BY <2>2, <2>3
<1>8. /\ total_shares' = total_shares - shares /\ total_shares_key' = total_shares'
      /\ total_assets' = total_assets - assets
      /\ share_balance' = [share_balance EXCEPT ![user] = @ - shares]
  BY DEF do_withdraw
<1>9. TypeOK'
  BY <1>0, <1>5, <1>6, <1>7, <1>8 DEF do_withdraw, IInv, TypeOK
<1> QED BY <1>6, <1>7, <1>8, <1>9 DEF IInv, SupplyCopiesAgree

\* withdraw: a burn now, or only a recorded request.
LEMMA WithdrawStep ==
    ASSUME IInv, NEW user \in Users, NEW shares \in Nat, withdraw(user, shares)
    PROVE  IInv'
<1> DEFINE assets == assets_to_return(shares)
<1>1. CASE assets > conf.large_withdrawal_threshold
           /\ pending' = [pending EXCEPT ![user] =
                [shares |-> shares, unlock_timestamp |-> now + Timelock]]
           /\ UNCHANGED <<state, is_paused, treasury_balance, share_balance,
                          last_deposit, watermark, conf, batch_left, tokens,
                          nav, now, history>>
  <2>1. [shares |-> shares, unlock_timestamp |-> now + Timelock] \in Pending
    BY NumberAssumption DEF Pending, IInv, TypeOK
  <2>2. pending' \in [Users -> Pending]
    BY <1>1, <2>1 DEF IInv, TypeOK
  <2> QED BY <1>1, <2>2 DEF IInv, TypeOK, SupplyCopiesAgree, Custody,
                            AssetsAccounted, state, history
<1>2. CASE do_withdraw(user, shares, assets) /\ UNCHANGED pending
  <2>1. assets \in Int /\ shares \in Int
    BY ConversionInt DEF assets_to_return, IInv, TypeOK
  <2>2. pending' \in [Users -> Pending]
    BY <1>2 DEF IInv, TypeOK
  <2> QED BY <1>2, <2>1, <2>2, BurnStep
<1> QED BY <1>1, <1>2 DEF withdraw

\* execute_withdrawal: the burn of a recorded request.
LEMMA ExecuteStep ==
    ASSUME IInv, NEW user \in Users, execute_withdrawal(user)
    PROVE  IInv'
<1> DEFINE shares == pending[user].shares
<1>1. shares \in Int
  BY DEF IInv, TypeOK, Pending
<1>2. assets_to_return(shares) \in Int
  BY <1>1, ConversionInt DEF assets_to_return, IInv, TypeOK
<1>3. NoPending \in Pending
  BY DEF NoPending, Pending
<1>4. pending' \in [Users -> Pending]
  BY <1>3 DEF execute_withdrawal, IInv, TypeOK
<1> QED BY <1>1, <1>2, <1>4, BurnStep DEF execute_withdrawal

\* invest: idle assets become invested ones, token for token.
LEMMA InvestStep ==
    ASSUME IInv, NEW amount \in Nat, invest(amount)
    PROVE  IInv'
<1> DEFINE s == conf.strategy
<1>1. s \in Strategies /\ s \in Accounts /\ s # VaultAddr /\ VaultAddr \in Accounts
  BY ConfigFields, Addresses DEF invest, liquid, IInv
<1>2. /\ tokens \in [Accounts -> Nat] /\ nav \in [Strategies -> Nat]
      /\ idle \in Nat /\ watermark \in [Strategies -> Int] /\ invested \in Int
  BY DEF IInv, TypeOK
<1>3. /\ tokens[VaultAddr] >= amount /\ idle >= amount
      /\ tokens' = transfer(tokens, VaultAddr, s, amount)
      /\ idle' = idle - amount /\ invested' = invested + amount
      /\ watermark' = [watermark EXCEPT ![s] =
            IF nav[s] + amount > @ THEN nav[s] + amount ELSE @]
  BY DEF invest, liquid
<1>4. /\ tokens' \in [Accounts -> Nat]
      /\ tokens'[VaultAddr] = tokens[VaultAddr] - amount
  BY <1>1, <1>2, <1>3, TransferMoves
<1>5. watermark' \in [Strategies -> Int]
  BY <1>1, <1>2, <1>3
<1>6. TypeOK'
  BY <1>2, <1>3, <1>4, <1>5 DEF invest, liquid, IInv, TypeOK, users
<1>7. UNCHANGED <<total_shares, total_assets, total_shares_key,
                  treasury_balance, booked>>
  BY DEF invest, liquid
<1>8. /\ total_assets \in Int /\ treasury_balance \in Nat /\ booked \in Int
      /\ tokens[VaultAddr] \in Nat
  BY <1>1, <1>2 DEF IInv, TypeOK
<1>9. Custody' /\ AssetsAccounted' /\ SupplyCopiesAgree'
  BY <1>2, <1>3, <1>4, <1>7, <1>8 DEF IInv, Custody, AssetsAccounted,
                                     SupplyCopiesAgree
<1> QED BY <1>6, <1>9 DEF IInv

\* divest: the reverse of invest.
LEMMA DivestStep ==
    ASSUME IInv, NEW amount \in Nat, divest(amount)
    PROVE  IInv'
<1> DEFINE s == conf.strategy
<1>1. s \in Strategies /\ s \in Accounts /\ s # VaultAddr /\ VaultAddr \in Accounts
  BY ConfigFields, Addresses DEF divest, recall, IInv
<1>2. /\ tokens \in [Accounts -> Nat] /\ idle \in Nat
      /\ watermark \in [Strategies -> Int] /\ invested \in Int
  BY DEF IInv, TypeOK
<1>3. /\ tokens[s] >= amount
      /\ tokens' = transfer(tokens, s, VaultAddr, amount)
      /\ idle' = idle + amount /\ invested' = invested - amount
      /\ watermark' = [watermark EXCEPT ![s] = lowered(@, amount)]
  BY DEF divest, recall
<1>4. /\ tokens' \in [Accounts -> Nat]
      /\ tokens'[VaultAddr] = tokens[VaultAddr] + amount
  BY <1>1, <1>2, <1>3, TransferMoves
<1>5. watermark' \in [Strategies -> Int]
  BY <1>1, <1>2, <1>3 DEF lowered
<1>6. TypeOK'
  BY <1>2, <1>3, <1>4, <1>5 DEF divest, IInv, TypeOK, users
<1>7. UNCHANGED <<total_shares, total_assets, total_shares_key,
                  treasury_balance, booked>>
  BY DEF divest
<1>8. /\ total_assets \in Int /\ treasury_balance \in Nat /\ booked \in Int
      /\ tokens[VaultAddr] \in Nat
  BY <1>1, <1>2 DEF IInv, TypeOK
<1>9. Custody' /\ AssetsAccounted' /\ SupplyCopiesAgree'
  BY <1>2, <1>3, <1>4, <1>7, <1>8 DEF IInv, Custody, AssetsAccounted,
                                     SupplyCopiesAgree
<1> QED BY <1>6, <1>9 DEF IInv

\* rebalance passes tokens through the vault and leaves its books alone.
LEMMA RebalanceStep ==
    ASSUME IInv, NEW from \in Strategies, NEW to \in Strategies,
           NEW amount \in Nat, rebalance(from, to, amount)
    PROVE  IInv'
<1> DEFINE mid == transfer(tokens, from, VaultAddr, amount)
           low == [watermark EXCEPT ![from] = lowered(@, amount)]
<1>1. /\ from \in Accounts /\ to \in Accounts /\ VaultAddr \in Accounts
      /\ from # VaultAddr /\ to # VaultAddr
  BY Addresses
<1>2. /\ tokens \in [Accounts -> Nat] /\ tokens[from] >= amount
      /\ watermark \in [Strategies -> Int] /\ nav \in [Strategies -> Nat]
  BY DEF IInv, TypeOK, rebalance
<1>3. mid \in [Accounts -> Nat] /\ mid[VaultAddr] = tokens[VaultAddr] + amount
  BY <1>1, <1>2, TransferMoves
<1>4. tokens' = transfer(mid, VaultAddr, to, amount)
  BY DEF rebalance
<1>5. mid[VaultAddr] >= amount
  BY <1>1, <1>2, <1>3
<1> HIDE DEF mid
<1>6. tokens' \in [Accounts -> Nat] /\ tokens'[VaultAddr] = mid[VaultAddr] - amount
  BY <1>1, <1>3, <1>4, <1>5, TransferMoves
<1>7. tokens'[VaultAddr] = tokens[VaultAddr]
  BY <1>1, <1>2, <1>3, <1>6
<1>8. watermark' \in [Strategies -> Int]
  <2>1. low \in [Strategies -> Int]
    BY <1>2 DEF lowered
  <2>2. watermark' = [low EXCEPT ![to] = IF nav[to] > @ THEN nav[to] ELSE @]
    BY DEF rebalance
  <2> HIDE DEF low
  <2> QED BY <1>2, <2>1, <2>2
<1>9. TypeOK'
  BY <1>6, <1>8 DEF rebalance, IInv, TypeOK, state, users, history
<1> QED BY <1>7, <1>9 DEF rebalance, IInv, Custody, AssetsAccounted,
                          SupplyCopiesAgree, state, history

\* Yield paid in tokens, by the admin or by the benji strategy.
LEMMA CreditStep ==
    ASSUME IInv, NEW payer \in Accounts, payer # VaultAddr, NEW amount \in Nat,
           credit_yield(payer, amount), watermark' \in [Strategies -> Int]
    PROVE  IInv'
<1> DEFINE fee == protocol_fee(amount, conf.fee_bps)
<1>1. fee \in Nat /\ fee <= amount
  BY ConfigFields, FeeWithinAmount DEF IInv
<1>2. /\ tokens \in [Accounts -> Nat] /\ idle \in Nat /\ treasury_balance \in Nat
      /\ total_assets \in Int
  BY DEF IInv, TypeOK
<1>3. /\ tokens[payer] >= amount
      /\ tokens' = transfer(tokens, payer, VaultAddr, amount)
      /\ treasury_balance' = treasury_balance + fee
      /\ idle' = idle + (amount - fee)
      /\ total_assets' = total_assets + (amount - fee)
  BY DEF credit_yield
<1>4. /\ tokens' \in [Accounts -> Nat]
      /\ tokens'[VaultAddr] = tokens[VaultAddr] + amount
  BY <1>2, <1>3, Addresses, TransferMoves
<1> HIDE DEF fee
<1>5. TypeOK'
  BY <1>1, <1>2, <1>3, <1>4 DEF credit_yield, IInv, TypeOK, users, history
<1>6. Custody' /\ AssetsAccounted' /\ SupplyCopiesAgree'
  BY <1>1, <1>2, <1>3, <1>4, Addresses
     DEF credit_yield, IInv, TypeOK, Custody, AssetsAccounted,
         SupplyCopiesAgree, history
<1> QED BY <1>5, <1>6 DEF IInv

\* accrue_yield: a credit paid by the admin.
LEMMA AccrueStep ==
    ASSUME IInv, NEW amount \in Nat, accrue_yield(amount)
    PROVE  IInv'
<1>1. watermark' \in [Strategies -> Int]
  BY DEF accrue_yield, IInv, TypeOK
<1> QED BY <1>1, CreditStep, Addresses DEF accrue_yield

\* report_benji_yield: a credit paid by the strategy.
LEMMA ReportStep ==
    ASSUME IInv, NEW strategy \in Strategies, NEW amount \in Nat,
           report_benji_yield(strategy, amount)
    PROVE  IInv'
<1>1. watermark' \in [Strategies -> Int]
  BY DEF report_benji_yield, IInv, TypeOK
<1> QED BY <1>1, CreditStep, Addresses DEF report_benji_yield

\* accrue_korean_debt_yield: a booking that moves no token.
LEMMA KoreanStep ==
    ASSUME IInv, NEW harvested \in Int, accrue_korean_debt_yield(harvested)
    PROVE  IInv'
<1>1. TypeOK'
  BY DEF accrue_korean_debt_yield, IInv, TypeOK, users
<1> QED BY <1>1 DEF accrue_korean_debt_yield, IInv, TypeOK, Custody,
                    AssetsAccounted, SupplyCopiesAgree

\* claim_fees: the fees and their tokens leave together.
LEMMA ClaimStep ==
    ASSUME IInv, claim_fees
    PROVE  IInv'
<1>1. /\ tokens \in [Accounts -> Nat] /\ treasury_balance \in Nat
      /\ conf.treasury = TreasuryAddr
  BY ConfigFields DEF IInv, TypeOK, claim_fees
<1>2. /\ tokens' \in [Accounts -> Nat]
      /\ tokens'[VaultAddr] = tokens[VaultAddr] - treasury_balance
  BY <1>1, Addresses, TransferMoves DEF claim_fees
<1>3. TypeOK'
  BY <1>2 DEF claim_fees, IInv, TypeOK, state, users, history
<1> QED BY <1>1, <1>2, <1>3, Addresses
        DEF claim_fees, IInv, TypeOK, Custody, AssetsAccounted,
            SupplyCopiesAgree, state, history
\* A setting that keeps the configuration well formed disturbs nothing else.
LEMMA ConfigureStep ==
    ASSUME IInv, NEW new \in Config, configure(new)
    PROVE  IInv'
<1>1. TypeOK'
  BY DEF configure, IInv, TypeOK, state, users, history
<1> QED BY <1>1 DEF configure, IInv, Custody, AssetsAccounted,
                    SupplyCopiesAgree, state, history

\* Every setting writes conf or the pause flag and nothing else.
LEMMA ConfigNextStep ==
    ASSUME IInv, ConfigNext
    PROVE  IInv'
<1> USE NumberAssumption
<1>0. conf \in Config
  BY DEF IInv, TypeOK
<1>1. ASSUME NEW n \in FeeChoices, set_fee_bps(n) PROVE IInv'
  <2>1. n \in 0..BPS_DENOMINATOR
    BY <1>1, BpsAssumption DEF set_fee_bps
  <2>2. [conf EXCEPT !.fee_bps = n] \in Config
    BY <1>0, <2>1 DEF Config
  <2> QED BY <1>1, <2>2, ConfigureStep DEF set_fee_bps
<1>2. ASSUME NEW a \in TreasuryChoices, set_treasury(a) PROVE IInv'
  <2>1. [conf EXCEPT !.treasury = a] \in Config
    BY <1>0 DEF Config
  <2> QED BY <1>2, <2>1, ConfigureStep DEF set_treasury
<1>3. ASSUME NEW n \in ThresholdChoices, set_large_withdrawal_threshold(n)
      PROVE  IInv'
  <2>1. [conf EXCEPT !.large_withdrawal_threshold = n] \in Config
    BY <1>0 DEF Config
  <2> QED BY <1>3, <2>1, ConfigureStep DEF set_large_withdrawal_threshold
<1>4. ASSUME NEW n \in MinDepositChoices, set_min_deposit(n) PROVE IInv'
  <2>1. [conf EXCEPT !.min_deposit = n] \in Config
    BY <1>0 DEF Config
  <2> QED BY <1>4, <2>1, ConfigureStep DEF set_min_deposit
<1>5. ASSUME NEW n \in BufferChoices, set_min_liquidity_buffer(n) PROVE IInv'
  <2>1. [conf EXCEPT !.min_liquidity_buffer = n] \in Config
    BY <1>0 DEF Config
  <2> QED BY <1>5, <2>1, ConfigureStep DEF set_min_liquidity_buffer
<1>6. ASSUME NEW n \in CooldownChoices, set_withdrawal_cooldown(n) PROVE IInv'
  <2>1. [conf EXCEPT !.withdrawal_cooldown = n] \in Config
    BY <1>0 DEF Config
  <2> QED BY <1>6, <2>1, ConfigureStep DEF set_withdrawal_cooldown
<1>7. ASSUME NEW n \in BatchSizeChoices, set_max_batch_size(n) PROVE IInv'
  <2>1. [conf EXCEPT !.max_batch_size = n] \in Config
    BY <1>0 DEF Config
  <2> QED BY <1>7, <2>1, ConfigureStep DEF set_max_batch_size
<1>8. ASSUME NEW b \in RelayerChoices, set_relayer(b) PROVE IInv'
  <2>1. [conf EXCEPT !.relayer = b] \in Config
    BY <1>0 DEF Config
  <2> QED BY <1>8, <2>1, ConfigureStep DEF set_relayer
<1>9. ASSUME NEW s \in Strategies, NEW b \in BOOLEAN, whitelist_strategy(s, b)
      PROVE  IInv'
  <2> DEFINE w == IF b THEN conf.whitelist \cup {s} ELSE conf.whitelist \ {s}
  <2>1. w \in SUBSET Strategies
    BY <1>0 DEF Config
  <2>2. [conf EXCEPT !.whitelist = w] \in Config
    BY <1>0, <2>1 DEF Config
  <2>3. configure([conf EXCEPT !.whitelist = w])
    BY <1>9 DEF whitelist_strategy
  <2> QED BY <2>2, <2>3, ConfigureStep
<1>10. ASSUME NEW s \in Strategies, set_strategy(s) PROVE IInv'
  <2>1. [conf EXCEPT !.strategy = s] \in Config
    BY <1>0 DEF Config
  <2> QED BY <1>10, <2>1, ConfigureStep DEF set_strategy
<1>11. ASSUME NEW s \in Strategies, execute_strategy_proposal(s) PROVE IInv'
  <2>1. [conf EXCEPT !.benji = s] \in Config
    BY <1>0 DEF Config
  <2> QED BY <1>11, <2>1, ConfigureStep DEF execute_strategy_proposal
<1>12. ASSUME NEW s \in Strategies, NEW n \in CapChoices, set_strategy_cap(s, n)
       PROVE  IInv'
  <2>1. [conf EXCEPT !.cap[s] = n] \in Config
    BY <1>0 DEF Config
  <2> QED BY <1>12, <2>1, ConfigureStep DEF set_strategy_cap
<1>13. ASSUME NEW s \in Strategies, NEW n \in RiskChoices,
              set_strategy_risk_threshold(s, n)
       PROVE  IInv'
  <2>1. [conf EXCEPT !.risk[s] = n] \in Config
    BY <1>0 DEF Config
  <2> QED BY <1>13, <2>1, ConfigureStep DEF set_strategy_risk_threshold
<1>14. ASSUME NEW b \in PauseChoices, set_paused(b) PROVE IInv'
  <2>1. is_paused' \in BOOLEAN
    BY <1>14 DEF set_paused
  <2>2. TypeOK'
    BY <1>14, <2>1 DEF set_paused, IInv, TypeOK, state, users, history
  <2> QED BY <1>14, <2>2 DEF set_paused, IInv, Custody, AssetsAccounted,
                             SupplyCopiesAgree, state, history
<1> QED BY <1>1, <1>2, <1>3, <1>4, <1>5, <1>6, <1>7, <1>8, <1>9, <1>10, <1>11,
           <1>12, <1>13, <1>14 DEF ConfigNext

\* Token transfers outside the contract, fund movements and time.
LEMMA EnvironmentStep ==
    ASSUME IInv, EnvironmentNext
    PROVE  IInv'
<1> USE NumberAssumption
<1>1. ASSUME NEW from \in Users \cup {AdminAddr},
             NEW to \in Strategies \cup {VaultAddr},
             NEW n \in GiftAmounts, token_gift(from, to, n)
      PROVE  IInv'
  <2>1. from \in Accounts /\ to \in Accounts /\ from # to /\ from # VaultAddr
    BY AddressAssumption DEF Accounts
  <2>2. tokens \in [Accounts -> Nat] /\ n \in Nat
    BY DEF IInv, TypeOK
  <2>3. tokens[from] >= n /\ tokens' = transfer(tokens, from, to, n)
    BY <1>1 DEF token_gift
  <2>4. tokens' \in [Accounts -> Nat]
    BY <2>1, <2>2, <2>3, TransferMoves
  <2>5. tokens'[VaultAddr] >= tokens[VaultAddr]
    <3>1. CASE to = VaultAddr
      BY <2>1, <2>2, <2>3, <3>1, TransferMoves
    <3>2. CASE to # VaultAddr
      <4>1. VaultAddr \in Accounts \ {from, to}
        BY <2>1, <3>2, Addresses
      <4>2. tokens'[VaultAddr] = tokens[VaultAddr]
        BY <2>1, <2>2, <2>3, <4>1, TransferMoves
      <4> QED BY <2>2, <4>1, <4>2
    <3> QED BY <3>1, <3>2
  <2>6. TypeOK'
    BY <1>1, <2>4 DEF token_gift, IInv, TypeOK, state, users, history
  <2>7. Custody'
    BY <1>1, <2>2, <2>4, <2>5, Addresses
       DEF token_gift, IInv, TypeOK, Custody, state
  <2> QED BY <1>1, <2>6, <2>7 DEF token_gift, IInv, AssetsAccounted,
                                  SupplyCopiesAgree, state, history
<1>2. ASSUME NEW s \in Strategies, NEW n \in NavChoices, fund_moves(s, n)
      PROVE  IInv'
  <2>1. TypeOK'
    BY <1>2 DEF fund_moves, IInv, TypeOK, state, users, history
  <2> QED BY <1>2, <2>1 DEF fund_moves, IInv, Custody, AssetsAccounted,
                            SupplyCopiesAgree, state, history
<1>3. ASSUME tick PROVE IInv'
  <2>1. TypeOK'
    BY <1>3 DEF tick, IInv, TypeOK, state, users, history
  <2> QED BY <1>3, <2>1 DEF tick, IInv, Custody, AssetsAccounted,
                            SupplyCopiesAgree, state, history
<1> QED BY <1>1, <1>2, <1>3 DEF EnvironmentNext

\* IInv is inductive.
LEMMA NextStep ==
    ASSUME IInv, [Next]_vars
    PROVE  IInv'
<1> USE NumberAssumption
<1>1. CASE UserNext
  <2>1. ASSUME NEW u \in Users, NEW n \in DepositAmounts, deposit(u, n)
        PROVE  IInv'
    BY <2>1, DepositStep
  <2>2. ASSUME NEW u \in Users, NEW n \in DepositAmounts,
               process_single_batch_entry(u, n)
        PROVE  IInv'
    BY <2>2, BatchEntryStep
  <2>3. ASSUME NEW u \in Users, NEW n \in ShareAmounts, withdraw(u, n)
        PROVE  IInv'
    BY <2>3, WithdrawStep
  <2>4. ASSUME NEW u \in Users, execute_withdrawal(u) PROVE IInv'
    BY <2>4, ExecuteStep
  <2> QED BY <1>1, <2>1, <2>2, <2>3, <2>4 DEF UserNext
<1>2. CASE BatchNext
  <2>0. conf.max_batch_size \in Nat
    BY DEF IInv, TypeOK, Config
  <2>1. batch_left' \in Nat \cup {None}
    BY <1>2, <2>0 DEF BatchNext, batch_deposit, batch_deposit_returns
  <2>2. UNCHANGED <<state, is_paused, treasury_balance, users, watermark, conf,
                    tokens, nav, now, history>>
    BY <1>2 DEF BatchNext, batch_deposit, batch_deposit_returns
  <2> QED BY <2>1, <2>2 DEF IInv, TypeOK, Custody, AssetsAccounted,
                            SupplyCopiesAgree, state, users, history
<1>3. CASE StrategyNext
  <2>1. ASSUME NEW n \in MoveAmounts, invest(n) PROVE IInv'
    BY <2>1, InvestStep
  <2>2. ASSUME NEW n \in MoveAmounts, divest(n) PROVE IInv'
    BY <2>2, DivestStep
  <2>3. ASSUME NEW s \in Strategies, NEW t \in Strategies,
               NEW n \in MoveAmounts, rebalance(s, t, n)
        PROVE  IInv'
    BY <2>3, RebalanceStep
  <2> QED BY <1>3, <2>1, <2>2, <2>3 DEF StrategyNext
<1>4. CASE YieldNext
  <2>1. ASSUME NEW n \in YieldAmounts, accrue_yield(n) PROVE IInv'
    BY <2>1, AccrueStep
  <2>2. ASSUME NEW n \in YieldAmounts, NEW s \in Strategies,
               report_benji_yield(s, n)
        PROVE  IInv'
    BY <2>2, ReportStep
  <2>3. ASSUME NEW n \in KoreanYields, accrue_korean_debt_yield(n) PROVE IInv'
    BY <2>3, KoreanStep
  <2> QED BY <1>4, <2>1, <2>2, <2>3, ClaimStep DEF YieldNext
<1>5. CASE ConfigNext
  BY <1>5, ConfigNextStep
<1>6. CASE EnvironmentNext
  BY <1>6, EnvironmentStep
<1>7. CASE UNCHANGED vars
  BY <1>7 DEF vars, IInv, TypeOK, Custody, AssetsAccounted, SupplyCopiesAgree,
              state, users, history
<1> QED BY <1>1, <1>2, <1>3, <1>4, <1>5, <1>6, <1>7 DEF Next

-----------------------------------------------------------------------------
(* The theorems *)

\* Every reachable state is well typed, whatever the users, strategies and
\* settings are: in particular the idle balance, the fees and every token
\* balance never go below zero.
THEOREM TypeCorrect == Spec => []TypeOK
<1>1. initialize => IInv
  BY InitIInv
<1>2. IInv /\ [Next]_vars => IInv'
  BY NextStep
<1>3. IInv => TypeOK
  BY DEF IInv
<1> QED BY <1>1, <1>2, <1>3, PTL DEF Spec

\* The vault's tokens always cover the idle assets and the unclaimed fees,
\* across deposits, recalls, rebalances, yields and claims.
THEOREM VaultCustody == Spec => []Custody
<1>1. initialize => IInv
  BY InitIInv
<1>2. IInv /\ [Next]_vars => IInv'
  BY NextStep
<1>3. IInv => Custody
  BY DEF IInv
<1> QED BY <1>1, <1>2, <1>3, PTL DEF Spec

\* The total the shares are priced with is always idle assets plus what the
\* strategies were given plus Korean yield booked without tokens.
THEOREM TotalAssetsAccounted == Spec => []AssetsAccounted
<1>1. initialize => IInv
  BY InitIInv
<1>2. IInv /\ [Next]_vars => IInv'
  BY NextStep
<1>3. IInv => AssetsAccounted
  BY DEF IInv
<1> QED BY <1>1, <1>2, <1>3, PTL DEF Spec

\* The stored copy of the share supply never drifts from State.
THEOREM SupplyCopies == Spec => []SupplyCopiesAgree
<1>1. initialize => IInv
  BY InitIInv
<1>2. IInv /\ [Next]_vars => IInv'
  BY NextStep
<1>3. IInv => SupplyCopiesAgree
  BY DEF IInv
<1> QED BY <1>1, <1>2, <1>3, PTL DEF Spec

\* The books of the vault agree with each other: what SupplyCopies and
\* TotalAssetsAccounted say, together.
THEOREM BooksHold == Spec => []BooksAgree
<1>1. SupplyCopiesAgree /\ AssetsAccounted => BooksAgree
  BY DEF BooksAgree
<1> QED BY <1>1, SupplyCopies, TotalAssetsAccounted, PTL

-----------------------------------------------------------------------------
(* The share price *)

\* A step that leaves the supply alone and does not lower the assets.
LEMMA RiseHolds ==
    ASSUME IInv, total_shares' = total_shares, total_assets' \in Int,
           total_assets' >= total_assets
    PROVE  PriceHolds
<1> SUFFICES ASSUME total_shares > 0
             PROVE  total_assets' * total_shares >= total_assets * total_shares
  BY DEF PriceHolds
<1>1. total_shares \in Nat /\ total_assets \in Int
  BY DEF IInv, TypeOK
<1>2. \A x, y \in Int, n \in Nat : x >= y => x * n >= y * n
  OBVIOUS
<1> QED BY <1>1, <1>2

\* Minting shares never lowers the price (shares are rounded down).
LEMMA MintHolds ==
    ASSUME IInv, NEW user \in Users, NEW amount \in Nat, mint(user, amount)
    PROVE  PriceHolds
<1> SUFFICES ASSUME total_shares > 0, total_assets >= 0
             PROVE  total_assets' * total_shares >= total_assets * total_shares'
  BY DEF PriceHolds
<1>1. total_shares \in Nat \ {0} /\ total_assets \in Nat
  BY DEF IInv, TypeOK
<1>2. /\ total_assets' = total_assets + amount
      /\ total_shares' = total_shares + shares_to_mint(amount)
  BY DEF mint
<1> QED BY <1>1, <1>2, MintKeepsPrice DEF shares_to_mint

\* Burning shares never lowers the price (assets are rounded down).
LEMMA BurnHolds ==
    ASSUME IInv, NEW user \in Users, NEW shares \in Nat,
           do_withdraw(user, shares, assets_to_return(shares))
    PROVE  PriceHolds
<1> SUFFICES ASSUME total_shares > 0, total_assets >= 0
             PROVE  total_assets' * total_shares >= total_assets * total_shares'
  BY DEF PriceHolds
<1>1. total_shares \in Nat \ {0} /\ total_assets \in Nat
  BY DEF IInv, TypeOK
<1>2. /\ total_assets' = total_assets - assets_to_return(shares)
      /\ total_shares' = total_shares - shares
  BY DEF do_withdraw
<1> QED BY <1>1, <1>2, BurnKeepsPrice DEF assets_to_return

\* A step that leaves both totals alone.
LEMMA SameHolds ==
    ASSUME IInv, UNCHANGED <<total_shares, total_assets>>
    PROVE  PriceHolds
<1>1. total_assets' \in Int /\ total_assets' >= total_assets
  BY DEF IInv, TypeOK
<1> QED BY <1>1, RiseHolds

\* Crediting yield never lowers the price (the fee is at most the yield).
LEMMA CreditHolds ==
    ASSUME IInv, NEW payer \in Accounts, NEW amount \in Nat,
           credit_yield(payer, amount)
    PROVE  PriceHolds
<1> DEFINE fee == protocol_fee(amount, conf.fee_bps)
<1>1. fee \in Nat /\ fee <= amount
  BY ConfigFields, FeeWithinAmount DEF IInv
<1>2. total_assets' = total_assets + (amount - fee) /\ total_shares' = total_shares
  BY DEF credit_yield
<1> HIDE DEF fee
<1>3. total_assets' \in Int /\ total_assets' >= total_assets
  BY <1>1, <1>2 DEF IInv, TypeOK
<1> QED BY <1>2, <1>3, RiseHolds

\* No step of Next lowers the price.
LEMMA PriceStep ==
    ASSUME IInv, [Next]_vars
    PROVE  [PriceHolds]_vars
<1> SUFFICES ASSUME Next PROVE PriceHolds
  OBVIOUS
<1> USE NumberAssumption
<1>1. CASE UserNext
  <2>1. ASSUME NEW u \in Users, NEW n \in DepositAmounts, deposit(u, n)
        PROVE  PriceHolds
    BY <2>1, MintHolds DEF deposit
  <2>2. ASSUME NEW u \in Users, NEW n \in DepositAmounts,
               process_single_batch_entry(u, n)
        PROVE  PriceHolds
    BY <2>2, MintHolds, SameHolds DEF process_single_batch_entry, state
  <2>3. ASSUME NEW u \in Users, NEW n \in ShareAmounts, withdraw(u, n)
        PROVE  PriceHolds
    BY <2>3, BurnHolds, SameHolds DEF withdraw, state
  <2>4. ASSUME NEW u \in Users, execute_withdrawal(u) PROVE PriceHolds
    <3>1. pending[u].shares \in Nat
      BY DEF IInv, TypeOK, Pending
    <3> QED BY <2>4, <3>1, BurnHolds DEF execute_withdrawal
  <2> QED BY <1>1, <2>1, <2>2, <2>3, <2>4 DEF UserNext
<1>2. CASE BatchNext \/ StrategyNext \/ EnvironmentNext
  <2>1. UNCHANGED <<total_shares, total_assets>>
    BY <1>2 DEF BatchNext, StrategyNext, EnvironmentNext, batch_deposit,
       batch_deposit_returns, invest, divest, rebalance, token_gift,
       fund_moves, tick, state
  <2> QED BY <2>1, SameHolds
<1>3. CASE YieldNext
  <2>1. ASSUME NEW n \in YieldAmounts, accrue_yield(n) PROVE PriceHolds
    BY <2>1, CreditHolds, Addresses DEF accrue_yield
  <2>2. ASSUME NEW n \in YieldAmounts, NEW s \in Strategies,
               report_benji_yield(s, n)
        PROVE  PriceHolds
    BY <2>2, CreditHolds, Addresses DEF report_benji_yield
  <2>3. ASSUME NEW n \in KoreanYields, accrue_korean_debt_yield(n)
        PROVE  PriceHolds
    <3>1. /\ total_assets' \in Int /\ total_assets' >= total_assets
          /\ total_shares' = total_shares
      BY <2>3 DEF accrue_korean_debt_yield, IInv, TypeOK
    <3> QED BY <3>1, RiseHolds
  <2>4. ASSUME claim_fees PROVE PriceHolds
    BY <2>4, SameHolds DEF claim_fees, state
  <2> QED BY <1>3, <2>1, <2>2, <2>3, <2>4 DEF YieldNext
<1>4. CASE ConfigNext
  <2>1. UNCHANGED <<total_shares, total_assets>>
    BY <1>4 DEF ConfigNext, configure, set_fee_bps, set_treasury,
       set_large_withdrawal_threshold, set_min_deposit,
       set_min_liquidity_buffer, set_withdrawal_cooldown, set_max_batch_size,
       set_relayer, whitelist_strategy, set_strategy,
       execute_strategy_proposal, set_strategy_cap,
       set_strategy_risk_threshold, set_paused, state
  <2> QED BY <2>1, SameHolds
<1> QED BY <1>1, <1>2, <1>3, <1>4 DEF Next

\* No step lowers the price of a share while the supply stays positive:
\* rounding in deposit, batch_deposit, withdraw and execute_withdrawal always
\* favours the holders who stay, and so does every yield path.
THEOREM SharePriceNeverFalls == Spec => PriceNeverFalls
<1>1. initialize => IInv
  BY InitIInv
<1>2. IInv /\ [Next]_vars => IInv'
  BY NextStep
<1>3. IInv /\ [Next]_vars => [PriceHolds]_vars
  BY PriceStep
<1> QED BY <1>1, <1>2, <1>3, PTL DEF Spec, PriceNeverFalls

-----------------------------------------------------------------------------
(* The owners of the shares *)

\* No user has been paid for more shares than they held, and the total the
\* shares are priced with is not negative.
NoneOverdrawn == total_assets >= 0 /\ \A u \in Users : share_balance[u] >= 0

\* The shares a user has asked for are still theirs.
StillTheirs(u) == pending[u].shares <= share_balance[u]

\* A request is executed for more shares than its user holds ...
ExecutedUncovered == \E u \in Users : execute_withdrawal(u) /\ ~StillTheirs(u)

\* ... and how it came to that: the user withdrew beside it.
WithdrawnBeside(u) ==
    pending[u] # NoPending /\ \E n \in ShareAmounts : withdraw(u, n)

OverdraftHasItsCause ==
    NoneOverdrawn
      => /\ NoneOverdrawn' \/ ExecutedUncovered
         /\ \A u \in Users :
              StillTheirs(u) => StillTheirs(u)' \/ WithdrawnBeside(u)

OwnInv == IInv /\ SharesOwned

LEMMA OwnedInts ==
    ASSUME OwnInv
    PROVE  /\ total_shares \in Int /\ total_assets \in Int
           /\ share_balance \in [Users -> Int]
           /\ \A u \in Users : share_balance[u] \in Int /\ pending[u].shares \in Nat
  BY DEF OwnInv, IInv, TypeOK, Pending

\* The balances of one user are part of the supply.
LEMMA OwnedTypes ==
    ASSUME OwnInv, NoneOverdrawn
    PROVE  /\ total_shares \in Nat /\ total_assets \in Nat
           /\ \A u \in Users : share_balance[u] \in Nat /\ share_balance[u] <= total_shares
<1>0. total_assets \in Nat /\ \A u \in Users : share_balance[u] \in Nat
  BY OwnedInts DEF NoneOverdrawn
<1>1. total_shares = SumFunctionOnSet(share_balance, Users)
  BY DEF OwnInv, SharesOwned
<1>2. total_shares \in Nat
  BY <1>0, <1>1, UsersAssumption, SumSubset
<1>3. ASSUME NEW u \in Users PROVE share_balance[u] <= total_shares
  <2>1. {u} \in SUBSET Users
    OBVIOUS
  <2>2. SumFunctionOnSet(share_balance, {u}) <= total_shares
    BY <1>0, <1>1, <2>1, UsersAssumption, SumSubset
  <2>3. SumFunctionOnSet(share_balance, {u}) = share_balance[u]
    <3>1. IsFiniteSet({}) /\ u \notin {} /\ {} \cup {u} = {u}
      BY FS_EmptySet
    <3>2. \A y \in {} \cup {u} : share_balance[y] \in Int
      BY <1>0
    <3>3. SumFunctionOnSet(share_balance, {} \cup {u})
            = SumFunctionOnSet(share_balance, {}) + share_balance[u]
      BY <3>1, <3>2, SumAdd
    <3> QED BY <1>0, <3>1, <3>3, SumEmpty
  <2> QED BY <2>2, <2>3
<1> QED BY <1>0, <1>2, <1>3

\* A change of one balance changes the supply by as much.
LEMMA BalanceMoves ==
    ASSUME OwnInv, NEW user \in Users, NEW d \in Int,
           share_balance' = [share_balance EXCEPT ![user] = @ + d],
           total_shares' = total_shares + d
    PROVE  SharesOwned'
<1>1. \A u \in Users : share_balance[u] \in Int /\ share_balance'[u] \in Int
  BY OwnedInts
<1>2. share_balance'[user] = share_balance[user] + d
  BY OwnedInts
<1>3. \A u \in Users \ {user} : share_balance'[u] = share_balance[u]
  BY OwnedInts
<1>4. SumFunctionOnSet(share_balance', Users)
        = SumFunctionOnSet(share_balance, Users) + share_balance'[user] - share_balance[user]
  BY ONLY <1>1, <1>3, UsersAssumption, user \in Users, SumUpdate
<1>5. SumFunctionOnSet(share_balance, Users) = total_shares /\ total_shares \in Int
  BY OwnedInts DEF OwnInv, SharesOwned
<1> QED BY <1>1, <1>2, <1>4, <1>5 DEF SharesOwned

\* A step that touches neither balances nor requests nor the supply.
LEMMA OwnedKept ==
    ASSUME OwnInv, UNCHANGED <<share_balance, pending, total_shares>>,
           total_assets' \in Int, total_assets' >= total_assets
    PROVE  SharesOwned' /\ OverdraftHasItsCause
<1>1. NoneOverdrawn => NoneOverdrawn'
  BY OwnedInts DEF NoneOverdrawn
<1>2. \A u \in Users : StillTheirs(u) => StillTheirs(u)'
  BY DEF StillTheirs
<1> QED BY <1>1, <1>2 DEF OwnInv, SharesOwned, OverdraftHasItsCause

\* Minting adds to one balance and to the supply.
LEMMA OwnedMint ==
    ASSUME OwnInv, NEW user \in Users, NEW amount \in Nat, mint(user, amount)
    PROVE  SharesOwned' /\ OverdraftHasItsCause
<1> DEFINE minted == shares_to_mint(amount)
<1>1. minted \in Int
  BY OwnedInts, ConversionInt DEF shares_to_mint
<1>2. NoneOverdrawn => minted >= 0
  <2> SUFFICES ASSUME NoneOverdrawn PROVE minted \in Nat
    OBVIOUS
  <2>0. total_shares \in Nat /\ total_assets \in Nat
    BY OwnedTypes
  <2>1. CASE total_assets = 0 \/ total_shares = 0
    BY <2>1 DEF shares_to_mint, assets_to_shares
  <2>2. CASE total_assets # 0 /\ total_shares # 0
    <3>1. total_shares \in Nat \ {0}
      BY <2>0, <2>2
    <3> QED BY <2>0, <3>1, MintKeepsPrice DEF shares_to_mint
  <2> QED BY <2>1, <2>2
<1> HIDE DEF minted
<1>3. /\ share_balance' = [share_balance EXCEPT ![user] = @ + minted]
      /\ total_shares' = total_shares + minted /\ total_assets' = total_assets + amount
      /\ pending' = pending
  BY DEF mint, credited, minted
<1>4. SharesOwned'
  BY <1>1, <1>3, BalanceMoves
<1>5. ASSUME NoneOverdrawn
      PROVE  /\ \A u \in Users : share_balance'[u] \in Int /\ share_balance'[u] >= share_balance[u]
             /\ total_assets' >= 0
  <2>1. minted >= 0
    BY <1>2, <1>5
  <2>2. total_assets \in Int /\ total_assets >= 0
    BY <1>5, OwnedInts DEF NoneOverdrawn
  <2> QED BY <1>1, <1>3, <2>1, <2>2, OwnedInts
<1>6. ASSUME NoneOverdrawn PROVE NoneOverdrawn' /\ \A u \in Users : StillTheirs(u) => StillTheirs(u)'
  <2>1. NoneOverdrawn'
    BY <1>5, <1>6, OwnedInts DEF NoneOverdrawn
  <2>2. ASSUME NEW u \in Users, StillTheirs(u) PROVE StillTheirs(u)'
    <3>1. pending[u].shares \in Nat /\ share_balance[u] \in Int /\ pending[u].shares <= share_balance[u]
      BY <2>2, OwnedInts DEF StillTheirs
    <3>2. share_balance'[u] \in Int /\ share_balance'[u] >= share_balance[u]
      BY <1>5, <1>6
    <3> QED BY <1>3, <3>1, <3>2 DEF StillTheirs
  <2> QED BY <2>1, <2>2
<1> QED BY <1>4, <1>6 DEF OverdraftHasItsCause

\* Burning takes from one balance and from the supply as much, covered or not.
LEMMA OwnedBurn ==
    ASSUME OwnInv, NEW user \in Users, NEW shares \in Int, NEW assets,
           do_withdraw(user, shares, assets)
    PROVE  SharesOwned'
<1>1. /\ share_balance' = [share_balance EXCEPT ![user] = @ - shares]
      /\ total_shares' = total_shares - shares
  BY DEF do_withdraw
<1>2. PICK d \in Int : d = -shares
  OBVIOUS
<1>3. share_balance[user] - shares = share_balance[user] + d /\ total_shares - shares = total_shares + d
  BY <1>2, OwnedInts
<1>4. /\ share_balance' = [share_balance EXCEPT ![user] = @ + d]
      /\ total_shares' = total_shares + d
  BY <1>1, <1>3
<1> QED BY <1>4, BalanceMoves

\* If the balance covers it, nobody is overdrawn by it and the shares that the
\* others have asked for stay theirs.
LEMMA CoveredBurn ==
    ASSUME OwnInv, NoneOverdrawn, NEW user \in Users, NEW shares \in Nat,
           shares <= share_balance[user],
           do_withdraw(user, shares, assets_to_return(shares))
    PROVE  /\ NoneOverdrawn'
           /\ share_balance'[user] >= 0
           /\ \A u \in Users \ {user} : share_balance'[u] = share_balance[u]
<1> DEFINE assets == assets_to_return(shares)
<1>0. /\ total_shares \in Nat /\ total_assets \in Nat /\ shares <= total_shares
      /\ \A u \in Users : share_balance[u] \in Nat
  BY OwnedTypes
<1>1. assets \in Nat /\ assets <= total_assets
  <2>1. CASE total_shares = 0
    BY <2>1, <1>0 DEF assets_to_return, shares_to_assets
  <2>2. CASE total_shares # 0
    <3>1. total_shares \in Nat \ {0}
      BY <1>0, <2>2
    <3>2. assets \in Nat /\ (total_assets - assets) * total_shares >= total_assets * (total_shares - shares)
      BY <1>0, <3>1, BurnKeepsPrice DEF assets_to_return
    <3>3. total_shares - shares \in Nat
      BY <1>0
    <3>4. total_assets * (total_shares - shares) >= 0
      <4>1. \A x, y \in Nat : x * y >= 0
        OBVIOUS
      <4> QED BY <1>0, <3>3, <4>1
    <3> HIDE DEF assets
    <3>5. \A a, r \in Nat, n \in Nat : n # 0 /\ (a - r) * n >= 0 => r <= a
      OBVIOUS
    <3>6. (total_assets - assets) * total_shares \in Int /\ total_assets * (total_shares - shares) \in Int
      BY <1>0, <3>2, <3>3
    <3>7. (total_assets - assets) * total_shares >= 0
      BY <3>2, <3>4, <3>6
    <3> QED BY <1>0, <2>2, <3>2, <3>5, <3>7
  <2> QED BY <2>1, <2>2
<1>2. /\ share_balance' = [share_balance EXCEPT ![user] = @ - shares]
      /\ total_assets' = total_assets - assets
  BY DEF do_withdraw
<1> HIDE DEF assets
<1>3. /\ share_balance'[user] = share_balance[user] - shares
      /\ \A u \in Users \ {user} : share_balance'[u] = share_balance[u]
  BY <1>2, OwnedInts
<1>4. share_balance'[user] >= 0
  BY <1>0, <1>3
<1>5. \A u \in Users : share_balance'[u] >= 0
  <2> SUFFICES ASSUME NEW u \in Users PROVE share_balance'[u] >= 0
    OBVIOUS
  <2>1. CASE u = user
    BY <2>1, <1>4
  <2>2. CASE u # user
    BY <2>2, <1>0, <1>3
  <2> QED BY <2>1, <2>2
<1>6. total_assets' >= 0
  BY <1>0, <1>1, <1>2
<1> QED BY <1>3, <1>4, <1>5, <1>6 DEF NoneOverdrawn

\* withdraw: the request it records is covered, the burn it makes as well.
LEMMA OwnedWithdraw ==
    ASSUME OwnInv, NEW u \in Users, NEW n \in ShareAmounts, withdraw(u, n)
    PROVE  SharesOwned' /\ OverdraftHasItsCause
<1>0. n \in Nat /\ share_balance[u] >= n
  BY NumberAssumption DEF withdraw
<1>1. CASE /\ pending' = [pending EXCEPT ![u] =
                 [shares |-> n, unlock_timestamp |-> now + Timelock]]
           /\ UNCHANGED <<state, share_balance>>
  <2>1. \A v \in Users : pending'[v].shares = IF v = u THEN n ELSE pending[v].shares
    BY <1>1 DEF OwnInv, IInv, TypeOK
  <2>2. SharesOwned'
    BY <1>1 DEF OwnInv, SharesOwned, state
  <2>3. NoneOverdrawn => NoneOverdrawn'
    BY <1>1 DEF NoneOverdrawn, state
  <2>4. \A v \in Users : StillTheirs(v) => StillTheirs(v)'
    BY <1>0, <1>1, <2>1, OwnedInts DEF StillTheirs
  <2> QED BY <2>2, <2>3, <2>4 DEF OverdraftHasItsCause
<1>2. CASE do_withdraw(u, n, assets_to_return(n)) /\ UNCHANGED pending
  <2>1. SharesOwned'
    BY <1>0, <1>2, OwnedBurn
  <2> SUFFICES ASSUME NoneOverdrawn
               PROVE  /\ NoneOverdrawn'
                      /\ \A v \in Users : StillTheirs(v) => StillTheirs(v)' \/ WithdrawnBeside(v)
    BY <2>1 DEF OverdraftHasItsCause
  <2>2. /\ NoneOverdrawn' /\ share_balance'[u] >= 0
        /\ \A v \in Users \ {u} : share_balance'[v] = share_balance[v]
    BY <1>0, <1>2, OwnedInts, CoveredBurn
  <2>3. ASSUME NEW v \in Users, StillTheirs(v) PROVE StillTheirs(v)' \/ WithdrawnBeside(v)
    <3>1. CASE v # u
      BY <1>2, <2>2, <2>3, <3>1 DEF StillTheirs
    <3>2. CASE v = u /\ pending[u] = NoPending
      BY <1>2, <2>2, <3>2 DEF StillTheirs, NoPending
    <3>3. CASE v = u /\ pending[u] # NoPending
      BY <3>3 DEF WithdrawnBeside
    <3> QED BY <3>1, <3>2, <3>3
  <2> QED BY <2>2, <2>3
<1> QED BY <1>1, <1>2 DEF withdraw

\* execute_withdrawal: it burns what was asked for, held or not.
LEMMA OwnedExecute ==
    ASSUME OwnInv, NEW u \in Users, execute_withdrawal(u)
    PROVE  SharesOwned' /\ OverdraftHasItsCause
<1>0. pending[u].shares \in Nat /\ share_balance[u] \in Int
  BY OwnedInts
<1>1. do_withdraw(u, pending[u].shares, assets_to_return(pending[u].shares))
  BY DEF execute_withdrawal
<1>2. \A v \in Users : pending'[v] = IF v = u THEN NoPending ELSE pending[v]
  BY DEF execute_withdrawal, OwnInv, IInv, TypeOK
<1>3. SharesOwned'
  BY <1>0, <1>1, OwnedBurn
<1>4. \A v \in Users \ {u} : share_balance'[v] = share_balance[v]
  BY <1>1, OwnedInts DEF do_withdraw
<1>5. \A v \in Users \ {u} : StillTheirs(v) => StillTheirs(v)'
  BY <1>2, <1>4 DEF StillTheirs
<1>6. CASE StillTheirs(u)
  <2> SUFFICES ASSUME NoneOverdrawn PROVE NoneOverdrawn' /\ StillTheirs(u)'
    BY <1>3, <1>5 DEF OverdraftHasItsCause
  <2>1. NoneOverdrawn' /\ share_balance'[u] >= 0
    BY <1>0, <1>1, <1>6, CoveredBurn DEF StillTheirs
  <2> QED BY <1>2, <2>1 DEF StillTheirs, NoPending
<1>7. CASE ~StillTheirs(u)
  <2>1. ExecutedUncovered
    BY <1>7 DEF ExecutedUncovered
  <2> QED BY <1>3, <1>5, <1>7, <2>1 DEF OverdraftHasItsCause
<1> QED BY <1>6, <1>7

\* Every step keeps the supply owned, and overdraws nobody but by executing a
\* request that its user withdrew beside.
LEMMA OwnedStep ==
    ASSUME OwnInv, [Next]_vars
    PROVE  SharesOwned' /\ OverdraftHasItsCause
<1> USE NumberAssumption
<1>0. total_assets \in Int
  BY OwnedInts
<1>1. CASE UserNext
  <2>1. ASSUME NEW u \in Users, NEW n \in DepositAmounts, deposit(u, n)
        PROVE  SharesOwned' /\ OverdraftHasItsCause
    BY <2>1, OwnedMint DEF deposit
  <2>2. ASSUME NEW u \in Users, NEW n \in DepositAmounts,
               process_single_batch_entry(u, n)
        PROVE  SharesOwned' /\ OverdraftHasItsCause
    <3>1. CASE mint(u, n)
      BY <3>1, OwnedMint
    <3>2. CASE UNCHANGED <<state, users>>
      BY <1>0, <3>2, OwnedKept DEF state, users
    <3> QED BY <2>2, <3>1, <3>2 DEF process_single_batch_entry
  <2>3. ASSUME NEW u \in Users, NEW n \in ShareAmounts, withdraw(u, n)
        PROVE  SharesOwned' /\ OverdraftHasItsCause
    BY <2>3, OwnedWithdraw
  <2>4. ASSUME NEW u \in Users, execute_withdrawal(u)
        PROVE  SharesOwned' /\ OverdraftHasItsCause
    BY <2>4, OwnedExecute
  <2> QED BY <1>1, <2>1, <2>2, <2>3, <2>4 DEF UserNext
<1>2. CASE BatchNext \/ StrategyNext \/ EnvironmentNext
  <2>1. UNCHANGED <<share_balance, pending, total_shares, total_assets>>
    BY <1>2 DEF BatchNext, StrategyNext, EnvironmentNext, batch_deposit,
       batch_deposit_returns, invest, divest, rebalance, token_gift,
       fund_moves, tick, state, users
  <2> QED BY <1>0, <2>1, OwnedKept
<1>3. CASE YieldNext
  <2>1. ASSUME NEW payer \in Accounts, NEW n \in Nat, credit_yield(payer, n)
        PROVE  SharesOwned' /\ OverdraftHasItsCause
    <3> DEFINE fee == protocol_fee(n, conf.fee_bps)
    <3>1. fee \in Nat /\ fee <= n
      BY ConfigFields, FeeWithinAmount DEF OwnInv, IInv
    <3>2. /\ total_assets' = total_assets + (n - fee)
          /\ UNCHANGED <<share_balance, pending, total_shares>>
      BY <2>1 DEF credit_yield, users
    <3> HIDE DEF fee
    <3>3. total_assets' \in Int /\ total_assets' >= total_assets
      BY <1>0, <3>1, <3>2
    <3> QED BY <3>2, <3>3, OwnedKept
  <2>2. ASSUME NEW n \in YieldAmounts, accrue_yield(n) PROVE SharesOwned' /\ OverdraftHasItsCause
    BY <2>2, <2>1, Addresses DEF accrue_yield
  <2>3. ASSUME NEW n \in YieldAmounts, NEW s \in Strategies,
               report_benji_yield(s, n)
        PROVE  SharesOwned' /\ OverdraftHasItsCause
    BY <2>3, <2>1, Addresses DEF report_benji_yield
  <2>4. ASSUME NEW n \in KoreanYields, accrue_korean_debt_yield(n) PROVE SharesOwned' /\ OverdraftHasItsCause
    <3>1. /\ total_assets' \in Int /\ total_assets' >= total_assets
          /\ UNCHANGED <<share_balance, pending, total_shares>>
      <4>1. /\ n > 0 /\ total_assets' = total_assets + n
            /\ UNCHANGED <<share_balance, pending, total_shares>>
        BY <2>4 DEF accrue_korean_debt_yield, users
      <4>2. total_assets \in Int /\ n \in Int
        <5>1. total_assets \in Int
          BY ONLY <1>0
        <5>2. KoreanYields \subseteq Int
          BY ONLY NumberAssumption
        <5>3. n \in Int
          BY ONLY <5>2, n \in KoreanYields
        <5> QED BY ONLY <5>1, <5>3
      <4>3. \A x, y \in Int : y > 0 => x + y \in Int /\ x + y >= x
        OBVIOUS
      <4>4. total_assets + n \in Int /\ total_assets + n >= total_assets
        BY ONLY <4>1, <4>2, <4>3
      <4> QED BY ONLY <4>1, <4>4
    <3> QED BY <3>1, OwnedKept
  <2>5. ASSUME claim_fees PROVE SharesOwned' /\ OverdraftHasItsCause
    <3>1. UNCHANGED <<share_balance, pending, total_shares, total_assets>>
      BY <2>5 DEF claim_fees, state, users
    <3> QED BY <1>0, <3>1, OwnedKept
  <2> QED BY <1>3, <2>2, <2>3, <2>4, <2>5 DEF YieldNext
<1>4. CASE ConfigNext
  <2>1. UNCHANGED <<share_balance, pending, total_shares, total_assets>>
    BY <1>4 DEF ConfigNext, configure, set_fee_bps, set_treasury,
       set_large_withdrawal_threshold, set_min_deposit,
       set_min_liquidity_buffer, set_withdrawal_cooldown, set_max_batch_size,
       set_relayer, whitelist_strategy, set_strategy,
       execute_strategy_proposal, set_strategy_cap,
       set_strategy_risk_threshold, set_paused, state, users
  <2> QED BY <1>0, <2>1, OwnedKept
<1>5. CASE UNCHANGED vars
  <2>1. UNCHANGED <<share_balance, pending, total_shares, total_assets>>
    BY <1>5 DEF vars, state, users
  <2> QED BY <1>0, <2>1, OwnedKept
<1> QED BY <1>1, <1>2, <1>3, <1>4, <1>5 DEF Next

\* OwnInv is inductive.
LEMMA OwnInvInductive ==
    /\ initialize => OwnInv
    /\ OwnInv /\ [Next]_vars => OwnInv' /\ [OverdraftHasItsCause]_vars
<1>1. initialize => OwnInv
  <2> SUFFICES ASSUME initialize PROVE SharesOwned
    BY InitIInv DEF OwnInv
  <2>1. \A u \in Users : share_balance[u] \in Int /\ share_balance[u] = share_balance[u] * 0
    BY DEF initialize
  <2>2. SumFunctionOnSet(share_balance, Users) = SumFunctionOnSet(share_balance, Users) * 0
    BY <2>1, UsersAssumption, SumScale
  <2>3. SumFunctionOnSet(share_balance, Users) \in Int
    BY <2>1, UsersAssumption, SumInt
  <2> QED BY <2>2, <2>3 DEF SharesOwned, initialize
<1>2. OwnInv /\ [Next]_vars => OwnInv' /\ [OverdraftHasItsCause]_vars
  BY NextStep, OwnedStep DEF OwnInv
<1> QED BY <1>1, <1>2

\* The claims of the owners, rounded down one by one, add up to no more than
\* their parts of the assets, and those to no more than the assets.
LEMMA ClaimsAddUp ==
    ASSUME OwnInv, NoneOverdrawn
    PROVE  Redeemable
<1> DEFINE claim == [u \in Users |-> IF share_balance[u] > 0
                                     THEN assets_to_return(share_balance[u]) ELSE 0]
           sum(f) == SumFunctionOnSet(f, Users)
<1>0. /\ total_shares \in Nat /\ total_assets \in Nat
      /\ \A u \in Users : share_balance[u] \in Nat /\ share_balance[u] <= total_shares
  BY OwnedTypes
<1>1. sum(share_balance) = total_shares
  BY DEF OwnInv, SharesOwned
<1>2. \A u \in Users : claim[u] \in Nat /\ total_shares * claim[u] <= share_balance[u] * total_assets
  <2> SUFFICES ASSUME NEW u \in Users
               PROVE  claim[u] \in Nat /\ total_shares * claim[u] <= share_balance[u] * total_assets
    OBVIOUS
  <2>1. CASE share_balance[u] = 0
    BY <2>1, <1>0
  <2>2. CASE share_balance[u] # 0
    <3>1. /\ share_balance[u] * total_assets \in Nat /\ total_shares \in Nat \ {0}
          /\ claim[u] = assets_to_return(share_balance[u])
      BY <1>0, <2>2
    <3>2. claim[u] = Quotient(share_balance[u] * total_assets, total_shares)
      BY <3>1 DEF assets_to_return, shares_to_assets
    <3> QED BY <3>1, <3>2, QuotientRoundsDown
  <2> QED BY <1>0, <2>1, <2>2
<1> HIDE DEF claim
<1> DEFINE scaled == [u \in Users |-> claim[u] * total_shares]
           part == [u \in Users |-> share_balance[u] * total_assets]
<1>3. \A u \in Users : scaled[u] \in Int /\ part[u] \in Int /\ scaled[u] <= part[u]
  <2>1. \A a, b, c, d \in Nat : a * b <= c * d => b * a \in Int /\ c * d \in Int /\ b * a <= c * d
    OBVIOUS
  <2> QED BY <1>0, <1>2, <2>1
<1>4. \A u \in Users : scaled[u] = claim[u] * total_shares /\ part[u] = share_balance[u] * total_assets
  OBVIOUS
<1> HIDE DEF scaled, part
<1>5. sum(scaled) <= sum(part)
  BY <1>3, UsersAssumption, SumMonotone
<1>6. sum(scaled) = sum(claim) * total_shares
  BY <1>0, <1>2, <1>4, UsersAssumption, SumScale
<1>7. sum(part) = total_shares * total_assets
  <2>1. \A u \in Users : share_balance[u] \in Int /\ part[u] = share_balance[u] * total_assets
    BY <1>0, <1>4
  <2>2. total_assets \in Int
    BY <1>0
  <2>3. sum(part) = sum(share_balance) * total_assets
    BY ONLY <2>1, <2>2, UsersAssumption, SumScale
  <2> QED BY <1>1, <2>3
<1>8. sum(claim) \in Nat
  BY <1>2, UsersAssumption, SumSubset
<1>9. sum(claim) <= total_assets
  <2>1. CASE total_shares = 0
    <3>1. \A u \in Users : claim[u] <= 0
      BY <1>0, <2>1 DEF claim
    <3> DEFINE nothing == [u \in Users |-> 0]
    <3>2. \A u \in Users : claim[u] \in Int /\ nothing[u] \in Int /\ claim[u] <= nothing[u]
      BY <1>2, <3>1
    <3>3. \A u \in Users : nothing[u] = claim[u] * 0
      BY <1>2
    <3> HIDE DEF nothing
    <3>4. sum(claim) <= sum(nothing)
      BY <3>2, UsersAssumption, SumMonotone
    <3>5. sum(nothing) = sum(claim) * 0
      BY <1>2, <3>3, UsersAssumption, SumScale
    <3> QED BY <1>0, <1>8, <3>4, <3>5
  <2>2. CASE total_shares # 0
    <3>1. \A a, b, c \in Nat : c # 0 /\ a * c <= c * b => a <= b
      OBVIOUS
    <3> QED BY <1>0, <1>5, <1>6, <1>7, <1>8, <2>2, <3>1
  <2> QED BY <2>1, <2>2
<1> QED BY <1>1, <1>9 DEF Redeemable, SharesOwned, ClaimsCovered, claim

\* Every share has an owner, whatever the users do, and while nobody has been
\* paid for more shares than they held the owners could all redeem theirs, for
\* any number of users and any interleaving of deposits, batches, withdrawals,
\* yield and settings.  Nothing is assumed of the users.
THEOREM SharesRedeemable == Spec => [](SharesOwned /\ (NoneOverdrawn => Redeemable))
<1>1. OwnInv => SharesOwned /\ (NoneOverdrawn => Redeemable)
  BY ClaimsAddUp DEF OwnInv
<1> QED BY <1>1, OwnInvInductive, PTL DEF Spec

\* The way coverage is lost, and the only one: execute_withdrawal (lib.rs:1558)
\* pays a request that its user no longer holds the shares of, and a request
\* comes to that only by a withdrawal of its user beside it (lib.rs:1532).  No
\* rounding, no batch, no yield and no other user's step overdraws anybody.
THEOREM OverdraftsAreExplained == Spec => [][OverdraftHasItsCause]_vars
  BY OwnInvInductive, PTL DEF Spec
=============================================================================
