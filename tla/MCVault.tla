------------------------------- MODULE MCVault -------------------------------
(* Constants, bounds and sum-based properties for model checking Vault. *)
EXTENDS Vault, FiniteSets, Functions, TLC

CONSTANTS UserSupply, AdminSupply, StrategySupply,
          s1,           \* the strategy that settings are explored with
          MaxSettings,  \* bound: settings that differ from their defaults
          MaxEntries,   \* bound: entries of one batch
          MaxUnset      \* bound: total assets while no setting is changed

ASSUME UsersAssumption == IsFiniteSet(Users)

MCSupply == [a \in Accounts |->
               CASE a \in Users -> UserSupply
                 [] a = AdminAddr -> AdminSupply
                 [] a \in Strategies -> StrategySupply
                 [] OTHER -> 0]

UserSymmetry == Permutations(Users)

-----------------------------------------------------------------------------
(* Every setting of the admin, a few of them changed at a time *)

Defaults ==
    [fee_bps |-> 0, treasury |-> None, min_deposit |-> 0,
     min_liquidity_buffer |-> 0, benji |-> None, relayer |-> FALSE,
     max_batch_size |-> 50, large_withdrawal_threshold |-> MaxI128,
     withdrawal_cooldown |-> 0]

\* The settings whose interactions are explored together; a strategy's NAV
\* counts as one.
Changed ==
    Cardinality({f \in DOMAIN Defaults : conf[f] # Defaults[f]})
    + Cardinality({s \in Strategies : conf.cap[s] # MaxI128})
    + Cardinality({s \in Strategies : conf.risk[s] # BPS_DENOMINATOR})
    + Cardinality({s \in Strategies : nav[s] # 0})

FewSettings ==
    /\ Changed <= MaxSettings
    /\ batch_left # None => batch_left <= MaxEntries

\* Every token came through an entry point of the vault.
NoGifts ==
    /\ tokens[VaultAddr] = idle + treasury_balance
    /\ SumFunctionOnSet(tokens, Strategies) = invested

\* Bound: either settings change, with one strategy and no gift, or both
\* strategies and gifts are explored under the defaults.
OneTrack ==
    \/ /\ FewSettings /\ NoGifts /\ booked = 0
       /\ conf.whitelist \cup {conf.strategy, conf.benji} \subseteq {s1, None}
       /\ \A s \in Strategies \ {s1} :
             conf.cap[s] = MaxI128 /\ conf.risk[s] = BPS_DENOMINATOR /\ nav[s] = 0
    \/ /\ Changed = 0 /\ batch_left = None
       /\ tokens[AdminAddr] > 0 /\ total_assets <= MaxUnset

-----------------------------------------------------------------------------
(* Properties *)

\* Every share of the supply belongs to somebody: the balances of the users add
\* up to total_shares after any interleaving of deposits, batches, instant and
\* timelocked withdrawals.
SharesOwned == SumFunctionOnSet(share_balance, Users) = total_shares

\* math.rs:24, "The vault is always solvent (total_assets >= sum of all
\* redemption claims)": what the users could redeem, each at the current price,
\* never exceeds total_assets.
ClaimsCovered ==
    LET claim == [u \in Users |-> IF share_balance[u] > 0
                                  THEN assets_to_return(share_balance[u])
                                  ELSE 0]
    IN  SumFunctionOnSet(claim, Users) <= total_assets

\* Every share has an owner, and all the owners together could redeem them.
Redeemable == SharesOwned /\ ClaimsCovered
=============================================================================
