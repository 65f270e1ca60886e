------------------------------ MODULE Referrals ------------------------------
(***************************************************************************)
(* Referral codes, referral relations and the yield a reward is paid on    *)
(* (backend/src/referralService.ts, referralEndpoints.ts).  Amounts and    *)
(* prices are naturals chosen so that the decimals are exact.              *)
(***************************************************************************)
EXTENDS Naturals, Sequences, FiniteSets, SequencesExt

CONSTANTS
    RefWallets, RefCodes,
    CodeCalls,     \* concurrent requests for a code
    SharePrices,   \* prices snapshots report
    TxAmounts,     \* amounts, multiples of every price
    MaxRefEvents   \* bound: transactions and snapshots of the wallet

ASSUME RefAssumption ==
    /\ SharePrices \subseteq Nat /\ TxAmounts \subseteq Nat \ {0}
    /\ \A n \in TxAmounts, p \in SharePrices : p > 0 => n % p = 0
    /\ MaxRefEvents \in Nat /\ "none" \notin RefWallets

VARIABLES
    codes,      \* the table: code -> owner
    relation,   \* referred wallet -> [referrer, first]
    codeCall,   \* call -> [wallet, at, code]
    handed,     \* history: codes callers were given: set of [wallet, code]
    ledger,     \* one wallet's transactions and the snapshots, oldest first
    worth, out, in_   \* history: its worth by accrual, withdrawn and deposited

refVars == <<codes, relation, codeCall, handed, ledger, worth, out, in_>>
lookupVars == <<codeCall, handed>>
yieldVars == <<ledger, worth, out, in_>>

Idle == [wallet |-> "none", at |-> "idle", code |-> "none"]

RefTypeOK ==
    /\ DOMAIN codes \subseteq RefCodes /\ Range(codes) \subseteq RefWallets
    /\ DOMAIN relation \subseteq RefWallets
    /\ \A w \in DOMAIN relation : relation[w] \in [referrer: RefWallets, first: BOOLEAN]
    /\ \A c \in CodeCalls : codeCall[c].at \in {"idle", "draw", "create"}
    /\ Len(ledger) <= MaxRefEvents

RefInit ==
    /\ codes = << >> /\ relation = << >> /\ handed = {}
    /\ codeCall = [c \in CodeCalls |-> Idle]
    /\ ledger = << >> /\ worth = 0 /\ out = 0 /\ in_ = 0

-----------------------------------------------------------------------------
(* getOrCreateReferralCode: read, draw a free code, create.  The code is a *)
(* key of the table, the owner is not.                                     *)

findCode(c, w) ==
    /\ codeCall[c] = Idle
    /\ \/ /\ \E k \in DOMAIN codes : codes[k] = w /\ handed' = handed \union {<<w, k>>}
          /\ UNCHANGED codeCall
       \/ /\ w \notin Range(codes)
          /\ codeCall' = [codeCall EXCEPT ![c] = [Idle EXCEPT !.wallet = w, !.at = "draw"]]
          /\ UNCHANGED handed
    /\ UNCHANGED <<codes, relation>> /\ UNCHANGED yieldVars

\* A random code the table does not hold; after ten that it does, an error.
generateReferralCode(c) ==
    /\ codeCall[c].at = "draw"
    /\ \/ \E k \in RefCodes \ DOMAIN codes :
            codeCall' = [codeCall EXCEPT ![c].at = "create", ![c].code = k]
       \/ DOMAIN codes # {} /\ codeCall' = [codeCall EXCEPT ![c] = Idle]
    /\ UNCHANGED <<codes, relation, handed>> /\ UNCHANGED yieldVars

created(k) == k \notin DOMAIN codes

createCode(c) ==
    /\ codeCall[c].at = "create"
    /\ LET k == codeCall[c].code
           w == codeCall[c].wallet
       IN IF created(k) THEN /\ codes' = [j \in DOMAIN codes \union {k} |-> IF j = k THEN w ELSE codes[j]]
                             /\ handed' = handed \union {<<w, k>>}
                        ELSE UNCHANGED <<codes, handed>>
    /\ codeCall' = [codeCall EXCEPT ![c] = Idle]
    /\ UNCHANGED relation /\ UNCHANGED yieldVars

-----------------------------------------------------------------------------
\* The referrer recorded first stays.
related(w, k) ==
    [v \in DOMAIN relation \union {w} |->
        IF v \in DOMAIN relation THEN relation[v] ELSE [referrer |-> codes[k], first |-> FALSE]]

\* One database transaction, in the wallet's deposit; a failure leaves
\* everything as it was and is not reported.  k = "none": no code given.
recordDeposit(w, k) ==
    /\ LET r == IF k \in DOMAIN codes THEN related(w, k) ELSE relation
       IN relation' = IF w \in DOMAIN r THEN [r EXCEPT ![w].first = TRUE] ELSE r
    /\ UNCHANGED codes /\ UNCHANGED lookupVars /\ UNCHANGED yieldVars

-----------------------------------------------------------------------------
(* calculateUserYield, over the ledger: a transaction is priced at the     *)
(* last snapshot before it, or the first of all, and never below 1.        *)

atLeastOne(p) == IF p > 1 THEN p ELSE 1

\* Where the snapshots up to place i of the ledger are.
Snapshots(i) == {j \in 1..i : ledger[j].type = "snapshot"}

priceAt(j) == atLeastOne(ledger[j].n)

resolveLatestSharePrice ==
    LET snaps == Snapshots(Len(ledger))
    IN IF snaps = {} THEN 1 ELSE priceAt(Max(snaps))

resolveSharePriceForTimestamp(i) ==
    LET earlier == Snapshots(i)
        snaps == Snapshots(Len(ledger))
    IN IF earlier # {} THEN priceAt(Max(earlier))
       ELSE IF snaps # {} THEN priceAt(Min(snaps)) ELSE 1

\* A transaction is added up: deposits, withdrawals and the shares left.
booked(sums, tx, price) ==
    LET shares == tx.n \div price
    IN CASE tx.type = "deposit" -> [sums EXCEPT !.in_ = @ + tx.n, !.shares = @ + shares]
         [] tx.type = "withdrawal" ->
              [sums EXCEPT !.out = @ + tx.n, !.shares = IF @ > shares THEN @ - shares ELSE 0]
         [] OTHER -> sums

\* The loop over the transactions.
sumsUpTo[i \in 0..Len(ledger)] ==
    IF i = 0 THEN [in_ |-> 0, out |-> 0, shares |-> 0]
             ELSE booked(sumsUpTo[i - 1], ledger[i], resolveSharePriceForTimestamp(i))

calculateUserYield ==
    LET end == sumsUpTo[Len(ledger)]
        value == end.shares * resolveLatestSharePrice + end.out
    IN IF value > end.in_ THEN value - end.in_ ELSE 0

\* The wallet's transactions, and snapshots of the price; the worth follows
\* every change of the price after the first snapshot.
ledgerEvent(e) ==
    /\ Len(ledger) < MaxRefEvents
    /\ ledger' = Append(ledger, e)
    /\ CASE e.type = "deposit" -> worth' = worth + e.n /\ in_' = in_ + e.n /\ UNCHANGED out
         [] e.type = "withdrawal" -> /\ e.n <= worth /\ worth' = worth - e.n
                                     /\ out' = out + e.n /\ UNCHANGED in_
         [] e.type = "snapshot" ->
              /\ worth' = IF Snapshots(Len(ledger)) = {} THEN worth
                          ELSE (worth * atLeastOne(e.n)) \div resolveLatestSharePrice
              /\ UNCHANGED <<in_, out>>
    /\ UNCHANGED <<codes, relation>> /\ UNCHANGED lookupVars

LedgerEvents == [type: {"deposit", "withdrawal"}, n: TxAmounts]
                   \union [type: {"snapshot"}, n: SharePrices]

CodesNext ==
    \/ \E c \in CodeCalls, w \in RefWallets : findCode(c, w)
    \/ \E c \in CodeCalls : generateReferralCode(c) \/ createCode(c)
    \/ \E w \in RefWallets, k \in RefCodes \union {"none"} : recordDeposit(w, k)

YieldNext == \E e \in LedgerEvents : ledgerEvent(e)

-----------------------------------------------------------------------------
(* Properties. *)

\* getOrCreateReferralCode: two requests may give one wallet two codes; every
\* code handed out is in the table and credits the wallet it was given to.
CodesCreditTheirOwner ==
    \A h \in handed : h[2] \in DOMAIN codes /\ codes[h[2]] = h[1]

\* calculateUserYield: the yield computed from the whole history is the one
\* that accrued on the worth, snapshot by snapshot, and no loss is charged.
YieldIsAccrued ==
    calculateUserYield = IF worth + out > in_ THEN (worth + out) - in_ ELSE 0
=============================================================================
