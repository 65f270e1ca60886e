---------------------------- MODULE MCSubmission ----------------------------
(***************************************************************************)
(* What a deposit or a withdrawal goes through in the browser, one part at *)
(* a time: the wizard, the wallet's session, the query cache that shows it *)
(* in advance, and the HTTP calls.  They share no state, so exploring each *)
(* beside the initial states of the others loses no behaviour of any.      *)
(***************************************************************************)
EXTENDS Wizard, WalletSession, QueryCache, ApiClient, TLC

VARIABLE focus   \* the part that is explored

CONSTANTS w1, w2

vars == <<focus, wizVars, wsVars, qcVars, apiVars>>

OnWizard(A) == focus = "wizard" /\ A /\ UNCHANGED <<focus, wsVars, qcVars, apiVars>>
OnWallet(A) == focus = "wallet" /\ A /\ UNCHANGED <<focus, wizVars, qcVars, apiVars>>
OnCache(A)  == focus = "cache" /\ A /\ UNCHANGED <<focus, wizVars, wsVars, apiVars>>
OnCalls(A)  == focus = "calls" /\ A /\ UNCHANGED <<focus, wizVars, wsVars, qcVars>>

Init ==
    /\ focus \in {"wizard", "wallet", "cache", "calls"}
    /\ WizInit /\ WsInit /\ QcInit /\ ApiInit
    /\ focus = "wizard" \/ url = Home
    /\ focus = "wallet" \/ grants

Next ==
    \/ OnWizard(WizNext)
    \/ OnWallet(WsNext)
    \/ OnCache(QcNext)
    \/ OnCalls(ApiNext)

Spec == Init /\ [][Next]_vars

\* One wallet holds more than the least deposit, the other less.
MCBalance == [w \in WizWallets |-> IF w = w1 THEN 3 ELSE 1]

\* Transactions differ in nothing but their names, and so do mutations.
SubmissionSymmetry == Permutations(WizTxs) \union Permutations(Muts)

\* The state of every part is well typed.
SubmissionTypeOK == WizTypeOK /\ WsTypeOK /\ QcTypeOK /\ ApiTypeOK

\* A submission is sent once and as it was shown, over an amount that was
\* checked and approved, and is carried out once.
SubmissionsAreSound ==
    /\ OneSubmissionPerPage /\ SentAsShown /\ DepositsAreApproved /\ RefusedAmountsWereUnchecked
    /\ UnsafeActedOnce /\ OneIdPerCall
=============================================================================
