------------------------------- MODULE Wizard -------------------------------
(***************************************************************************)
(* The transaction wizard of the vault page: frontend/src/components/      *)
(* VaultDashboard.tsx with its URL state, form, approval and confirmation  *)
(* hooks, and the keyboard shortcuts that reach into it.  A URL update is  *)
(* built on the parameters of the render its function belongs to, so of    *)
(* two updates in one handler the last one counts, and a handler that has  *)
(* waited brings back the parameters it started from.  The vault is below  *)
(* its cap; the fee is never estimated (the amount passed is "").          *)
(***************************************************************************)
EXTENDS Integers, FiniteSets, Sequences

CONSTANTS
    WizWallets, Balance,   \* wallets, and what each holds
    NoWallet,
    Typed, Linked,         \* amounts that are typed and that links carry
    MIN_DEPOSIT_AMOUNT,
    WizTxs,                \* transactions the user may ask for
    MaxMounts              \* bound: times the page is entered

ASSUME WizAssumption ==
    /\ Typed \subseteq Nat /\ Linked \subseteq Nat /\ MIN_DEPOSIT_AMOUNT \in Nat
    /\ Balance \in [WizWallets -> Nat] /\ NoWallet \notin WizWallets
    /\ MaxMounts \in Nat \ {0}

VARIABLES
    url,        \* [home, tab, step, amount]
    form,       \* [amount, error, editing]: the amount field
    result,     \* transactionResult: none, success or failure
    approval,   \* [allowance, status, sent]: sent holds the approvals on their way
    tx,         \* transaction -> what handleTransaction holds on to
    modal,      \* the transactions whose summary is on show: at most one
    trigger,    \* tabs a shortcut's timer is about to ask for
    wizWallet,
    mount,      \* which mounting of the page this is
    checked,    \* history: the field was validated for this amount, tab and wallet
    lateApproval \* history: an approval came in for another amount than the form's

wizVars == <<url, form, result, approval, tx, modal, trigger, wizWallet, mount,
             checked, lateApproval>>

Empty == -1                                        \* the string ""
number(a) == IF a = Empty THEN 0 ELSE a            \* Number(a)
WizAmounts == Typed \union Linked \union {Empty} \union {Balance[w] : w \in WizWallets}
Tabs == {"deposit", "withdraw"}
Steps == {"amount", "review", "result"}
Urls == [home : BOOLEAN, tab : Tabs, step : Steps, amount : Linked \union {Empty}]
NoTx == [at |-> "none"]
Over == [at |-> "over"]   \* through, refused, cancelled or abandoned

WizTypeOK ==
    /\ url \in Urls
    /\ form \in [amount : WizAmounts, error : BOOLEAN, editing : BOOLEAN]
    /\ form.editing => url.home /\ url.step = "amount"
    /\ result \in {"none", "success", "failure"}
    /\ approval.allowance \in Nat /\ approval.status \in {"idle", "pending", "confirmed"}
    /\ \A t \in WizTxs : tx[t].at \in {"none", "asked", "sent", "over"}
    /\ modal \subseteq WizTxs /\ trigger \subseteq Tabs
    /\ wizWallet \in WizWallets \union {NoWallet} /\ mount \in 1..MaxMounts

\* What a mounting starts with, from the URL it finds.
FreshForm(u) == [amount |-> u.amount, error |-> FALSE, editing |-> FALSE]
FreshApproval == [allowance |-> 0, status |-> "idle", sent |-> << >>]

WizInit ==
    /\ url \in [home : {TRUE}, tab : Tabs, step : Steps, amount : Linked \union {Empty}]
    /\ form = FreshForm(url) /\ result = "none" /\ approval = FreshApproval
    /\ tx = [t \in WizTxs |-> NoTx] /\ modal = {} /\ trigger = {}
    /\ wizWallet = NoWallet /\ mount = 1
    /\ checked = FALSE /\ lateApproval = FALSE

-----------------------------------------------------------------------------
(* What the page derives from its state on every render. *)

availableBalance == IF wizWallet = NoWallet THEN 0 ELSE Balance[wizWallet]

isBusy == \E t \in WizTxs : tx[t].at = "sent" /\ tx[t].mount = mount

\* createDepositFormSchema, createWithdrawFormSchema.
passes(tab, a) ==
    /\ a # Empty /\ number(a) > 0 /\ number(a) <= availableBalance
    /\ tab = "deposit" => number(a) >= MIN_DEPOSIT_AMOUNT

\* Mutant: an approval of anything will do.
needsApproval_once(a) == wizWallet # NoWallet /\ approval.allowance = 0 /\ a > 0

needsApproval(a) == wizWallet # NoWallet /\ approval.allowance < a /\ a > 0

AtStep(s) == url.home /\ url.step = s /\ modal = {}

\* The effects after a render: a new tab or amount in the URL fills in the
\* deposit form, and a new amount in the form sets the approval back to idle.
\* A field that goes takes the focus with it.
render(u, a) ==
    LET linked == /\ u.tab = "deposit" /\ number(u.amount) > 0
                  /\ <<u.tab, u.amount>> # <<url.tab, url.amount>>
        amount == IF linked THEN u.amount ELSE a
    IN /\ url' = u
       /\ form' = [form EXCEPT !.amount = amount,
                               !.editing = @ /\ u.home /\ u.step = "amount"]
       /\ approval' = IF amount = form.amount THEN approval ELSE [approval EXCEPT !.status = "idle"]
       /\ checked' = (checked /\ amount = form.amount /\ u.tab = url.tab)

\* The page is entered: everything it kept is gone.  Approvals on their way end
\* in the page that was left.
enter(u) ==
    /\ mount < MaxMounts /\ mount' = mount + 1
    /\ url' = u /\ form' = FreshForm(u) /\ result' = "none" /\ approval' = FreshApproval
    /\ checked' = FALSE /\ lateApproval' = FALSE

here == <<mount, lateApproval>>

-----------------------------------------------------------------------------
(* The amount. *)

handleChange(a) ==
    /\ AtStep("amount") /\ ~isBusy
    /\ form' = [form EXCEPT !.amount = a, !.editing = TRUE]
    /\ approval' = IF a = form.amount THEN approval ELSE [approval EXCEPT !.status = "idle"]
    /\ checked' = (checked /\ a = form.amount)
    /\ UNCHANGED <<url, result, tx, modal, trigger, wizWallet>> /\ UNCHANGED here

\* Leaving the field validates it; nothing else does.
handleBlur ==
    /\ form.editing
    /\ form' = [form EXCEPT !.editing = FALSE, !.error = ~passes(url.tab, form.amount)]
    /\ checked' = TRUE
    /\ UNCHANGED <<url, result, approval, tx, modal, trigger, wizWallet, mount, lateApproval>>

\* The MAX button.
setMax ==
    /\ AtStep("amount") /\ ~form.editing /\ availableBalance > 0 /\ ~isBusy
    /\ render(url, availableBalance)
    /\ UNCHANGED <<result, tx, modal, trigger, wizWallet>> /\ UNCHANGED here

\* A click on a tab: setTab and setAmount("") are two updates, the second wins,
\* and the tab stays.
onValueChange ==
    /\ AtStep("amount") /\ ~form.editing
    /\ render([url EXCEPT !.amount = Empty], Empty)
    /\ UNCHANGED <<result, tx, modal, trigger, wizWallet>> /\ UNCHANGED here

isSubmitDisabled == wizWallet = NoWallet \/ isBusy \/ form.error \/ form.amount = Empty

goToReview ==
    /\ AtStep("amount") /\ ~form.editing /\ ~isSubmitDisabled
    /\ render([url EXCEPT !.step = "review"], form.amount)
    /\ UNCHANGED <<result, tx, modal, trigger, wizWallet>> /\ UNCHANGED here

-----------------------------------------------------------------------------
(* The review. *)

back ==
    /\ AtStep("review") /\ ~isBusy
    /\ render([url EXCEPT !.step = "amount"], form.amount)
    /\ UNCHANGED <<result, tx, modal, trigger, wizWallet>> /\ UNCHANGED here

approve ==
    /\ AtStep("review") /\ url.tab = "deposit" /\ ~form.error
    /\ needsApproval(number(form.amount)) /\ approval.status = "idle"
    /\ Len(approval.sent) < 2
    /\ approval' = [approval EXCEPT !.status = "pending", !.sent = Append(@, form.amount)]
    /\ UNCHANGED <<url, form, result, tx, modal, trigger, wizWallet, checked>> /\ UNCHANGED here

\* A second and a half later, whatever the form says by then.
approved ==
    /\ approval.sent # << >>
    /\ approval' = [allowance |-> Head(approval.sent), status |-> "confirmed",
                    sent |-> Tail(approval.sent)]
    /\ lateApproval' = (lateApproval \/ Head(approval.sent) # form.amount)
    /\ UNCHANGED <<url, form, result, tx, modal, trigger, wizWallet, mount, checked>>

\* Confirm: handleTransaction builds the summary and waits for the answer.
handleTransaction(t) ==
    /\ AtStep("review") /\ ~isBusy /\ tx[t] = NoTx
    /\ url.tab = "deposit" =>
         ~needsApproval(number(form.amount)) \/ approval.status = "confirmed"
    /\ wizWallet # NoWallet
    /\ tx' = [tx EXCEPT ![t] =
                [at |-> "asked", action |-> url.tab, amount |-> form.amount, wallet |-> wizWallet,
                 url |-> url, mount |-> mount, sent |-> << >>,
                 covered |-> number(form.amount) <= approval.allowance \/ lateApproval,
                 passed |-> passes(url.tab, form.amount),
                 checked |-> checked]]
    /\ modal' = {t}
    /\ UNCHANGED <<url, form, result, approval, trigger, wizWallet, checked>> /\ UNCHANGED here

handleCancel ==
    /\ modal # {} /\ modal' = {}
    /\ tx' = [t \in WizTxs |-> IF t \in modal THEN Over ELSE tx[t]]
    /\ UNCHANGED <<url, form, result, approval, trigger, wizWallet, checked>> /\ UNCHANGED here

\* What is sent is what the handler held on to.
submission(t) == <<tx[t].action, tx[t].amount, tx[t].wallet>>

\* The parameters are checked before anything is sent: a deposit of nothing is
\* refused and shown as a failure; a withdrawal asks for one share at least.
handleConfirm(t) ==
    /\ t \in modal /\ modal' = {}
    /\ IF tx[t].action = "deposit" /\ number(tx[t].amount) = 0
         THEN /\ tx' = [tx EXCEPT ![t] = Over] /\ result' = "failure"
              /\ render([tx[t].url EXCEPT !.step = "result"], form.amount)
         ELSE /\ tx' = [tx EXCEPT ![t].at = "sent", ![t].sent = submission(t)]
              /\ UNCHANGED <<url, form, result, approval, checked>>
    /\ UNCHANGED <<trigger, wizWallet>> /\ UNCHANGED here

\* The submission is through: the result goes to the page that sent it, and the
\* URL of that page comes back, wherever the user is.
succeeded(t) ==
    /\ tx[t].at = "sent" /\ tx' = [tx EXCEPT ![t] = Over]
    /\ LET u == [tx[t].url EXCEPT !.step = "result"]
       IN IF url.home
            THEN /\ render(u, form.amount)
                 /\ result' = IF tx[t].mount = mount THEN "success" ELSE result
                 /\ UNCHANGED here
            ELSE enter(u)
    /\ UNCHANGED <<modal, trigger, wizWallet>>

\* Done, or Try Again: setStep("amount") and setAmount("") are two updates, and
\* the second keeps the step.
resetWizard ==
    /\ AtStep("result") /\ result # "none" /\ result' = "none"
    /\ render([url EXCEPT !.amount = Empty], Empty)
    /\ UNCHANGED <<tx, modal, trigger, wizWallet>> /\ UNCHANGED here

-----------------------------------------------------------------------------
(* Around the page. *)

Home == [home |-> TRUE, tab |-> "deposit", step |-> "amount", amount |-> Empty]
Elsewhere == [Home EXCEPT !.home = FALSE]

\* navigate("/") on the page itself only clears the parameters; leaving drops a
\* summary that waits for an answer.
navigateHome ==
    IF url.home THEN render(Home, form.amount) /\ UNCHANGED result /\ UNCHANGED here
                ELSE enter(Home)

leave ==
    /\ url.home /\ ~form.editing /\ url' = Elsewhere /\ modal' = {}
    /\ tx' = [t \in WizTxs |-> IF t \in modal THEN Over ELSE tx[t]]
    /\ approval' = FreshApproval
    /\ UNCHANGED <<form, result, trigger, wizWallet, checked>> /\ UNCHANGED here

goHome ==
    /\ ~form.editing /\ modal = {} /\ navigateHome
    /\ UNCHANGED <<tx, modal, trigger, wizWallet>>

\* The keys d and w work over an open summary too.
shortcut(tab) ==
    /\ wizWallet # NoWallet /\ ~form.editing /\ trigger = {}
    /\ navigateHome /\ trigger' = {tab}
    /\ UNCHANGED <<tx, modal, wizWallet>>

\* A tenth of a second later: TRIGGER_DEPOSIT or TRIGGER_WITHDRAW, heard by the
\* page if it is there.
triggered(tab) ==
    /\ tab \in trigger /\ trigger' = {}
    /\ render(IF url.home THEN [url EXCEPT !.tab = tab] ELSE url, form.amount)
    /\ UNCHANGED <<result, tx, modal, wizWallet>> /\ UNCHANGED here

changeWallet(w) ==
    /\ w # wizWallet /\ wizWallet' = w /\ checked' = FALSE
    /\ UNCHANGED <<url, form, result, approval, tx, modal, trigger>> /\ UNCHANGED here

WizNext ==
    \/ \E a \in Typed : handleChange(a)
    \/ handleBlur \/ setMax \/ onValueChange \/ goToReview \/ back \/ approve \/ approved
    \/ \E t \in WizTxs : handleTransaction(t) \/ handleConfirm(t) \/ succeeded(t)
    \/ handleCancel \/ resetWizard \/ leave \/ goHome
    \/ \E tab \in Tabs : shortcut(tab) \/ triggered(tab)
    \/ \E w \in WizWallets \union {NoWallet} : changeWallet(w)

-----------------------------------------------------------------------------
(* Properties. *)

Asked == {t \in WizTxs : tx[t].at \in {"asked", "sent"}}

\* VaultDashboard, isBusy: one page has at most one submission on its way; two
\* can overlap only when the page was left meanwhile.
OneSubmissionPerPage ==
    \A t, s \in WizTxs : tx[t].at = "sent" /\ tx[s].at = "sent" /\ t # s => tx[t].mount # tx[s].mount

\* useTransactionConfirmation: shortcuts, a disconnected wallet or another one
\* may change the page under the summary; what is sent is still what the user
\* was shown.
SentAsShown ==
    \A t \in Asked : tx[t].at = "sent" =>
        tx[t].sent = <<tx[t].url.tab, tx[t].amount, tx[t].wallet>>

\* useTokenAllowance: a deposit beyond the approved amount can be confirmed only
\* because an approval for an earlier amount came in after the amount changed.
DepositsAreApproved ==
    \A t \in Asked : tx[t].action = "deposit" => tx[t].covered

\* useForm, goToReview: an amount the form's rules refuse gets as far as the
\* summary only if it was not checked as it is: it came with a link or the MAX
\* button, or the tab or the wallet changed since.
RefusedAmountsWereUnchecked ==
    \A t \in Asked : ~tx[t].passed => ~tx[t].checked
=============================================================================
