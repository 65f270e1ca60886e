----------------------------- MODULE WalletViews -----------------------------
(***************************************************************************)
(* What the pages show and keep for a wallet.                              *)
(* What a page shows of the connected wallet while the wallet, the filter  *)
(* and the network it is on change: the holdings                           *)
(* (frontend/src/pages/Portfolio.tsx, lib/portfolioApi.ts), under a filter *)
(* that is kept in the URL (hooks/useUrlState.ts), and the network         *)
(* (hooks/useWalletNetwork.ts, components/NetworkWarningBanner.tsx).       *)
(* And a user's preferences (hooks/usePreferences.ts,                      *)
(* context/PreferencesContext.tsx).                                        *)
(***************************************************************************)
EXTENDS Naturals, Sequences, FiniteSets, SequencesExt

CONSTANTS
    Owners,          \* wallets
    NoOwner,         \* no wallet is connected
    MaxTurns,        \* bound: changes of the wallet, the filter and the network
    MaxAsks,         \* bound: requests under way of each kind
    MaxViewFaults    \* bound: answers that fail

ASSUME ViewsAssumption == NoOwner \notin Owners /\ {MaxTurns, MaxAsks, MaxViewFaults} \subseteq Nat

Networks == {"Testnet", "Mainnet"}
Statuses == {"all", "active"}

VARIABLES
    owner,           \* walletAddress
    urls,            \* history of the browser: the filter of each entry, the last shown
    loads,           \* loads of the holdings: [of, mounted], in the order they began
    holdings,        \* whose holdings are shown
    loadError, isLoading,
    extNetwork,      \* the network the extension is on
    polls,           \* polls of it: [saw, active], in the order they began
    walletNetwork,   \* what is shown; "none" is null
    turns, viewFaults

viewVars == <<owner, urls, loads, holdings, loadError, isLoading, extNetwork, polls,
              walletNetwork, turns, viewFaults>>
holdingVars == <<urls, loads, holdings, loadError, isLoading>>
networkVars == <<extNetwork, polls, walletNetwork>>

ViewsTypeOK ==
    /\ {owner, holdings} \subseteq Owners \cup {NoOwner}
    /\ urls # <<>> /\ ToSet(urls) \subseteq Statuses
    /\ ToSet(loads) \subseteq [of : Owners, mounted : BOOLEAN]
    /\ {loadError, isLoading} \subseteq BOOLEAN
    /\ extNetwork \in Networks /\ walletNetwork \in Networks \cup {"none"}
    /\ ToSet(polls) \subseteq [saw : Networks \cup {"none"}, active : BOOLEAN]
    /\ turns \in 0..MaxTurns /\ viewFaults \in 0..MaxViewFaults

ViewsInit ==
    /\ owner = NoOwner /\ urls = <<"all">> /\ loads = <<>> /\ holdings = NoOwner
    /\ loadError = FALSE /\ isLoading = FALSE
    /\ extNetwork \in Networks /\ polls = <<>> /\ walletNetwork = "none"
    /\ turns = 0 /\ viewFaults = 0

Turn == turns < MaxTurns /\ turns' = turns + 1

ViewFault == viewFaults < MaxViewFaults /\ viewFaults' = viewFaults + 1

-----------------------------------------------------------------------------
(* The holdings. *)

\* The effect's cleanup: isMounted = false.
unmounted == [i \in DOMAIN loads |-> [loads[i] EXCEPT !.mounted = FALSE]]

\* The effect, at a change of the wallet or the filter.  Without a wallet
\* nothing is loaded, and what is shown, isLoading too, stays as it is.
loadHoldings(w) ==
    /\ Len(loads) < MaxAsks
    /\ loads' = IF w = NoOwner THEN unmounted
                ELSE Append(unmounted, [of |-> w, mounted |-> TRUE])
    /\ isLoading' = (isLoading \/ w # NoOwner)

\* finally: however it ended.
loadingEnds(ok) == FALSE

\* A load that is mounted is shown; one that fails leaves the holdings there
\* were, and an error.
getPortfolioHoldings(i, ok) ==
    /\ IF ok THEN UNCHANGED viewFaults ELSE ViewFault
    /\ loads' = RemoveAt(loads, i)
    /\ IF loads[i].mounted
         THEN /\ holdings' = IF ok THEN loads[i].of ELSE holdings
              /\ loadError' = ~ok /\ isLoading' = loadingEnds(ok)
         ELSE UNCHANGED <<holdings, loadError, isLoading>>
    /\ UNCHANGED <<owner, urls, turns>> /\ UNCHANGED networkVars

-----------------------------------------------------------------------------
(* The filter, in the URL. *)

\* Another entry of the history is shown: the effect runs when it differs.
shown(next) ==
    /\ Turn
    /\ urls' = next
    /\ IF Last(next) = Last(urls) THEN UNCHANGED <<loads, isLoading>> ELSE loadHoldings(owner)
    /\ UNCHANGED <<owner, holdings, loadError, viewFaults>> /\ UNCHANGED networkVars

\* A change is pushed, not replaced.
setFilters(status) == shown(Append(urls, status))

\* "Reset Filters" deletes the parameters: the default filter.
resetFilters == Last(urls) # "all" /\ shown(Append(urls, "all"))

\* The browser's back button.
goBack == Len(urls) > 1 /\ shown(Front(urls))

-----------------------------------------------------------------------------
(* The network. *)

\* A poll begins, with the effect and with every turn of its timer.
newNetworkPoll(ps) == Append(ps, [saw |-> "none", active |-> TRUE])

\* The effect's cleanup: active = false, and the timer is cleared.
stopped == [i \in DOMAIN polls |-> [polls[i] EXCEPT !.active = FALSE]]

\* The effect, at a change of the wallet.
watchNetwork(w) ==
    IF w = NoOwner THEN polls' = stopped /\ walletNetwork' = "none"
    ELSE Len(polls) < MaxAsks /\ polls' = newNetworkPoll(stopped) /\ UNCHANGED walletNetwork

networkTimer ==
    /\ owner # NoOwner /\ Len(polls) < MaxAsks
    /\ polls' = newNetworkPoll(polls)
    /\ UNCHANGED <<owner, extNetwork, walletNetwork, turns, viewFaults>> /\ UNCHANGED holdingVars

\* The extension looks at its network, and its answer arrives.
getNetworkDetails(i) ==
    /\ polls[i].saw = "none"
    /\ polls' = [polls EXCEPT ![i].saw = extNetwork]
    /\ UNCHANGED <<owner, extNetwork, walletNetwork, turns, viewFaults>> /\ UNCHANGED holdingVars

\* A failure leaves the label there was.
answeredNetwork(i, ok) == IF ok /\ polls[i].active THEN polls[i].saw ELSE walletNetwork

networkAnswered(i, ok) ==
    /\ IF ok THEN polls[i].saw # "none" /\ UNCHANGED viewFaults ELSE ViewFault
    /\ polls' = RemoveAt(polls, i)
    /\ walletNetwork' = answeredNetwork(i, ok)
    /\ UNCHANGED <<owner, extNetwork, turns>> /\ UNCHANGED holdingVars

\* What the extension owes the first poll that waits.
pollStep == polls # <<>> /\ (getNetworkDetails(1) \/ networkAnswered(1, TRUE))

switchNetwork(n) ==
    /\ n # extNetwork /\ extNetwork' = n /\ Turn
    /\ UNCHANGED <<owner, polls, walletNetwork, viewFaults>> /\ UNCHANGED holdingVars

-----------------------------------------------------------------------------
\* Both effects run when the wallet changes.
ownerChanges(w) ==
    /\ w # owner /\ owner' = w /\ Turn
    /\ loadHoldings(w) /\ watchNetwork(w)
    /\ UNCHANGED <<urls, holdings, loadError, extNetwork, viewFaults>>

ViewsNext ==
    \/ \E w \in Owners \cup {NoOwner} : ownerChanges(w)
    \/ \E i \in DOMAIN loads, ok \in BOOLEAN : getPortfolioHoldings(i, ok)
    \/ \E s \in Statuses : setFilters(s)
    \/ resetFilters \/ goBack \/ networkTimer
    \/ \E i \in DOMAIN polls : getNetworkDetails(i)
    \/ \E i \in DOMAIN polls, ok \in BOOLEAN : networkAnswered(i, ok)
    \/ \E n \in Networks : switchNetwork(n)

-----------------------------------------------------------------------------
(* Properties. *)

\* A page that is not loading and shows no error shows the holdings of the
\* wallet that is connected, whatever answers of earlier loads come in late.
HoldingsAreOwned == owner # NoOwner /\ ~isLoading /\ ~loadError => holdings = owner

\* With no wallet there is no network: the answer of a poll that was under way
\* at the disconnect brings no label or warning back.
NoWalletNoNetwork == owner = NoOwner => walletNetwork = "none"

\* Once known, the network of a connected wallet stays known through failed
\* polls: they neither hide a wrong network nor raise a false warning.
NetworkStaysKnown ==
    [][owner # NoOwner /\ owner' # NoOwner /\ walletNetwork # "none"
        => walletNetwork' # "none"]_viewVars

\* Loading comes to an end while a wallet is connected, however the wallet and
\* the filter were changed meanwhile.
HoldingsLoadEnds == isLoading ~> ~isLoading \/ owner = NoOwner

\* Once the user leaves the extension and the wallet alone, the label comes to
\* say on which network it is and stays, though the polls may overlap.
NetworkSettles == <>[](owner # NoOwner => walletNetwork = extNetwork)

-----------------------------------------------------------------------------
(* The preferences: each tab holds them in its state and writes all of     *)
(* them, under the key of its wallet, to a storage all tabs share.  No tab *)
(* is told of what another writes.                                         *)

CONSTANTS
    PrefTabs,      \* tabs of the browser
    Scopes,        \* keys: the wallets and Guest
    Guest,         \* the key while no wallet is connected
    PrefFields,    \* theme, locale, currency, ...
    MaxPrefWrites  \* bound: choices made

ASSUME PrefAssumption == MaxPrefWrites \in Nat /\ Guest \in Scopes

\* A choice is told by its number; 0 is the default.
DEFAULT_PREFERENCES == [f \in PrefFields |-> 0]

VARIABLES
    scope,     \* tab -> its wallet
    prefs,     \* tab -> its preferences
    storage,   \* key -> the preferences there, for the keys there are
    choices,   \* history: the choices made, in order: [scope, field]
    crowded,   \* history: keys that two tabs had open at once
    full       \* history: keys a write of which was refused

prefVars == <<scope, prefs, storage, choices, crowded, full>>

Values == 0..MaxPrefWrites

PrefTypeOK ==
    /\ scope \in [PrefTabs -> Scopes] /\ prefs \in [PrefTabs -> [PrefFields -> Values]]
    /\ DOMAIN storage \subseteq Scopes
    /\ \A k \in DOMAIN storage : storage[k] \in [PrefFields -> Values]
    /\ crowded \cup full \subseteq Scopes /\ Len(choices) <= MaxPrefWrites

\* Two tabs on one key.
Crowd(sc) == {k \in Scopes : \E t, u \in PrefTabs : t # u /\ sc[t] = k /\ sc[u] = k}

PrefInit ==
    /\ scope \in [PrefTabs -> Scopes] /\ prefs = [t \in PrefTabs |-> DEFAULT_PREFERENCES]
    /\ storage = <<>> /\ choices = <<>> /\ crowded = Crowd(scope) /\ full = {}

-----------------------------------------------------------------------------
\* What is missing in the storage has its default.
loadPreferences(k) == IF k \in DOMAIN storage THEN storage[k] ELSE DEFAULT_PREFERENCES

getStorageKey(k) == k

\* A write the storage refuses is ignored without a word.
savePreferences(next, k, ok) ==
    IF ok THEN /\ storage' = [j \in DOMAIN storage \cup {getStorageKey(k)} |->
                                 IF j = getStorageKey(k) THEN next ELSE storage[j]]
               /\ UNCHANGED full
          ELSE full' = full \cup {k} /\ UNCHANGED storage

\* setTheme, setLocale, setCurrency, ...: the tab's preferences with one of
\* them changed are written as a whole.
setPreferences(t, f, ok) ==
    LET n == Len(choices) + 1
        next == [prefs[t] EXCEPT ![f] = n]
    IN /\ n <= MaxPrefWrites
       /\ prefs' = [prefs EXCEPT ![t] = next]
       /\ savePreferences(next, scope[t], ok)
       /\ choices' = Append(choices, [scope |-> scope[t], field |-> f])
       /\ UNCHANGED <<scope, crowded>>

\* Every field is the default again: a choice like any other.
resetToDefaults(t, ok) ==
    /\ prefs' = [prefs EXCEPT ![t] = DEFAULT_PREFERENCES]
    /\ savePreferences(DEFAULT_PREFERENCES, scope[t], ok)
    /\ UNCHANGED <<scope, choices, crowded>>

\* The effect, at a change of the wallet.
reloaded(t, k) == [prefs EXCEPT ![t] = loadPreferences(getStorageKey(k))]

prefWalletChanges(t, k) ==
    /\ k # scope[t]
    /\ scope' = [scope EXCEPT ![t] = k]
    /\ prefs' = reloaded(t, k)
    /\ crowded' = crowded \cup Crowd(scope')
    /\ UNCHANGED <<storage, choices, full>>

PrefNext ==
    \E t \in PrefTabs :
        \/ \E f \in PrefFields, ok \in BOOLEAN : setPreferences(t, f, ok)
        \/ \E ok \in BOOLEAN : resetToDefaults(t, ok)
        \/ \E k \in Scopes : prefWalletChanges(t, k)

-----------------------------------------------------------------------------
(* Properties. *)

ChosenFor(k, f) == {0} \cup {n \in DOMAIN choices : choices[n] = [scope |-> k, field |-> f]}

\* What is stored for a wallet, and what a tab shows of it, was chosen for
\* that wallet: changing wallets never carries a preference over.
PreferencesStayApart ==
    \A f \in PrefFields :
        /\ \A k \in DOMAIN storage : storage[k][f] \in ChosenFor(k, f)
        /\ \A t \in PrefTabs : prefs[t][f] \in ChosenFor(scope[t], f)

InStorage(k) == IF k \in DOMAIN storage THEN storage[k] ELSE DEFAULT_PREFERENCES

\* A tab that had its wallet to itself, and whose writes the storage took,
\* shows what is stored.  (Of two tabs, each writes over the other's choices.)
TabShowsStored ==
    \A t \in PrefTabs :
        scope[t] \notin crowded \cup full => prefs[t] = InStorage(scope[t])
=============================================================================
