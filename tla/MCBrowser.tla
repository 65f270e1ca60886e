----------------------------- MODULE MCBrowser -----------------------------
(***************************************************************************)
(* What keeps a browser in step with the server, one part at a time: its   *)
(* refresh sessions, the timeline of a pending transaction, the polls and  *)
(* the banner that follow the network, the filters of the transaction      *)
(* table, the light that shows the server's health, the pages of a wallet  *)
(* and the preferences several tabs keep for it.  They share no state, so  *)
(* exploring each beside the initial states of the others loses no         *)
(* behaviour of any.                                                       *)
(***************************************************************************)
EXTENDS AuthSessions, Timeline, Connectivity, HistoryTable, WalletViews

VARIABLE focus   \* the part that is explored

vars == <<focus, authVars, tlVars, connVars, tableVars, healthVars, viewVars, prefVars>>

OnSessions(A) == /\ focus = "sessions" /\ A
                 /\ UNCHANGED <<focus, tlVars, connVars, tableVars, healthVars, viewVars, prefVars>>
OnTimeline(A) == /\ focus = "timeline" /\ A
                 /\ UNCHANGED <<focus, authVars, connVars, tableVars, healthVars, viewVars, prefVars>>
OnNetwork(A)  == /\ focus = "network" /\ A
                 /\ UNCHANGED <<focus, authVars, tlVars, tableVars, healthVars, viewVars, prefVars>>
OnTable(A)    == /\ focus = "table" /\ A
                 /\ UNCHANGED <<focus, authVars, tlVars, connVars, healthVars, viewVars, prefVars>>
OnHealth(A)   == /\ focus = "health" /\ A
                 /\ UNCHANGED <<focus, authVars, tlVars, connVars, tableVars, viewVars, prefVars>>
OnViews(A)    == /\ focus = "views" /\ A
                 /\ UNCHANGED <<focus, authVars, tlVars, connVars, tableVars, healthVars, prefVars>>
OnPrefs(A)    == /\ focus = "preferences" /\ A
                 /\ UNCHANGED <<focus, authVars, tlVars, connVars, tableVars, healthVars, viewVars>>

Init ==
    /\ focus \in {"sessions", "timeline", "network", "table", "health", "views",
                  "preferences"}
    /\ AuthInit /\ TlInit /\ ConnInit /\ TableInit /\ HealthInit /\ ViewsInit /\ PrefInit
    /\ focus = "network" \/ (~hidden /\ ~labelled)
    /\ focus = "views" \/ extNetwork = "Testnet"
    /\ focus = "preferences" \/ \A t \in PrefTabs : scope[t] = Guest

Next ==
    \/ OnSessions(AuthNext)
    \/ OnTimeline(TlNext)
    \/ OnNetwork(ConnNext)
    \/ OnTable(TableNext)
    \/ OnHealth(HealthNext)
    \/ OnViews(ViewsNext)
    \/ OnPrefs(PrefNext)

\* The store answers every call of a refresh; a poll's answer comes and its
\* timer fires; a fetch ends; React renders, and a box's timer fires; a health
\* request ends, by its time limit if not by its answer; the extension answers.
Spec ==
    /\ Init /\ [][Next]_vars
    /\ \A r \in RefreshCalls : WF_vars(OnSessions(rotateStep(r)))
    /\ \A n \in 1..MaxShows : WF_vars(OnTimeline(LoopStep(n)))
    /\ WF_vars(OnNetwork(pollTick))
    /\ \A q \in LiveQueries : WF_vars(OnNetwork(\E ok \in BOOLEAN : settleFetch(q, ok)))
    /\ WF_vars(OnTable(renderUrl))
    /\ \A f \in Boxes : WF_vars(OnTable(fire(f)))
    /\ WF_vars(OnHealth(tick))
    /\ WF_vars(OnHealth(\E i \in DOMAIN requests : healthEnds(i)))
    /\ WF_vars(OnViews(\E i \in DOMAIN loads, ok \in BOOLEAN : getPortfolioHoldings(i, ok)))
    /\ WF_vars(OnViews(networkTimer))
    /\ WF_vars(OnViews(pollStep))

\* The search finds the first row, the amount the first two, the types the rest.
MCMatching ==
    [f \in Fields |->
        [text \in {"some"} |-> IF f = "search" THEN {1} ELSE IF f = "amount" THEN {1, 2} ELSE {2, 3}]]

\* The state of every part is well typed.
BrowserTypeOK ==
    /\ AuthTypeOK /\ TlTypeOK /\ ConnTypeOK /\ TableTypeOK
    /\ HealthTypeOK /\ ViewsTypeOK /\ PrefTypeOK

\* What is on show is true of what it is shown for: the status of a transaction,
\* the age of the data, the network's return, the server's health, a wallet's
\* holdings and network, the filters and the preferences the user chose.
ShownIsTrue ==
    /\ FinalIsItsOwn /\ TimeoutWasPolled /\ LabelExplained /\ RestoredIsUpdating
    /\ GreenWasFound /\ HoldingsAreOwned /\ NoWalletNoNetwork /\ ChoiceIsKept
    /\ PreferencesStayApart /\ TabShowsStored

\* Nothing on show goes back by itself.
NothingGoesBack == LightNeverGoesBack /\ NetworkStaysKnown /\ PageTurnsStick

\* And all of it comes to rest, or comes at all: a replayed session is revoked.
BrowserSettles ==
    /\ ReplayRevokes /\ ShownSettles /\ StaleIsRenewed /\ BoxesSettle
    /\ OutageIsShown /\ HoldingsLoadEnds /\ NetworkSettles
=============================================================================
