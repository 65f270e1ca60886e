--------------------------- MODULE WalletSession ---------------------------
(***************************************************************************)
(* Being connected to a wallet in the web client: the connect button and   *)
(* the poll of the wallet extension (frontend/src/components/              *)
(* WalletConnect.tsx), the flags kept in the browser (lib/walletSession.ts,*)
(* lib/sessionCleanup.ts), the session's time limit (context/              *)
(* AuthContext.tsx, SessionExpiryWarning.tsx, SessionExpiredModal.tsx) and *)
(* the handlers of App.tsx that tie them together.                         *)
(***************************************************************************)
EXTENDS Naturals

CONSTANT MaxRestarts   \* bound: times the app is loaded again

ASSUME WsAssumption == MaxRestarts \in Nat

VARIABLES
    grants,      \* the extension allows this site and gives an address
    connected,   \* walletAddress
    by,          \* history: who connected it: the user or the poll
    age,         \* of wallet_session_start, kept by the browser for every tab:
                 \* none, young, warning, over
    session,     \* sessionState
    connecting,  \* handleConnect is waiting for the extension
    polling,     \* a sync of the present effect is waiting for the extension
    stray,       \* so is one of an effect that has been cleaned up
    manual,      \* WALLET_MANUAL_DISCONNECT_KEY, kept by the tab
    dismissed,   \* WALLET_RECONNECT_PROMPT_DISMISS_KEY, kept by the tab
    provider,    \* WALLET_LAST_PROVIDER_KEY, kept by the browser for every tab
    prompt,      \* reconnectProvider
    restarts,
    taken        \* history: another tab has removed this connection's start

wsVars == <<grants, connected, by, age, session, connecting, polling, stray,
            manual, dismissed, provider, prompt, restarts, taken>>

Ages == {"none", "young", "warning", "over"}

WsTypeOK ==
    /\ {grants, connected, connecting, polling, stray, manual, dismissed,
        provider, prompt, taken} \subseteq BOOLEAN
    /\ by \in {"nobody", "user", "poll"} /\ age \in Ages
    /\ session \in {"idle", "warning", "expired"} /\ restarts \in 0..MaxRestarts

WsInit ==
    /\ grants \in BOOLEAN /\ connected = FALSE /\ by = "nobody" /\ age = "none"
    /\ session = "idle" /\ connecting = FALSE /\ polling = TRUE /\ stray = FALSE
    /\ manual = FALSE /\ dismissed = FALSE /\ provider = FALSE /\ prompt = FALSE
    /\ restarts = 0 /\ taken = FALSE

-----------------------------------------------------------------------------
(* The time limit. *)

checkSessionExpiry(s) ==
    IF age' = "over" THEN "expired"
    ELSE IF age' = "warning" /\ s = "idle" THEN "warning" ELSE s

\* The effect depends on the state: a state that changes is checked at once.
setSessionState(s) == session' = IF s = session THEN s ELSE checkSessionExpiry(s)

\* The check of every thirty seconds.
checkTimer ==
    /\ age' = age /\ session' = checkSessionExpiry(session) /\ session' # session
    /\ UNCHANGED <<grants, connected, by, connecting, polling, stray, manual,
                   dismissed, provider, prompt, restarts, taken>>

grow ==
    /\ age \in {"young", "warning"}
    /\ age' = IF age = "young" THEN "warning" ELSE "over"
    /\ UNCHANGED <<grants, connected, by, session, connecting, polling, stray,
                   manual, dismissed, provider, prompt, restarts, taken>>

-----------------------------------------------------------------------------
(* The handlers of App.tsx. *)

\* A change of walletAddress cleans the poll's effect up and starts it anew; a
\* sync that is waiting becomes a stray.
newPoll(c) ==
    IF c = connected THEN UNCHANGED <<polling, stray>>
    ELSE /\ stray' = (stray \/ polling)
         /\ polling' = (c \/ ~manual')

onConnect(who) ==
    /\ connected' = TRUE /\ by' = IF connected THEN by ELSE who
    /\ setSessionState("idle") /\ newPoll(TRUE) /\ taken' = FALSE

\* clearWalletSessionState, whatever the reason; "session-expired" is a reason
\* nobody gives.
onDisconnect ==
    /\ age' = "none" /\ connected' = FALSE /\ by' = "nobody" /\ taken' = FALSE
    /\ setSessionState("idle") /\ newPoll(FALSE)

-----------------------------------------------------------------------------
(* WalletConnect.tsx. *)

\* The connect button, the prompt's Reconnect and TRIGGER_WALLET_CONNECT, which
\* is ignored while a wallet is shown.
startConnect ==
    /\ ~connected /\ ~connecting /\ connecting' = TRUE

handleConnect ==
    /\ startConnect
    /\ UNCHANGED <<grants, connected, by, age, session, polling, stray, manual,
                   dismissed, provider, prompt, restarts, taken>>

sessionStart == age' = "young"

connectGranted ==
    /\ connecting /\ connecting' = FALSE /\ grants' = TRUE
    /\ sessionStart /\ manual' = FALSE /\ dismissed' = FALSE
    /\ provider' = TRUE /\ prompt' = FALSE
    /\ onConnect("user") /\ UNCHANGED restarts

\* Not allowed, no address, or the extension threw.
connectFailed ==
    /\ connecting /\ connecting' = FALSE
    /\ UNCHANGED <<grants, connected, by, age, session, polling, stray, manual,
                   dismissed, provider, prompt, restarts, taken>>

disconnectButton ==
    /\ connected /\ manual' = TRUE /\ dismissed' = FALSE /\ provider' = FALSE
    /\ onDisconnect /\ UNCHANGED <<grants, connecting, prompt, restarts>>

manualBlock == manual /\ ~connected

\* The interval.
sync ==
    /\ ~polling /\ ~manualBlock /\ polling' = TRUE
    /\ UNCHANGED <<grants, connected, by, age, session, connecting, stray,
                   manual, dismissed, provider, prompt, restarts, taken>>

\* The extension has answered.
syncAnswered ==
    /\ IF grants THEN /\ manual' = FALSE /\ age' = age
                      /\ connected' = TRUE /\ by' = IF connected THEN by ELSE "poll"
                      /\ setSessionState("idle") /\ taken' = taken
       ELSE IF connected
         THEN /\ age' = "none" /\ connected' = FALSE /\ by' = "nobody"
              /\ setSessionState("idle") /\ taken' = FALSE /\ UNCHANGED manual
         ELSE UNCHANGED <<manual, connected, by, age, session, taken>>
    /\ UNCHANGED <<grants, connecting, dismissed, provider, prompt, restarts>>

synced ==
    /\ polling /\ syncAnswered
    /\ polling' = (connected' # connected) /\ UNCHANGED stray

\* Mutant: a sync that was cleaned up is applied like any other.
unmounted_applied == stray' = FALSE /\ syncAnswered /\ UNCHANGED polling

\* if (!mounted) return.
unmounted ==
    /\ stray' = FALSE
    /\ UNCHANGED <<grants, connected, by, age, session, connecting, polling,
                   manual, dismissed, provider, prompt, restarts, taken>>

strayAnswered == stray /\ unmounted

\* checkAndSetReconnectProvider, once after a start.
showPrompt ==
    /\ ~connected /\ ~manual /\ ~dismissed /\ provider /\ ~prompt /\ by = "nobody"
    /\ prompt' = TRUE
    /\ UNCHANGED <<grants, connected, by, age, session, connecting, polling,
                   stray, manual, dismissed, provider, restarts, taken>>

promptConfirmed ==
    /\ prompt /\ startConnect /\ prompt' = FALSE
    /\ UNCHANGED <<grants, connected, by, age, session, polling, stray, manual,
                   dismissed, provider, restarts, taken>>

promptDismissed ==
    /\ prompt /\ ~connected /\ ~connecting
    /\ prompt' = FALSE /\ dismissed' = TRUE /\ provider' = FALSE
    /\ UNCHANGED <<grants, connected, by, age, session, connecting, polling,
                   stray, manual, restarts, taken>>

-----------------------------------------------------------------------------
(* The warning and the modal of the session. *)

\* The warning's Reconnect sets the start anew; the trigger it sends is ignored.
warningReconnect ==
    /\ session = "warning" /\ connected /\ age = "warning"
    /\ age' = "young" /\ setSessionState("idle")
    /\ UNCHANGED <<grants, connected, by, connecting, polling, stray, manual,
                   dismissed, provider, prompt, restarts, taken>>

dismissSessionWarning ==
    /\ session = "warning" /\ connected /\ age = "warning"
    /\ age' = age /\ setSessionState("idle")
    /\ UNCHANGED <<grants, connected, by, connecting, polling, stray, manual,
                   dismissed, provider, prompt, restarts, taken>>

\* The modal's Reconnect: only without a wallet does the trigger connect.
expiredReconnect ==
    /\ session = "expired" /\ age' = age /\ setSessionState("idle")
    /\ connecting' = (connecting \/ ~connected)
    /\ UNCHANGED <<grants, connected, by, polling, stray, manual, dismissed,
                   provider, prompt, restarts, taken>>

\* The modal's Go to Home: handleDisconnect, without the flag of the button.
expiredHome ==
    /\ session = "expired"
    /\ UNCHANGED <<grants, connecting, manual, dismissed, provider, prompt, restarts>>
    /\ onDisconnect

\* The user changes the permission in the extension.
extensionChanges ==
    /\ grants' = ~grants
    /\ UNCHANGED <<connected, by, age, session, connecting, polling, stray,
                   manual, dismissed, provider, prompt, restarts, taken>>

\* The app is loaded again: in the same tab, or in a new one.
restart(sameTab) ==
    /\ restarts < MaxRestarts /\ restarts' = restarts + 1
    /\ manual' = (manual /\ sameTab) /\ dismissed' = (dismissed /\ sameTab)
    /\ connected' = FALSE /\ by' = "nobody" /\ connecting' = FALSE /\ prompt' = FALSE
    /\ age' = age /\ session' = checkSessionExpiry("idle")
    /\ polling' = ~manual' /\ stray' = FALSE /\ taken' = FALSE
    /\ UNCHANGED <<grants, provider>>

\* Another tab of the browser connects, or renews the session in its warning.
otherTabStarts ==
    /\ age' = "young" /\ taken' = FALSE
    /\ UNCHANGED <<connected, by, session, connecting, polling, stray, manual,
                   dismissed, prompt, restarts>>
    /\ \/ grants' = TRUE /\ provider' = TRUE
       \/ age = "warning" /\ UNCHANGED <<grants, provider>>

\* It disconnects: by its button, or by its poll or its modal, which leave the
\* provider.
otherTabEnds ==
    /\ age' = "none" /\ taken' = (connected /\ (age # "none" \/ taken))
    /\ provider' \in {provider, FALSE}
    /\ UNCHANGED <<grants, connected, by, session, connecting, polling, stray,
                   manual, dismissed, prompt, restarts>>

WsNext ==
    \/ checkTimer \/ grow \/ handleConnect \/ connectGranted \/ connectFailed
    \/ disconnectButton \/ sync \/ synced \/ strayAnswered
    \/ showPrompt \/ promptConfirmed \/ promptDismissed
    \/ warningReconnect \/ dismissSessionWarning \/ expiredReconnect \/ expiredHome
    \/ extensionChanges \/ \E sameTab \in BOOLEAN : restart(sameTab)
    \/ otherTabStarts \/ otherTabEnds

-----------------------------------------------------------------------------
(* Properties. *)

\* WALLET_MANUAL_DISCONNECT_KEY: after the user has disconnected, neither the
\* poll nor an answer to an earlier poll connects again in this tab; only a
\* connect that the user asked for does.
PollNeverOverridesUser ==
    [][manual /\ ~connected /\ connected' => connecting /\ ~connecting']_wsVars

\* AuthContext: once a session has run out, the modal goes only when the session
\* has been started anew or given up, in this tab or another: the poll, which
\* clears the state every ten seconds, does not make it go.
ExpiryStands ==
    [][session = "expired" /\ session' # "expired" => age' # "over"]_wsVars

\* handleConnect: a connection without a time limit is one the poll made, or
\* one that another tab took the limit from: wallet_session_start is kept for
\* the browser, the connection by the tab.  Nothing in this tab leaves a
\* connection that the user made without a limit.
UnlimitedOnlyByPoll == connected /\ age = "none" => by = "poll" \/ taken

\* The connection and its session are what the user last asked for.
SessionFollowsUser == PollNeverOverridesUser /\ ExpiryStands /\ []UnlimitedOnlyByPoll
=============================================================================
