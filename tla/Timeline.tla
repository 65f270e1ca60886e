------------------------------ MODULE Timeline ------------------------------
(***************************************************************************)
(* Following a pending transaction on the transactions page: the polling   *)
(* loop of frontend/src/hooks/useTransactionTimeline.ts in the panel that  *)
(* pages/TransactionHistory.tsx shows for the row that was clicked.  The   *)
(* panel stays mounted when another row is clicked, so that the loops of   *)
(* all the hashes it has shown share its refs and its state.               *)
(***************************************************************************)
EXTENDS Naturals

CONSTANTS
    Hashes,              \* transactions shown as pending
    NoHash,
    MAX_POLL_ATTEMPTS,
    MaxShows             \* bound: hashes shown between two openings of the panel

ASSUME TimelineAssumption ==
    NoHash \notin Hashes /\ MAX_POLL_ATTEMPTS \in Nat \ {0} /\ MaxShows \in Nat \ {0}

VARIABLES
    ledger,     \* hash -> what the network has made of it
    selected,   \* selectedPendingHash
    shows,      \* effects run since the panel opened; effect n has loop n
    loops,      \* n -> [hash, at]: its poll awaits the answer, or the next timer
    terminal,   \* isTerminalRef
    attempts,   \* attemptsRef
    status,
    ticking,    \* the interval that counts elapsed seconds is set
    verdict,    \* history: the hash whose answer made the status final
    polled,     \* history: polls sent for the hash shown, since it is shown
    strays      \* history: hashes left while their poll was awaiting its answer

tlVars == <<ledger, selected, shows, loops, terminal, attempts, status, ticking,
            verdict, polled, strays>>

NoLoop == [hash |-> NoHash, at |-> "none"]
Final  == {"finalized", "failed"}

TlTypeOK ==
    /\ ledger \in [Hashes -> {"open"} \union Final]
    /\ selected \in Hashes \union {NoHash} /\ shows \in 0..MaxShows
    /\ loops \in [1..MaxShows -> [hash : Hashes \union {NoHash}, at : {"none", "fetch", "timer"}]]
    /\ {terminal, ticking} \subseteq BOOLEAN
    /\ attempts \in 0..MAX_POLL_ATTEMPTS + 1 /\ polled \in 0..MAX_POLL_ATTEMPTS
    /\ status \in {"pending", "confirming", "timeout"} \union Final
    /\ verdict \in Hashes \union {NoHash} /\ strays \subseteq Hashes

TlInit ==
    /\ ledger = [h \in Hashes |-> "open"]
    /\ selected = NoHash /\ shows = 0 /\ loops = [n \in 1..MaxShows |-> NoLoop]
    /\ terminal = FALSE /\ attempts = 0 /\ status = "pending" /\ ticking = FALSE
    /\ verdict = NoHash /\ polled = 0 /\ strays = {}

-----------------------------------------------------------------------------
\* Mutant: the timer is left running.
clearTimeout_not(n) == loops[n]

\* The cleanup of effect n: its timer goes, a poll that awaits stays.
clearTimeout(n) == IF loops[n].at = "timer" THEN NoLoop ELSE loops[n]

\* attemptsRef is reset and the first poll starts at once.
resetAttempts == attempts' = 1

\* Another row is clicked.  The cleanup has set the terminal flag by the time
\* the effect of the seconds looks at it, so only a panel that has just opened
\* counts them.
track(h) ==
    /\ h # selected /\ shows < MaxShows
    /\ selected' = h /\ shows' = shows + 1
    /\ loops' = [n \in 1..MaxShows |->
                    IF n = shows + 1 THEN [hash |-> h, at |-> "fetch"]
                    ELSE IF n = shows THEN clearTimeout(n) ELSE loops[n]]
    /\ strays' = IF shows > 0 /\ loops[shows].at = "fetch" THEN strays \union {selected} ELSE strays
    /\ ticking' = (shows = 0)
    /\ terminal' = FALSE /\ resetAttempts /\ status' = "pending"
    /\ verdict' = NoHash /\ polled' = 1 /\ UNCHANGED ledger

\* The same row again, or the panel's cross: what still awaits finds an
\* unmounted panel whose flag stays set.
dismiss ==
    /\ selected # NoHash /\ selected' = NoHash /\ shows' = 0
    /\ loops' = [n \in 1..MaxShows |-> NoLoop]
    /\ terminal' = FALSE /\ attempts' = 0 /\ status' = "pending" /\ ticking' = FALSE
    /\ verdict' = NoHash /\ polled' = 0 /\ strays' = {}
    /\ UNCHANGED ledger

-----------------------------------------------------------------------------
\* fetchTxStatus: what Horizon knew when it answered; not yet, or an error, may
\* come after the network has decided.
finalAnswer(n) ==
    /\ loops[n].at = "fetch" /\ ledger[loops[n].hash] \in Final
    /\ status' = ledger[loops[n].hash] /\ verdict' = loops[n].hash
    /\ terminal' = TRUE /\ loops' = [loops EXCEPT ![n] = NoLoop]
    /\ UNCHANGED <<ledger, selected, shows, attempts, ticking, polled, strays>>

\* The next poll is due in POLL_INTERVAL_MS, whatever became of the panel.
rescheduled(n) == [loops[n] EXCEPT !.at = "timer"]

pendingAnswer(n) ==
    /\ loops[n].at = "fetch" /\ loops' = [loops EXCEPT ![n] = rescheduled(n)]
    /\ UNCHANGED <<ledger, selected, shows, terminal, attempts, status, ticking,
                   verdict, polled, strays>>

\* poll() when its timer fires.
poll(n) ==
    /\ loops[n].at = "timer"
    /\ IF terminal
         THEN /\ loops' = [loops EXCEPT ![n] = NoLoop]
              /\ UNCHANGED <<terminal, attempts, status, polled>>
         ELSE /\ attempts' = attempts + 1
              /\ IF attempts' > MAX_POLL_ATTEMPTS
                   THEN /\ terminal' = TRUE /\ status' = "timeout"
                        /\ loops' = [loops EXCEPT ![n] = NoLoop] /\ UNCHANGED polled
                   ELSE /\ loops' = [loops EXCEPT ![n].at = "fetch"]
                        /\ status' = IF attempts' = 2 THEN "confirming" ELSE status
                        /\ polled' = IF loops[n].hash = selected THEN polled + 1 ELSE polled
                        /\ UNCHANGED terminal
    /\ UNCHANGED <<ledger, selected, shows, ticking, verdict, strays>>

decide(h) ==
    /\ ledger[h] = "open" /\ \E r \in Final : ledger' = [ledger EXCEPT ![h] = r]
    /\ UNCHANGED <<selected, shows, loops, terminal, attempts, status, ticking,
                   verdict, polled, strays>>

LoopStep(n) == finalAnswer(n) \/ pendingAnswer(n) \/ poll(n)

TlNext ==
    \/ \E h \in Hashes : track(h) \/ decide(h)
    \/ \E n \in 1..MaxShows : LoopStep(n)
    \/ dismiss

-----------------------------------------------------------------------------
(* Properties. *)

\* useTransactionTimeline: a final status is the network's word on the hash
\* that is shown, or on one that was left while its poll was awaiting its
\* answer: nothing but such a poll carries one transaction's end to another.
FinalIsItsOwn ==
    status \in Final =>
        status = ledger[verdict] /\ (verdict = selected \/ verdict \in strays)

\* MAX_POLL_ATTEMPTS: a transaction is given up only when every poll allowed
\* has been made for it, unless the loop of a hash that was left used some up.
TimeoutWasPolled ==
    status = "timeout" /\ strays = {} => polled = MAX_POLL_ATTEMPTS

\* useTransactionTimeline: as long as one transaction stays on show, its panel
\* comes to a final status or a timeout.
ShownSettles ==
    \A h \in Hashes : selected = h ~> status \in Final \union {"timeout"} \/ selected # h
=============================================================================
