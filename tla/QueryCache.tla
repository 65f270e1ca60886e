----------------------------- MODULE QueryCache -----------------------------
(***************************************************************************)
(* The query cache of the web client under the optimistic updates of a     *)
(* deposit or a withdrawal (frontend/src/hooks/useVaultMutations.ts), with *)
(* the hooks that fill it (useBalanceData.ts, useVaultData.ts,             *)
(* useTransactionData.ts).  What a cached value says beyond the server's   *)
(* answer is the set of mutations whose optimistic change it contains.     *)
(* The holdings key is written too, but nothing ever fills it, and an      *)
(* update of nothing is nothing.                                           *)
(***************************************************************************)
EXTENDS Naturals, FiniteSets

CONSTANTS Muts,        \* submissions, each made once
          MaxFetches   \* bound: fetches that start by themselves

ASSUME QcAssumption == MaxFetches \in Nat

VARIABLES
    cached,     \* key -> [some, of]: whether data is cached, and the mutations in it
    invalid,    \* key -> invalidated since the data was written
    fetching,   \* key -> a fetch is under way
    mutation,   \* submission -> idle, pending, done or refused
    page,       \* the route shown: the vault or the transactions
    fetches,
    blank,      \* history: submission -> keys with no data when it began
    undone      \* history: keys a refused submission has written since their last fetch

qcVars == <<cached, invalid, fetching, mutation, page, fetches, blank, undone>>

QKeys == {"balance", "summary", "transactions"}

Absent == [some |-> FALSE, of |-> {}]

QcTypeOK ==
    /\ cached \in [QKeys -> [some : BOOLEAN, of : SUBSET Muts]]
    /\ \A k \in QKeys : cached[k].of # {} => cached[k].some
    /\ invalid \in [QKeys -> BOOLEAN] /\ fetching \in [QKeys -> BOOLEAN]
    /\ mutation \in [Muts -> {"idle", "pending", "done", "refused"}]
    /\ page \in {"vault", "history"} /\ fetches \in 0..MaxFetches
    /\ blank \in [Muts -> SUBSET QKeys] /\ undone \subseteq QKeys

\* The app and its vault context watch the balance and the summary; only the
\* transactions page watches the transactions.
watched(k) == k = "transactions" => page = "history"

QcInit ==
    /\ page = "vault" /\ fetches = 0
    /\ cached = [k \in QKeys |-> Absent]
    /\ invalid = [k \in QKeys |-> FALSE]
    /\ fetching = [k \in QKeys |-> watched(k)]
    /\ mutation = [m \in Muts |-> "idle"]
    /\ blank = [m \in Muts |-> {}] /\ undone = {}

-----------------------------------------------------------------------------
\* An interval, the window's focus or the network coming back.
refetch(k) ==
    /\ watched(k) /\ ~fetching[k] /\ fetches < MaxFetches
    /\ fetching' = [fetching EXCEPT ![k] = TRUE] /\ fetches' = fetches + 1
    /\ UNCHANGED <<cached, invalid, mutation, page, blank, undone>>

fetched(k) ==
    /\ fetching[k]
    /\ fetching' = [fetching EXCEPT ![k] = FALSE]
    /\ cached' = [cached EXCEPT ![k] = [some |-> TRUE, of |-> {}]]
    /\ invalid' = [invalid EXCEPT ![k] = FALSE]
    /\ undone' = undone \ {k}
    /\ UNCHANGED <<mutation, page, fetches, blank>>

\* Every try failed.  A balance that cannot be fetched is cached as 0; for the
\* others the data stays and counts as invalid.
fetchFailed(k) ==
    /\ fetching[k] /\ k # "balance"
    /\ fetching' = [fetching EXCEPT ![k] = FALSE]
    /\ invalid' = [invalid EXCEPT ![k] = TRUE]
    /\ UNCHANGED <<cached, mutation, page, fetches, blank, undone>>

\* The transactions page fetches when it mounts on nothing or on invalid or old
\* data; a fetch outlives the page that asked for it.
navigate(p) ==
    /\ p # page /\ page' = p
    /\ \/ /\ p = "history" /\ fetches < MaxFetches
          /\ fetching' = [fetching EXCEPT !["transactions"] = TRUE] /\ fetches' = fetches + 1
       \/ /\ p = "history" => cached["transactions"].some /\ ~invalid["transactions"]
          /\ UNCHANGED <<fetching, fetches>>
    /\ UNCHANGED <<cached, invalid, mutation, blank, undone>>

\* gcTime: data nobody watches is dropped.
collect(k) ==
    /\ ~watched(k) /\ ~fetching[k] /\ cached[k].some
    /\ cached' = [cached EXCEPT ![k] = Absent] /\ invalid' = [invalid EXCEPT ![k] = FALSE]
    /\ undone' = undone \ {k}
    /\ UNCHANGED <<fetching, mutation, page, fetches, blank>>

-----------------------------------------------------------------------------
\* The optimistic value: less in the balance, more in the summary if there is
\* one, a pending row before the transactions.
optimistic(k, m) ==
    IF cached[k].some THEN [cached[k] EXCEPT !.of = @ \union {m}]
    ELSE IF k = "summary" THEN Absent ELSE [some |-> TRUE, of |-> {m}]

\* Keys setQueryData writes: it does nothing when the new value is undefined.
Written(m) == {k \in QKeys : optimistic(k, m).some}

\* onMutate: the fetches under way are cancelled, what they answer is ignored.
\* Writing a key makes its data valid again.
onMutate(m, value) ==
    /\ fetching' = [k \in QKeys |-> FALSE]
    /\ cached' = [k \in QKeys |-> value[k]]
    /\ invalid' = [k \in QKeys |-> invalid[k] /\ k \notin Written(m)]
    /\ blank' = [blank EXCEPT ![m] = {k \in QKeys : ~cached[k].some}]

\* mutationFn checks its parameters and sends: two seconds pass.
accepted(m) ==
    /\ page = "vault" /\ mutation[m] = "idle"
    /\ mutation' = [mutation EXCEPT ![m] = "pending"]
    /\ onMutate(m, [k \in QKeys |-> optimistic(k, m)])
    /\ UNCHANGED <<page, fetches, undone>>

\* onError puts the snapshot back, where there was something to put back.
rolledBack(m) == [k \in QKeys |-> IF cached[k].some THEN cached[k] ELSE optimistic(k, m)]

\* The parameters are refused, with nothing sent, before anything else runs.
refused(m) ==
    /\ page = "vault" /\ mutation[m] = "idle"
    /\ mutation' = [mutation EXCEPT ![m] = "refused"]
    /\ onMutate(m, rolledBack(m))
    /\ undone' = undone \union Written(m)
    /\ UNCHANGED <<page, fetches>>

\* Mutant: the transactions are forgotten.
invalidateQueries_butRows == {"balance", "summary"}

invalidateQueries == QKeys

\* onSuccess: the keys that are watched are fetched at once, again if a fetch
\* is under way.
onSuccess(m) ==
    /\ mutation[m] = "pending" /\ mutation' = [mutation EXCEPT ![m] = "done"]
    /\ invalid' = [k \in QKeys |-> invalid[k] \/ (k \in invalidateQueries /\ cached[k].some)]
    /\ fetching' = [k \in QKeys |-> fetching[k] \/ (k \in invalidateQueries /\ watched(k))]
    /\ UNCHANGED <<cached, page, fetches, blank, undone>>

QcNext ==
    \/ \E k \in QKeys : refetch(k) \/ fetched(k) \/ fetchFailed(k) \/ collect(k)
    \/ \E p \in {"vault", "history"} : navigate(p)
    \/ \E m \in Muts : accepted(m) \/ refused(m) \/ onSuccess(m)

-----------------------------------------------------------------------------
(* Properties. *)

\* useVaultMutations: what an accepted submission wrote in advance outlives it
\* only in data that is due to be fetched again or under another submission on
\* its way; and, since writing a key makes it valid, in data that a refused
\* submission has put back over the fetch that was to correct it.
OptimismIsCorrected ==
    \A k \in QKeys : \A m \in cached[k].of :
        mutation[m] = "done" =>
            \/ invalid[k] \/ fetching[k] \/ k \in undone
            \/ \E n \in Muts : mutation[n] = "pending"

\* useVaultMutations, onError: a refused submission stays on show only in data
\* that was not there when it began, which it has no way to put back.
RefusedOnlyInBlank ==
    \A k \in QKeys : \A m \in cached[k].of : mutation[m] = "refused" =>
        k \in blank[m] /\ k # "summary"

\* What was written in advance is put right, whatever became of the submission.
OptimismIsPutRight == OptimismIsCorrected /\ RefusedOnlyInBlank
=============================================================================
