---------------------------- MODULE HistoryTable ----------------------------
(***************************************************************************)
(* The filters and the pages of the transactions page.  The URL holds them *)
(* (frontend/src/hooks/useTransactionFilters.ts, useDataTableState.ts);    *)
(* the boxes of the filter panel write to it with a delay                  *)
(* (components/TransactionFilterPanel.tsx); the table shows a page of what *)
(* matches (hooks/useClientDataTable.ts, pages/TransactionHistory.tsx).    *)
(* A write builds on the URL as it was last rendered, and is rendered some *)
(* time after it was made.                                                 *)
(***************************************************************************)
EXTENDS Naturals, FiniteSets, FiniteSetsExt

CONSTANTS
    TableRows,      \* transactions there may be, numbered from 1
    Matching,       \* field -> value -> the rows it lets through
    PageSize,
    BatchSize,      \* INFINITE_SCROLL_BATCH_SIZE
    MaxEdits        \* bound: what the user does to the filters and the page

Boxes  == {"search", "amount"}      \* written with a delay
Fields == Boxes \union {"types"}

\* "" is no filter; an amount may be typed that does not parse.
Texts(f) == IF f = "amount" THEN {"", "some", "bad"} ELSE {"", "some"}

ASSUME TableAssumption ==
    /\ PageSize \in Nat \ {0} /\ BatchSize \in Nat \ {0} /\ MaxEdits \in Nat
    /\ IsFiniteSet(TableRows) /\ TableRows = 1..Cardinality(TableRows)
    /\ \A f \in Fields : Matching[f]["some"] \subseteq TableRows

VARIABLES
    params,    \* the search parameters
    seen,      \* the search parameters as last rendered
    typed,     \* box -> its text
    armed,     \* box -> its timer is set
    loaded,    \* the transactions there are
    mode,      \* viewMode
    visible,   \* visibleCount
    locked,    \* loadMoreLockRef
    edits,
    intended,  \* history: field -> what the user last asked for
    raced      \* history: fields whose last change met a write not yet rendered

tableVars == <<params, seen, typed, armed, loaded, mode, visible, locked, edits, intended, raced>>

NoFilter == [f \in Fields |-> ""]

TableTypeOK ==
    /\ {params, seen} \subseteq [filter : [Fields -> {"", "some", "bad"}], page : Nat \ {0}]
    /\ typed \in [Boxes -> {"", "some", "bad"}] /\ armed \in [Boxes -> BOOLEAN]
    /\ loaded \subseteq TableRows /\ mode \in {"paginated", "infinite"}
    /\ visible \in Nat /\ locked \in BOOLEAN /\ edits \in 0..MaxEdits
    /\ intended \in [Fields -> {"", "some", "bad"}] /\ raced \subseteq Fields

TableInit ==
    /\ params = [filter |-> NoFilter, page |-> 1] /\ seen = params
    /\ typed = [f \in Boxes |-> ""] /\ armed = [f \in Boxes |-> FALSE]
    /\ loaded = {} /\ mode = "paginated" /\ visible = BatchSize /\ locked = FALSE
    /\ edits = 0 /\ intended = NoFilter /\ raced = {}

-----------------------------------------------------------------------------
(* What the table shows. *)

\* parsePositiveNumericString and its like: what cannot be read is no filter.
parsed(text) == IF text = "bad" THEN "" ELSE text

filteredRows ==
    {r \in loaded : \A f \in Fields : parsed(seen.filter[f]) # "" => r \in Matching[f]["some"]}

totalPages == Max({1, (Cardinality(filteredRows) + PageSize - 1) \div PageSize})

safePage == Min({seen.page, totalPages})

startIndex == (safePage - 1) * PageSize

-----------------------------------------------------------------------------
(* Writing to the URL. *)

edit == edits < MaxEdits /\ edits' = edits + 1

\* updateParams: other parameters as rendered; a filter goes back to page 1.
updateParams(filter, page) == params' = [filter |-> filter, page |-> page]

\* The fields but F whose write was not rendered yet and is written over for
\* good: the text of a box is written again if there is anything to render.
lost(F) ==
    {f \in Fields \ F : IF f \in Boxes
                       THEN /\ ~armed[f] /\ parsed(params'.filter[f]) # intended[f]
                            /\ typed[f] # intended[f] \/ params' = seen
                       ELSE params.filter[f] # seen.filter[f]}

\* The effect of a box: a timer runs while its text is not what the URL gives.
debounce(f, text, filter) == text # parsed(filter[f])

type(f, text) ==
    /\ edit /\ text # typed[f]
    /\ typed' = [typed EXCEPT ![f] = text]
    /\ armed' = [armed EXCEPT ![f] = debounce(f, text, seen.filter)]
    /\ intended' = [intended EXCEPT ![f] = text]
    /\ raced' = IF params.filter[f] # seen.filter[f] THEN raced \union {f} ELSE raced \ {f}
    /\ UNCHANGED <<params, seen, loaded, mode, visible, locked>>

disarmed(f) == [armed EXCEPT ![f] = FALSE]

\* The timer: onSearchChange, onAmountMinChange.
fire(f) ==
    /\ armed[f] /\ armed' = disarmed(f)
    /\ updateParams([seen.filter EXCEPT ![f] = typed[f]], 1)
    /\ raced' = raced \union lost({f})
    /\ UNCHANGED <<seen, typed, loaded, mode, visible, locked, edits, intended>>

toggle ==
    /\ edit
    /\ LET value == IF seen.filter["types"] = "" THEN "some" ELSE ""
       IN /\ updateParams([seen.filter EXCEPT !["types"] = value], 1)
          /\ intended' = [intended EXCEPT !["types"] = value]
    /\ raced' = (raced \ {"types"}) \union lost({"types"})
    /\ UNCHANGED <<seen, typed, armed, loaded, mode, visible, locked>>

\* A box holds a text where the URL has none.
Unwritten(f) == typed[f] # "" /\ parsed(seen.filter[f]) = ""

\* The Reset beside a box writes to the URL and leaves the box alone.
handleResetField(f) ==
    /\ edit
    /\ updateParams([seen.filter EXCEPT ![f] = ""], 1)
    /\ intended' = [intended EXCEPT ![f] = ""]
    /\ raced' = (raced \ {f}) \union lost({f})
                \union {g \in {f} : Unwritten(g)}
    /\ UNCHANGED <<seen, typed, armed, loaded, mode, visible, locked>>

handleClearAll ==
    /\ edit /\ \E f \in Fields : parsed(seen.filter[f]) # ""
    /\ typed' = [f \in Boxes |-> ""]
    /\ armed' = [f \in Boxes |-> debounce(f, "", seen.filter)]
    /\ updateParams(NoFilter, 1)
    /\ intended' = NoFilter /\ raced' = {}
    /\ UNCHANGED <<seen, loaded, mode, visible, locked>>

\* The empty table's "Reset filters" clears the URL and leaves the boxes alone.
clearAll ==
    /\ edit /\ filteredRows = {} /\ \E f \in Fields : parsed(seen.filter[f]) # ""
    /\ updateParams(NoFilter, 1)
    /\ intended' = NoFilter /\ raced' = {f \in Boxes : Unwritten(f)}
    /\ UNCHANGED <<seen, typed, armed, loaded, mode, visible, locked>>

\* setPage of useDataTableState, from the pages on show.
setPage(p) ==
    /\ edit /\ mode = "paginated" /\ p # safePage
    /\ updateParams(seen.filter, p)
    /\ raced' = raced \union lost({})
    /\ UNCHANGED <<seen, typed, armed, loaded, mode, visible, locked, intended>>

\* onSearchChange is new with every URL, so the effect of a box runs again.
rearmed(f, text) == debounce(f, text, params.filter)

\* The URL is rendered: a box whose parameter has changed takes it over, and the
\* infinite view starts over.
renderUrl ==
    /\ params # seen /\ seen' = params
    /\ typed' = [f \in Boxes |->
                    IF parsed(params.filter[f]) # parsed(seen.filter[f])
                    THEN parsed(params.filter[f]) ELSE typed[f]]
    /\ armed' = [f \in Boxes |-> rearmed(f, typed'[f])]
    /\ visible' = BatchSize
    /\ UNCHANGED <<params, loaded, mode, locked, edits, intended, raced>>

-----------------------------------------------------------------------------
(* The rest of the page. *)

\* useTransactionHistory has an answer, for this or for another wallet.
load(rows) ==
    /\ rows # loaded /\ loaded' = rows
    /\ UNCHANGED <<params, seen, typed, armed, mode, visible, locked, edits, intended, raced>>

handleViewModeChange ==
    /\ mode' = IF mode = "paginated" THEN "infinite" ELSE "paginated"
    /\ visible' = IF mode' = "infinite" THEN BatchSize ELSE visible
    /\ UNCHANGED <<params, seen, typed, armed, loaded, locked, edits, intended, raced>>

\* The sentinel comes into view; for a while it does nothing more.
handleLoadMore ==
    /\ mode = "infinite" /\ ~locked /\ visible < Cardinality(filteredRows)
    /\ locked' = TRUE /\ visible' = Min({visible + BatchSize, Cardinality(filteredRows)})
    /\ UNCHANGED <<params, seen, typed, armed, loaded, mode, edits, intended, raced>>

unlock ==
    /\ locked /\ locked' = FALSE
    /\ UNCHANGED <<params, seen, typed, armed, loaded, mode, visible, edits, intended, raced>>

TableNext ==
    \/ \E f \in Boxes : fire(f) \/ handleResetField(f) \/ \E text \in Texts(f) : type(f, text)
    \/ toggle \/ handleClearAll \/ clearAll \/ \E p \in 1..totalPages : setPage(p)
    \/ renderUrl \/ handleViewModeChange \/ handleLoadMore \/ unlock
    \/ \E n \in {0} \union TableRows : load(1..n)

-----------------------------------------------------------------------------
(* Properties. *)

Quiet == seen = params /\ \A f \in Boxes : ~armed[f]

\* TransactionFilterPanel and useTransactionFilters: once all is rendered and no
\* timer runs, every filter is the one the user last asked for, except an amount
\* that does not parse and a change that met a write not rendered yet, or a
\* Reset, of one box or of the empty table, that met a text not written yet.
ChoiceIsKept ==
    Quiet => \A f \in Fields :
        \/ f \in raced \/ intended[f] = "bad"
        \/ parsed(seen.filter[f]) = intended[f] /\ (f \in Boxes => typed[f] = intended[f])

\* useDataTableState: the page goes elsewhere without the user only with a
\* change of filter, over a write not rendered yet, or because an amount that
\* does not parse is written again whenever the URL changes.
PageTurnsStick ==
    [][params'.page # params.page =>
         edits' # edits \/ params'.filter # params.filter \/ params # seen \/ typed["amount"] = "bad"]_tableVars

\* TransactionFilterPanel: when the user stops, the timers stop too and all is
\* rendered: no box and URL keep correcting each other.
BoxesSettle == <>[]Quiet
=============================================================================
