------------------------------ MODULE LivePages ------------------------------
(***************************************************************************)
(* Tables read page by page while they grow:                               *)
(* a wallet's transaction history (backend/src/transactionEndpoints.ts),   *)
(* read from the database, each query of the handler a step of its own;    *)
(* the database orders rows of one timestamp as it likes;                  *)
(* and the recent webhook deliveries, newest first (webhookDelivery.ts,    *)
(* GET /admin/webhooks/deliveries of index.ts), read with a cursor while   *)
(* deliveries are made and the oldest are let go of.                       *)
(***************************************************************************)
EXTENDS Naturals, Sequences, FiniteSets, SequencesExt

CONSTANTS
    TxRows,      \* bound: ids of the transactions, recorded in this order
    PageLimit,   \* the limit the client asks for
    MaxPages     \* bound: pages the client reads

ASSUME PagesAssumption ==
    TxRows \subseteq Nat \ {0} /\ PageLimit \in Nat \ {0} /\ MaxPages \in Nat

VARIABLES
    txs,      \* the rows that match the filters: id -> timestamp
    now_,     \* the database's clock
    phase,    \* of the request: "idle", "total", "skip" or "find"
    order,    \* of the traversal: "asc" or "desc"
    cursor,   \* the cursor of the request; 0: none
    skip,     \* rows before the page, as counted
    reply,    \* the last reply: [data, next, hasMore, total]
    pages,    \* pages read
    opened,   \* history: the rows there were when the traversal began
    got       \* history: the ids it was given in a page

pageVars == <<txs, now_, phase, order, cursor, skip, reply, pages, opened, got>>

NoReply == [data |-> << >>, next |-> 0, hasMore |-> FALSE, total |-> 0]

PageTypeOK ==
    /\ DOMAIN txs \subseteq TxRows
    /\ phase \in {"idle", "total", "skip", "find"}
    /\ (skip > 0 => cursor # 0)
    /\ Len(reply.data) <= PageLimit
    /\ (pages > 0 => reply.total <= Cardinality(DOMAIN txs))

PageInit ==
    /\ txs = << >> /\ now_ = 0 /\ phase = "idle" /\ order \in {"asc", "desc"}
    /\ cursor = 0 /\ skip = 0 /\ reply = NoReply /\ pages = 0
    /\ opened = {} /\ got = {}

-----------------------------------------------------------------------------
\* A transaction of the wallet is recorded, with the time of the insert.
recordTx(t) ==
    /\ t \notin DOMAIN txs /\ \A u \in TxRows : u < t => u \in DOMAIN txs
    /\ txs' = [u \in DOMAIN txs \union {t} |-> IF u = t THEN now_ ELSE txs[u]]
    /\ UNCHANGED <<now_, phase, order, cursor, skip, reply, pages, opened, got>>

pagesTick ==
    /\ \E t \in DOMAIN txs : txs[t] = now_
    /\ now_' = now_ + 1
    /\ UNCHANGED <<txs, phase, order, cursor, skip, reply, pages, opened, got>>

\* The client asks for the first page, or for the one after the last reply.
listTransactions ==
    /\ phase = "idle" /\ pages < MaxPages
    /\ \/ pages = 0 /\ cursor' = 0 /\ opened' = DOMAIN txs
       \/ pages > 0 /\ reply.next # 0 /\ cursor' = reply.next /\ UNCHANGED opened
    /\ phase' = "total" /\ skip' = 0
    /\ UNCHANGED <<txs, now_, order, reply, pages, got>>

countTotal ==
    /\ phase = "total"
    /\ reply' = [NoReply EXCEPT !.total = Cardinality(DOMAIN txs)]
    /\ phase' = IF cursor = 0 THEN "find" ELSE "skip"
    /\ UNCHANGED <<txs, now_, order, cursor, skip, pages, opened, got>>

before(t, c) == IF order = "desc" THEN txs[t] > txs[c] ELSE txs[t] < txs[c]

\* Mutant: the rows of the cursor's time count as shown.
skipped_tied(c) == {t \in DOMAIN txs : ~before(c, t)}

skipped(c) == {t \in DOMAIN txs : before(t, c)}

\* The cursor's row is there: rows are never deleted.
countSkip ==
    /\ phase = "skip"
    /\ skip' = Cardinality(skipped(cursor))
    /\ phase' = "find"
    /\ UNCHANGED <<txs, now_, order, cursor, reply, pages, opened, got>>

\* Every order the database may give the rows.
Orderings ==
    {s \in SetToSeqs(DOMAIN txs) : \A i, j \in DOMAIN s : before(s[i], s[j]) => i < j}

\* skip, take limit + 1.
fetched(s) ==
    SubSeq(s, skip + 1, IF skip + PageLimit + 1 < Len(s) THEN skip + PageLimit + 1 ELSE Len(s))

findPage ==
    /\ phase = "find"
    /\ \E s \in Orderings :
         LET rows == fetched(s)
             more == Len(rows) > PageLimit
             data == IF more THEN SubSeq(rows, 1, PageLimit) ELSE rows
         IN /\ reply' = [data |-> data, hasMore |-> more, total |-> reply.total,
                         next |-> IF more THEN data[Len(data)] ELSE 0]
            /\ got' = got \cup Range(data)
    /\ phase' = "idle" /\ pages' = pages + 1
    /\ UNCHANGED <<txs, now_, order, cursor, skip, opened>>

PageNext ==
    \/ \E t \in TxRows : recordTx(t)
    \/ pagesTick \/ listTransactions \/ countTotal \/ countSkip \/ findPage

-----------------------------------------------------------------------------
(* Properties. *)

\* The handler counts and fetches in separate queries while rows come in:
\* still a client that follows nextCursor has been given every row that was
\* there when it began and lies ahead of the last one it got, and when there
\* is no next page, every one of them.
NoRowMissed ==
    phase = "idle" /\ pages > 0 =>
        LET last == reply.data[Len(reply.data)]
        IN \A t \in opened :
              (reply.data = << >> \/ ~reply.hasMore \/ before(t, last)) => t \in got

-----------------------------------------------------------------------------
(* The webhook deliveries. *)

CONSTANTS
    DeliveryIds,         \* random ids: numbers, for their order
    deliveryRetention,
    PageLimits,          \* values of ?limit= that are used
    MaxDeliveryTime      \* bound: milliseconds in which deliveries are made

ASSUME DlAssumption ==
    /\ DeliveryIds \subseteq Nat /\ PageLimits \subseteq Nat \ {0}
    /\ {deliveryRetention, MaxDeliveryTime} \subseteq Nat \ {0}

VARIABLES
    made,       \* deliveries, the newest first: [at, id]
    msNow,
    reading,    \* the page before: [limit, cursor]; cursor <<>> is none, limit 0 no list
    pageTrail,  \* history: what was shown since the list was opened
    atOpening   \* history: the deliveries there were then

dlVars == <<made, msNow, reading, pageTrail, atOpening>>

Delivery == [at : 0..MaxDeliveryTime, id : DeliveryIds]

DlTypeOK ==
    /\ ToSet(made) \subseteq Delivery /\ Cardinality(ToSet(made)) = Len(made)
    /\ msNow \in 0..MaxDeliveryTime
    /\ reading.limit \in {0} \cup PageLimits
    /\ reading.cursor = <<>> \/ reading.cursor[1] \in Delivery

DlInit ==
    /\ made = <<>> /\ msNow = 0 /\ reading = [limit |-> 0, cursor |-> <<>>]
    /\ pageTrail = <<>> /\ atOpening = {}

\* A delivery is put in front.
unshift(id) == <<[at |-> msNow, id |-> id]>> \o made

freshDelivery(id) == \A r \in ToSet(made) \cup ToSet(pageTrail) \cup atOpening : r.id # id

\* emitTransactionEvent cuts the list to what is retained.
emitted(id) ==
    /\ freshDelivery(id)
    /\ made' = LET all == unshift(id)
               IN SubSeq(all, 1, IF Len(all) < deliveryRetention THEN Len(all) ELSE deliveryRetention)
    /\ UNCHANGED <<msNow, reading, pageTrail, atOpening>>

\* retryWebhookDeadLetter leaves the cut to the next event.
retried(id) ==
    freshDelivery(id) /\ made' = unshift(id) /\ UNCHANGED <<msNow, reading, pageTrail, atOpening>>

msTick == msNow < MaxDeliveryTime /\ msNow' = msNow + 1
          /\ UNCHANGED <<made, reading, pageTrail, atOpening>>

-----------------------------------------------------------------------------

\* By time, and by id within a millisecond, both descending.
newer(a, b) == a.at > b.at \/ (a.at = b.at /\ a.id > b.id)

sorted ==
    LET all == ToSet(made)
    IN [p \in 1..Cardinality(all) |->
           CHOOSE r \in all : Cardinality({q \in all : newer(q, r)}) = p - 1]

\* A cursor names the last delivery shown by time and id: encodeDeliveryCursor
\* is injective and decodeDeliveryCursor its inverse.
encodeDeliveryCursor(r) == <<r>>

startIndex(cursorIndex) == cursorIndex + 1

\* The cursor's delivery is no longer there: "Invalid or expired cursor".
expiredCursor == 0

\* Where the page begins in the sorted list, from 1; 0: it throws.
beginning(after) ==
    IF after = <<>> THEN 1
    ELSE IF after[1] \in ToSet(made)
         THEN startIndex(CHOOSE i \in DOMAIN sorted : sorted[i] = after[1])
         ELSE expiredCursor

\* The page, and whether another follows.
listWebhookDeliveryPage(limit, after) ==
    LET from == beginning(after)
        items == SubSeq(sorted, from, IF from + limit <= Len(sorted) THEN from + limit ELSE Len(sorted))
        hasNextPage == Len(items) > limit
    IN [deliveries |-> IF hasNextPage THEN SubSeq(items, 1, limit) ELSE items,
        nextCursor |-> IF hasNextPage THEN encodeDeliveryCursor(items[limit]) ELSE <<>>]

\* The route, for a reader that opens the list or follows the cursor it has.
\* A reader whose cursor expired gets a 400 and has to open the list anew.
getDeliveries(limit, after) ==
    LET page == listWebhookDeliveryPage(limit, after)
        opens == after = <<>>
    IN /\ UNCHANGED <<made, msNow>>
       /\ IF beginning(after) = 0
            THEN /\ reading' = [limit |-> 0, cursor |-> <<>>]
                 /\ pageTrail' = <<>> /\ atOpening' = {}
            ELSE /\ reading' = [limit |-> limit, cursor |-> page.nextCursor]
                 /\ pageTrail' = (IF opens THEN <<>> ELSE pageTrail) \o page.deliveries
                 /\ atOpening' = IF opens THEN ToSet(made) ELSE atOpening

openDeliveries(limit) == reading.cursor = <<>> /\ getDeliveries(limit, <<>>)
nextDeliveries == reading.cursor # <<>> /\ getDeliveries(reading.limit, reading.cursor)

DlNext ==
    \/ \E id \in DeliveryIds : emitted(id) \/ retried(id)
    \/ msTick
    \/ \E limit \in PageLimits : openDeliveries(limit)
    \/ nextDeliveries

-----------------------------------------------------------------------------
(* Properties. *)

\* Following the cursors never shows a delivery twice, however many are made
\* or let go of between two pages, also within one millisecond.
ShownOnce == \A i, j \in DOMAIN pageTrail : pageTrail[i] = pageTrail[j] => i = j

\* And a reader at the end of the list has been shown every delivery that was
\* there when it was opened and is still retained.
NoneSkipped ==
    reading.limit # 0 /\ reading.cursor = <<>>
        => (atOpening \cap ToSet(made)) \subseteq ToSet(pageTrail)
=============================================================================
