----------------------------- MODULE CursorPages -----------------------------
(***************************************************************************)
(* The list endpoints over in-memory collections: filters, sorting, date   *)
(* ranges and cursor or page-number pagination (backend/src/pagination.ts, *)
(* listEndpoints.ts, dateRange.ts), read by a client that follows the      *)
(* cursors it is given.  Each request filters and sorts again.             *)
(***************************************************************************)
EXTENDS Integers, Sequences, FiniteSets, SequencesExt

CONSTANTS
    ListSizes,    \* sizes of the collection
    LimitArgs,    \* values of ?limit=; 0 stands for anything unusable
    ListMaxLimit, ListDefaultLimit,
    DayLen,       \* instants in a day
    RangeSlack,   \* the 999 ms the longest range is granted, in instants
    MaxRangeDays,
    Boundaries    \* values of ?from= and ?to=

ASSUME ListAssumption ==
    /\ ListSizes \subseteq Nat /\ LimitArgs \subseteq Nat
    /\ ListMaxLimit \in Nat \ {0} /\ ListDefaultLimit \in 1..ListMaxLimit
    /\ DayLen \in Nat /\ RangeSlack \in Nat /\ RangeSlack < DayLen - 1
    /\ MaxRangeDays \in Nat \ {0}
    /\ Boundaries \subseteq [kind: {"none", "day", "instant", "zoneless"}, n: Nat]

VARIABLES
    query,   \* what the client lists: [kind, type, sortBy, desc, limit, range]
    size,    \* rows in the collection
    shown,   \* the response: [ok, data, next, prev]; ok is FALSE for a 400
    trail,   \* history: ids in the order shown, while only next was followed
    seen     \* history: ids shown since the list was opened

listVars == <<query, size, shown, trail, seen>>

-----------------------------------------------------------------------------
(* dateRange.ts.  A range is a pair of instants, -1 where a side is open. *)

normalizeBoundary(b, side) ==
    CASE b.kind = "none" -> -1
      [] b.kind = "day" -> b.n * DayLen + IF side = "from" THEN 0 ELSE DayLen - 1
      [] b.kind = "instant" -> b.n

tooLong(start, end) == end - start > (MaxRangeDays - 1) * DayLen + RangeSlack

\* The range, or << >> when it is refused.
parseUtcDateRange(from, to) ==
    IF "zoneless" \in {from.kind, to.kind} THEN << >>
    ELSE LET start == normalizeBoundary(from, "from")
             end == normalizeBoundary(to, "to")
         IN IF start >= 0 /\ end >= 0 /\ (end < start \/ tooLong(start, end))
            THEN << >> ELSE <<start, end>>

-----------------------------------------------------------------------------
(* listEndpoints.ts and pagination.ts. *)

\* The collections: the newest row first, numbered by their places; one field
\* tells the rows apart in every second one, so that it has ties.
Rows == {[id |-> i, time |-> size - i, type |-> IF i % 2 = 1 THEN "deposit" ELSE "withdrawal"] :
            i \in 1..size}

inRange(t, range) ==
    (range[1] >= 0 => t >= range[1]) /\ (range[2] >= 0 => t <= range[2])

\* A filter keeps the order of the places.
filterTransactions(rows, type, range) ==
    {r \in rows : type \in {"all", r.type} /\ inRange(r.time, range)}

filterPortfolioHoldings(rows, status) == {r \in rows : status \in {"all", r.type}}

\* Compares dates only: both bounds are cut to their day.
filterVaultHistory(rows, range) ==
    LET day(t) == t \div DayLen
    IN {r \in rows : /\ (range[1] >= 0 => day(r.time) >= day(range[1]))
                     /\ (range[2] >= 0 => day(r.time) <= day(range[2]))}

\* A field no row has compares equal everywhere.
compare(a, b, sortBy) ==
    CASE sortBy = "timestamp" -> a.time - b.time
      [] sortBy = "type" -> IF a.type = b.type THEN 0
                            ELSE IF a.type = "deposit" THEN -1 ELSE 1
      [] OTHER -> 0

\* Array.prototype.sort is stable: rows that compare equal keep their order.
precedes(a, b, sortBy, desc) ==
    LET c == compare(a, b, sortBy)
    IN IF c = 0 THEN a.id < b.id ELSE IF desc THEN c > 0 ELSE c < 0

sortItems(rows, sortBy, desc) ==
    [p \in 1..Cardinality(rows) |->
        (CHOOSE r \in rows :
            Cardinality({q \in rows : precedes(q, r, sortBy, desc)}) = p - 1).id]

parsePaginationQuery(limit) ==
    IF limit = 0 THEN ListDefaultLimit
    ELSE IF limit < ListMaxLimit THEN limit ELSE ListMaxLimit

slice(s, from, to) == SubSeq(s, from + 1, IF to < Len(s) THEN to ELSE Len(s))

NoPage == [ok |-> TRUE, data |-> << >>, next |-> 0, prev |-> 0]
BadRange == [NoPage EXCEPT !.ok = FALSE]

\* Mutant: a page one too long.
hasMore_late(n, limit) == n > limit + 1

startAfter(index) == index + 1
hasMore(n, limit) == n > limit

\* cursor 0: none.  Cursors are ids here: encodeCursor is injective.
paginateWithCursor(items, limit, cursor) ==
    LET at == {i \in DOMAIN items : items[i] = cursor}
        \* the index the code has, from 0
        start == IF cursor = 0 THEN 0 ELSE startAfter((CHOOSE i \in at : TRUE) - 1)
        window == slice(items, start, start + limit + 1)
        more == hasMore(Len(window), limit)
        data == IF more THEN slice(window, 0, limit) ELSE window
        back == IF start - limit - 1 > 0 THEN start - limit - 1 ELSE 0
    IN IF cursor # 0 /\ at = {} THEN NoPage
       ELSE [ok |-> TRUE, data |-> data,
             next |-> IF more /\ data # << >> THEN data[Len(data)] ELSE 0,
             prev |-> IF start > 0 /\ data # << >> /\ back < Len(items)
                      THEN items[back + 1] ELSE 0]

paginateWithOffset(items, limit, page) ==
    LET start == (page - 1) * limit
    IN [NoPage EXCEPT !.data = slice(items, start, start + limit)]

buildTransactionsResponse(q, cursor, page) ==
    LET items == sortItems(filterTransactions(Rows, q.type, q.range), q.sortBy, q.desc)
    IN IF page > 0 THEN paginateWithOffset(items, q.limit, page)
                   ELSE paginateWithCursor(items, q.limit, cursor)

buildPortfolioHoldingsResponse(q, cursor) ==
    paginateWithCursor(sortItems(filterPortfolioHoldings(Rows, q.type), q.sortBy, q.desc),
                       q.limit, cursor)

buildVaultHistoryResponse(q, cursor) ==
    paginateWithCursor(sortItems(filterVaultHistory(Rows, q.range), q.sortBy, q.desc),
                       q.limit, cursor)

\* page 0: none given.
Answer(q, cursor, page) ==
    CASE q.kind = "transactions" -> buildTransactionsResponse(q, cursor, page)
      [] q.kind = "holdings" -> buildPortfolioHoldingsResponse(q, cursor)
      [] q.kind = "history" -> buildVaultHistoryResponse(q, cursor)

-----------------------------------------------------------------------------
(* The client. *)

NoQuery == [kind |-> "none"]

ListInit ==
    /\ size \in ListSizes
    /\ query = NoQuery /\ shown = NoPage /\ trail = << >> /\ seen = {}

Show(q, resp, newTrail, newSeen) ==
    /\ query' = q /\ shown' = resp /\ UNCHANGED size
    /\ trail' = newTrail /\ seen' = newSeen

\* The first request.  A refused date range is a 400; holdings take no range
\* and a status filter, the history a range and no type.
openList(kind, type, sortBy, desc, limit, from, to) ==
    /\ query = NoQuery
    /\ kind = "holdings" => from.kind = "none" /\ to.kind = "none"
    /\ kind = "history" => type = "all"
    /\ LET range == parseUtcDateRange(from, to)
           q == [kind |-> kind, type |-> type, sortBy |-> sortBy, desc |-> desc,
                 limit |-> parsePaginationQuery(limit), range |-> range,
                 from |-> from, to |-> to]
       IN IF range = << >> THEN Show(q, BadRange, << >>, {})
          ELSE LET r == Answer(q, 0, 0) IN Show(q, r, r.data, Range(r.data))

Browsing == query # NoQuery /\ shown.ok

nextPage ==
    /\ Browsing /\ shown.next # 0
    /\ LET r == Answer(query, shown.next, 0)
       IN Show(query, r, IF trail = << >> THEN << >> ELSE trail \o r.data, seen \union Range(r.data))

\* trail ends here: from now on the client has moved both ways.
prevPage ==
    /\ Browsing /\ shown.prev # 0
    /\ LET r == Answer(query, shown.prev, 0)
       IN Show(query, r, << >>, seen \union Range(r.data))

\* The client changes the filter and keeps the cursor: a row the new filter
\* leaves out is no position, and the page is empty.
refilter(type) ==
    /\ Browsing /\ query.kind # "history" /\ shown.next # 0 /\ type # query.type
    /\ LET q == [query EXCEPT !.type = type]
           r == Answer(q, shown.next, 0)
       IN Show(q, r, << >>, Range(r.data))

\* Page numbers, for transactions only.
jumpTo(page) ==
    /\ Browsing /\ query.kind = "transactions"
    /\ LET r == Answer(query, 0, page) IN Show(query, r, << >>, Range(r.data))

ListNext ==
    \/ \E kind \in {"transactions", "holdings", "history"}, type \in {"all", "deposit"},
          sortBy \in {"timestamp", "type"}, desc \in BOOLEAN,
          limit \in LimitArgs, from \in Boundaries, to \in Boundaries :
          openList(kind, type, sortBy, desc, limit, from, to)
    \/ nextPage \/ prevPage
    \/ \E type \in {"all", "deposit"} : refilter(type)
    \/ \E page \in 1..3 : jumpTo(page)

-----------------------------------------------------------------------------
(* Properties. *)

ListTypeOK ==
    /\ size \in ListSizes /\ seen \subseteq 1..size
    /\ (Browsing => Len(shown.data) <= query.limit)

\* What the client is listing, in order.
Listed ==
    LET rows == CASE query.kind = "transactions" -> filterTransactions(Rows, query.type, query.range)
                  [] query.kind = "holdings" -> filterPortfolioHoldings(Rows, query.type)
                  [] query.kind = "history" -> filterVaultHistory(Rows, query.range)
    IN sortItems(rows, query.sortBy, query.desc)

\* paginateWithCursor: a client that only follows nextCursor has been shown a
\* prefix of the list, each row once, and all of it when there is no next
\* cursor; ties of the sort field do not disturb it.
ForwardIsPrefix ==
    Browsing /\ trail # << >> =>
        /\ IsPrefix(trail, Listed)
        /\ (shown.next = 0 => trail = Listed)

\* paginateWithCursor: whichever way the client pages, it passes over no row.
\* (prevCursor leads from the second page to the second row, not the first.)
NothingPassedOver ==
    Browsing => LET all == Listed
                IN \E i, j \in 0..Len(all) : seen = {all[k] : k \in (i + 1)..j}
=============================================================================
