------------------------------ MODULE Shipments ------------------------------
(***************************************************************************)
(* Shipment tracking in the vault contract (lib.rs): a status for every    *)
(* shipment, an index of the ids of each status kept sorted, and a paged   *)
(* query over that index.  A client reads the pages of one status, one     *)
(* call each, while the admin adds and moves shipments.                    *)
(***************************************************************************)
EXTENDS Integers, Sequences, SequencesExt

CONSTANTS Ids,            \* shipment ids (u64)
          ShipmentStatus, \* Pending, InTransit, Delivered, Cancelled
          MAX_PAGE_SIZE,  \* 50 in the code
          PageSizes,      \* arguments of shipment_ids_by_status
          Absent,           \* an absent Option
          NoScan          \* the client is not reading

ASSUME ShipmentAssumption ==
    /\ Ids \subseteq Nat /\ Absent \notin Nat /\ Absent \notin ShipmentStatus
    /\ MAX_PAGE_SIZE \in Nat \ {0} /\ PageSizes \subseteq Nat

VARIABLES status_of,   \* DataKey::ShipmentStatusOf(id)
          by_status,   \* DataKey::ShipmentByStatus(status)
          scan         \* external: the client's status, cursor, ids so far,
                       \* and the ids in the status since its first call
shipmentVars == <<status_of, by_status, scan>>

ShipmentInit ==
    /\ status_of = [id \in Ids |-> Absent]
    /\ by_status = [s \in ShipmentStatus |-> << >>]
    /\ scan = NoScan

-----------------------------------------------------------------------------
\* The place of the first id above value, or the one after the last.
first_above(ids, value) ==
    LET above == {i \in 1..Len(ids) : ids[i] > value}
    IN  IF above = {} THEN Len(ids) + 1 ELSE Min(above)

insert_sorted_unique(ids, id) ==
    IF id \in Range(ids) THEN ids ELSE InsertAt(ids, first_above(ids, id), id)

\* An id is listed at most once (IndexExact), so one place is left out.
remove_id(ids, target) ==
    LET places == {i \in 1..Len(ids) : ids[i] = target}
    IN  IF places = {} THEN ids ELSE RemoveAt(ids, Min(places))

index_after_cursor(ids, cursor) ==
    IF cursor = Absent THEN 1 ELSE first_above(ids, cursor)

\* Mutant: the cursor is the first id of the next page.
next_cursor_ahead(ids, end) == IF end < Len(ids) THEN ids[end + 1] ELSE Absent

\* The cursor of a page that ends at place end.
next_cursor(ids, end) == IF end < Len(ids) THEN ids[end] ELSE Absent

-----------------------------------------------------------------------------
\* What the client may still expect of its scan after a change.
watched(new) ==
    IF scan = NoScan THEN scan
    ELSE [scan EXCEPT !.stayed = {id \in @ : new[id] = scan.status}]

add_shipment(id, status) ==
    /\ status_of[id] = Absent
    /\ by_status' = [by_status EXCEPT ![status] = insert_sorted_unique(@, id)]
    /\ status_of' = [status_of EXCEPT ![id] = status]
    /\ scan' = watched(status_of')

update_shipment_status(id, new_status) ==
    /\ status_of[id] # Absent
    /\ \/ /\ status_of[id] = new_status
          /\ UNCHANGED shipmentVars
       \/ /\ status_of[id] # new_status
          /\ by_status' = [by_status EXCEPT
                             ![status_of[id]] = remove_id(@, id),
                             ![new_status] = insert_sorted_unique(@, id)]
          /\ status_of' = [status_of EXCEPT ![id] = new_status]
          /\ scan' = watched(status_of')

\* The client asks for its next page.
shipment_ids_by_status(page_size) ==
    LET ids == by_status[scan.status]
        start == index_after_cursor(ids, scan.cursor)
        end == Min({Len(ids), start + Min({page_size, MAX_PAGE_SIZE}) - 1})
    IN /\ scan # NoScan
       /\ ~scan.done
       /\ page_size # 0
       /\ scan' = [scan EXCEPT !.got = @ \o SubSeq(ids, start, end),
                               !.cursor = next_cursor(ids, end),
                               !.done = next_cursor(ids, end) = Absent]
       /\ UNCHANGED <<status_of, by_status>>

\* The client starts reading a status from the beginning.
start_scan(status) ==
    /\ scan' = [status |-> status, cursor |-> Absent, got |-> << >>,
                stayed |-> {id \in Ids : status_of[id] = status},
                done |-> FALSE]
    /\ UNCHANGED <<status_of, by_status>>

ShipmentNext ==
    \/ \E id \in Ids, s \in ShipmentStatus :
          add_shipment(id, s) \/ update_shipment_status(id, s)
    \/ \E n \in PageSizes : shipment_ids_by_status(n)
    \/ \E s \in ShipmentStatus : start_scan(s)

ShipmentSpec == ShipmentInit /\ [][ShipmentNext]_shipmentVars

-----------------------------------------------------------------------------
(* Properties *)

ascending(ids) == \A i, j \in 1..Len(ids) : i < j => ids[i] < ids[j]

\* The index of a status lists exactly the shipments in it, in ascending order
\* and once each, after any sequence of additions and moves.
IndexExact ==
    \A s \in ShipmentStatus :
        /\ ascending(by_status[s])
        /\ Range(by_status[s]) = {id \in Ids : status_of[id] = s}

\* A finished scan returned every shipment that was in the status throughout,
\* whatever was added and moved between the pages.
ScanComplete == scan # NoScan /\ scan.done => scan.stayed \subseteq Range(scan.got)

\* A scan never returns a shipment twice.
ScanOnce == scan # NoScan => ascending(scan.got)

\* shipment_ids_by_status: the index is exact, and a client that pages through
\* a status gets every shipment that stays in it, and none twice.
ListingExact == IndexExact /\ ScanComplete /\ ScanOnce
=============================================================================
