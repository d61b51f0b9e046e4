------------------------------- MODULE Table -------------------------------
(***************************************************************************)
(* One DynamoDB table, as the stores use it and as the repository's own    *)
(* fake of it behaves (packages/dynamostore/dynamotest).  A table is a set *)
(* of items with at most one item under a primary key.  Attributes are the *)
(* fields of an item and `sk' is its key; the partition key is always the  *)
(* user and is left out.  An item is in an index when it has the index's   *)
(* key attribute, that is when the field is not Absent.                    *)
(*                                                                         *)
(* A request either applies as a whole or leaves the table alone.  The     *)
(* conditions the code writes are all of the form "an item is there".      *)
(***************************************************************************)
CONSTANT Absent

ItemsAt(t, key) == {i \in t : i.sk = key}

Exists(t, key) == ItemsAt(t, key) # {}

(* PutItem without a condition: replaces whatever was under the key.       *)
PutItem(t, item) == (t \ ItemsAt(t, item.sk)) \cup {item}

(* DeleteItem: idempotent, so the callers that must know add a condition.  *)
DeleteItem(t, key) == t \ ItemsAt(t, key)

(* TransactWriteItems.  Every condition is evaluated against the table as  *)
(* it is before the transaction; an item may be named once only.           *)
TransactionHolds(t, deletes, puts, mustExist) ==
    /\ \A key \in mustExist : Exists(t, key)
    /\ \A p \in puts : p.sk \notin deletes
    /\ \A p, q \in puts : p.sk = q.sk => p = q

(* Broken variant of TransactWriteItems: the puts are applied and the       *)
(* deletes are not.                                                        *)
TransactHalf(t, deletes, puts) ==
    {i \in t : \A p \in puts : p.sk # i.sk} \cup puts

TransactWriteItems(t, deletes, puts) ==
    {i \in t : i.sk \notin deletes /\ \A p \in puts : p.sk # i.sk} \cup puts

(* Which items a query of an index reads.  `index' is the field that holds *)
(* the index's sort key; a sparse index simply lacks some items.           *)
InIndex(t, index) == {i \in t : i[index] # Absent}
=============================================================================
