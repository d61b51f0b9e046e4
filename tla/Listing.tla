------------------------------ MODULE Listing ------------------------------
(***************************************************************************)
(* ListEntries of both stores: the DynamoDB store turns a filter into a    *)
(* key condition on the index of the date basis, a filter expression and a *)
(* reading direction, and reads page by page; the in-memory store tests    *)
(* every entry of its map.  A filter is a record in which Nobody is a      *)
(* field that was left out; a limit of 0 is no limit.                      *)
(***************************************************************************)
EXTENDS Entries, Orders, SequencesExt

CONSTANT PageSize   \* items DynamoDB returns in one page

ASSUME PageSizeAssumption == PageSize \in Nat \ {0}

AnyEntry == [basis |-> "effective", from |-> Nobody, to |-> Nobody, cursor |-> Nobody,
             type |-> Nobody, status |-> Nobody, origin |-> Nobody, limit |-> 0]

(* EntryFilter.Validate: cursor and limit need the effective-date order.   *)
ValidFilter(f) == f.basis # "effective" => f.cursor = Nobody /\ f.limit = 0

(* The filter expression, the same test in both stores.                    *)
Matches(f, e) == /\ f.type   # Nobody => e.type = f.type
                 /\ f.status # Nobody => e.status = f.status
                 /\ f.origin # Nobody => e.origin = f.origin

KeyLess(k, l) == k[1] < l[1] \/ (k[1] = l[1] /\ k[2] < l[2])

InRange(day, f) == /\ f.from # Nobody => day >= f.from
                   /\ f.to   # Nobody => day <= f.to

(* The order both stores return: most recent first, ties by descending id. *)
LessByBasis(b, x, y) == KeyLess(<<BasisDate(b, y), y.id>>, <<BasisDate(b, x), x.id>>)

Cut(s, n) == IF n > 0 /\ Len(s) > n THEN SubSeq(s, 1, n) ELSE s

Sorted(S, b) == InOrder(S, LAMBDA x, y : LessByBasis(b, x, y))

-----------------------------------------------------------------------------
(* The DynamoDB store.                                                     *)

(* basisKeys: the sort key the items of a basis are ordered by.            *)
IndexKey(b, i) == CASE b = "payment"     -> i.gsi1
                    [] b = "transaction" -> i.sk
                    [] b = "effective"   -> i.gsi2

(* Broken variant of KeyCondition: the last day's key has an id behind it. *)
KeyConditionBare(f, key) ==
    IF f.cursor # Nobody THEN KeyLess(key, f.cursor)
    ELSE InRange(key[1], f) /\ (f.to # Nobody => key[1] < f.to)

(* listEntriesInput: a cursor takes priority over a date range.            *)
KeyCondition(f, key) ==
    IF f.cursor # Nobody THEN KeyLess(key, f.cursor) ELSE InRange(key[1], f)

(* The paginator: whole pages, newest first when there is a limit, until   *)
(* one page brings the matches to the limit.                               *)
Query(view, f) ==
    LET hits  == {i \in view : /\ IndexKey(f.basis, i) # Nobody
                               /\ KeyCondition(f, IndexKey(f.basis, i))}
        items == InOrder(hits, LAMBDA i, j :
                    IF f.limit > 0
                    THEN KeyLess(IndexKey(f.basis, j), IndexKey(f.basis, i))
                    ELSE KeyLess(IndexKey(f.basis, i), IndexKey(f.basis, j)))
        Read(n)  == {items[k].row : k \in {m \in 1..Len(items) :
                        m <= n * PageSize /\ Matches(f, items[m].row)}}
        Enough(n) == \/ n * PageSize >= Len(items)
                     \/ f.limit > 0 /\ Cardinality(Read(n)) >= f.limit
    IN  Read(CHOOSE n \in 0..Len(items) + 1 :
                 n > 0 /\ Enough(n) /\ \A m \in 1..(n - 1) : ~Enough(m))

ListEntries(view, f) ==
    Cut(Sorted({Normalize(e) : e \in Query(view, f)}, f.basis), f.limit)

-----------------------------------------------------------------------------
(* The in-memory store, over the set of entries its map holds.             *)
MemoryListEntries(entries, f) ==
    Cut(Sorted({e \in entries :
                  /\ f.cursor # Nobody => KeyLess(<<EffectiveDate(e), e.id>>, f.cursor)
                  /\ BasisDate(f.basis, e) # Nobody
                  /\ InRange(BasisDate(f.basis, e), f)
                  /\ Matches(f, e)}, f.basis), f.limit)

(* Broken variant of NextCursor: pages by day.                             *)
NextCursorByDay(page) == <<EffectiveDate(Last(page)), 0>>

(* The cursor of the next page: the place of the last entry that was read. *)
NextCursor(page) == <<EffectiveDate(Last(page)), Last(page).id>>
=============================================================================
