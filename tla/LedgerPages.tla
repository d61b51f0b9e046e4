---------------------------- MODULE LedgerPages ----------------------------
(***************************************************************************)
(* The ledger with a client that walks it page by page, most recent first, *)
(* while other callers write: GET /entries?limit=n&cursor=... until a page *)
(* comes back short.  The properties of the ledger are stated here.        *)
(***************************************************************************)
EXTENDS Ledger, Listing

CONSTANT PageLimit   \* entries a client asks for at a time

(* The handler ignores a limit that is not positive.                       *)
ASSUME PageLimitAssumption == PageLimit \in Nat \ {0}

VARIABLES walk,      \* where the client is, and what it has been shown
          steady     \* history: ids that have not been written since it began

vars == <<ledgerVars, walk, steady>>

PagesInit == /\ Init
             /\ walk = [at |-> "before", cursor |-> Nobody, seen |-> <<>>]
             /\ steady = {}

IdsOf(view) == {i.row.id : i \in view}

(* Entries that a write replaced, moved, added or removed.                 *)
Touched(t, u) == IdsOf((t \ u) \cup (u \ t))

LedgerStep == /\ Next
              /\ steady' = steady \ Touched(table, table')
              /\ UNCHANGED walk

(* EntriesHandler.List with a limit and a cursor.                          *)
NextPage == \E view \in IndexViews :
    LET page == ListEntries(view, [AnyEntry EXCEPT !.limit = PageLimit,
                                                   !.cursor = walk.cursor])
        full == Len(page) = PageLimit
    IN  /\ walk.at \in {"before", "open"}
        /\ walk' = [at     |-> IF full THEN "open" ELSE "done",
                    cursor |-> IF full THEN NextCursor(page) ELSE walk.cursor,
                    seen   |-> walk.seen \o [k \in 1..Len(page) |-> page[k].id]]
        /\ steady' = IF walk.at = "before" THEN IdsOf(table \cap lagging) ELSE steady
        /\ UNCHANGED ledgerVars

PagesNext == LedgerStep \/ NextPage

PagesSpec == PagesInit /\ [][PagesNext]_vars

-----------------------------------------------------------------------------
Entry == [id : 1..MaxIds, date : Days, due : Days \cup {Nobody},
          pay : Days \cup {Nobody}, amount : Amounts, type : Types,
          origin : Origins \cup {Nobody}, status : Statuses,
          method : Methods \cup {Nobody}]

(* The empty string is neither an entry nor a key of the index.            *)
ASSUME NobodyAssumption == /\ Nobody \notin Entry
                           /\ Nobody \notin Days \X (1..MaxIds)

(* What the fields of a patch bring with them (Normalize, apply).          *)
Implied(named) == named \cup (IF "status" \in named THEN {"pay", "method"} ELSE {})
                        \cup (IF "type" \in named THEN {"origin"} ELSE {})

(* What a call keeps: nothing, the id it did not find, or what it read and *)
(* what it will write.                                                     *)
Call == {Idle} \cup [at : {"missed"}, id : 1..ids]
               \cup [at : {"write"}, named : SUBSET PatchFields,
                     prev : Entry, next : Entry]

(* The shape of the state.                                                 *)
TypeOK ==
    /\ \A i \in table \cup lagging : i.row \in Entry /\ i = EntryToItem(i.row)
    /\ calls \in [Callers -> Call]
    /\ ids \in 0..MaxIds
    /\ gone \subseteq 1..ids
    /\ made \in 0..MaxCalls

(* Whatever the order of edits that move an entry to another date, of      *)
(* stale reads and of deletions, no entry is ever in the table under two   *)
(* dates (the transaction of UpdateEntry).                                 *)
OneRowPerId == \A i, j \in table : i.row.id = j.row.id => i = j

(* An edit that read an entry before it was deleted does not bring it      *)
(* back (the conditions on both writes of UpdateEntry).                    *)
DeletedStaysDeleted == \A i \in table : i.row.id \notin gone

(* Every stored row can be read, and is already what a read makes of it:   *)
(* one row that cannot would fail every listing of the ledger, and one     *)
(* that reads differently would be in the wrong index (itemToEntry).       *)
EveryRowReads == \A i \in table \cup lagging : /\ Readable(i)
                                             /\ EntryToItem(ItemToEntry(i)) = i

(* No row has an id that was not drawn, so the next one is free.           *)
IdsAreDrawn == \A i \in table \cup lagging : i.row.id \in 1..ids

(* A call between its read and its write holds two versions of one entry,  *)
(* the later one as it will be stored, and they differ in the fields the   *)
(* patch named and what follows from them.                                 *)
EditsKeepTheEntry ==
    \A c \in Callers :
        calls[c].at = "write" =>
            /\ calls[c].prev.id = calls[c].next.id
            /\ calls[c].prev.id \in 1..ids
            /\ Normalize(calls[c].next) = calls[c].next
            /\ \A f \in DOMAIN calls[c].prev \ Implied(calls[c].named) :
                  calls[c].next[f] = calls[c].prev[f]

(* The table is sound: one readable row for each entry that lives.         *)
TableInv == /\ TypeOK
            /\ OneRowPerId
            /\ DeletedStaysDeleted
            /\ EveryRowReads
            /\ IdsAreDrawn
            /\ EditsKeepTheEntry

(* An edit changes the fields it was asked to change, what follows from    *)
(* them and nothing else, "Só os campos informados são alterados", unless  *)
(* the entry was written between its read and its write: the row is put    *)
(* back whole, so what that other write had set is lost.                   *)
FieldsAreLostToConcurrencyOnly ==
    [][\A c \in Callers :
         /\ calls[c].at = "write"
         /\ calls'[c] = Idle
         /\ table' # table
         => \A i \in table, j \in table' :
              i.row = calls[c].prev /\ j.row.id = i.row.id
                => \A f \in DOMAIN i.row \ Implied(calls[c].named) :
                      j.row[f] = i.row[f]]_vars

(* Paging loses and repeats nothing: an entry that nobody touched during   *)
(* the walk is shown exactly once, however many entries share its date and *)
(* whatever happens to the others (the cursor on the index key).           *)
PagesShowOnce ==
    \A id \in steady :
        LET shown == {k \in 1..Len(walk.seen) : walk.seen[k] = id}
        IN  /\ Cardinality(shown) <= 1
            /\ walk.at = "done" => Cardinality(shown) = 1

(* A day or all of them on any basis, or a page from a cursor.             *)
OnDay(b, d, t) == [AnyEntry EXCEPT !.basis = b, !.from = d, !.to = d, !.type = t]
After(k, s, n) == [AnyEntry EXCEPT !.cursor = k, !.status = s, !.limit = n]

Filters == {OnDay(b, d, t) : b \in Bases, d \in Days \cup {Nobody}, t \in {Nobody, "income"}}
           \cup {After(k, s, n) : k \in {Nobody} \cup {i.gsi2 : i \in table},
                                 s \in {Nobody, "pending"}, n \in {0, PageLimit}}

(* Both stores answer a listing of one day, of everything or from a cursor *)
(* alike (EntryFilter, lessByBasis): the index of the date basis finds the *)
(* same entries in the same order as a test of every entry.  A cursor      *)
(* together with a range is left out, for there the stores differ: the     *)
(* index drops the range (dynamodb_entries.go:320), the scan keeps it      *)
(* (inmemory.go:109-129).  Paging writes nothing, so it is enough to look  *)
(* before it begins.                                                       *)
StoresAgree ==
    walk.at = "before" =>
        \A f \in Filters :
            ValidFilter(f) /\ ListEntries(table, f) = MemoryListEntries({i.row : i \in table}, f)

(* The ledger implements its promise.                                      *)
Book == INSTANCE LedgerBook WITH
            Ids   <- 1..MaxIds,
            drawn <- ids,
            book  <- [id \in 1..MaxIds |->
                        IF \E i \in table : i.row.id = id
                        THEN (CHOOSE i \in table : i.row.id = id).row
                        ELSE Nobody]

ImplementsBook == Book!BookSpec
=============================================================================
