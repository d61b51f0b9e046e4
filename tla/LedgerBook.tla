----------------------------- MODULE LedgerBook -----------------------------
(***************************************************************************)
(* What the ledger promises: an entry under every id that was created and  *)
(* not deleted, at most one of them, always a complete and valid one.      *)
(* This is the in-memory store (packages/finance/inmemory.go), whose map   *)
(* is keyed by the id alone: keys that move with the date, indexes,        *)
(* callers and stale reads do not exist at this level.                     *)
(***************************************************************************)
EXTENDS Entries

CONSTANT Ids

VARIABLES book,    \* book[id]: the entry, or Nobody
          drawn    \* ids that were ever given out, in order

bookVars == <<book, drawn>>

BookInit == /\ book = [id \in Ids |-> Nobody]
            /\ drawn = 0

Proper(e, id) == e # Nobody /\ e.id = id /\ Valid(e) /\ Normalize(e) = e

(* InMemoryStore.SaveEntry.                                                *)
Add(id, e) == /\ id = drawn + 1
              /\ Proper(e, id)
              /\ drawn' = id
              /\ book' = [book EXCEPT ![id] = e]

(* InMemoryStore.UpdateEntry, for a previous that is where the map has it. *)
Replace(id, e) == /\ book[id] # Nobody
                  /\ Proper(e, id)
                  /\ book' = [book EXCEPT ![id] = e]
                  /\ UNCHANGED drawn

(* InMemoryStore.DeleteEntry.                                              *)
Strike(id) == /\ book[id] # Nobody
              /\ book' = [book EXCEPT ![id] = Nobody]
              /\ UNCHANGED drawn

BookNext == \E id \in Ids : \/ Add(id, book'[id])
                            \/ Replace(id, book'[id])
                            \/ Strike(id)

BookSpec == BookInit /\ [][BookNext]_bookVars
=============================================================================
