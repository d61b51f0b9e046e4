------------------------------- MODULE Orders -------------------------------
(***************************************************************************)
(* The elements of a finite set, one after the other: what a query of a    *)
(* sorted index returns and what sort.Slice leaves.  Elements that neither *)
(* comes before the other are in any order.                                *)
(***************************************************************************)
EXTENDS Integers, FiniteSets

InOrder(S, Before(_, _)) ==
    CHOOSE s \in [1 .. Cardinality(S) -> S] :
        \A i, j \in 1 .. Cardinality(S) :
            i < j => s[i] # s[j] /\ ~Before(s[j], s[i])
=============================================================================
