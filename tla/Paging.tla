------------------------------- MODULE Paging -------------------------------
(***************************************************************************)
(* What the repositories do to the list of a table: filter it and cut a    *)
(* page out of it.  A filter is given by the set of the places it keeps.   *)
(***************************************************************************)
EXTENDS Integers, Sequences, FiniteSets

\* The k-th of a set of places, in ascending order.
Nth(places, k) == CHOOSE i \in places : Cardinality({j \in places : j <= i}) = k

\* [item for item in s if ...]: the elements of s at these places, in order.
Only(s, places) == [k \in 1 .. Cardinality(places) |-> s[Nth(places, k)]]

\* Mutant: the slice ends one element late.
SliceLate(s, limit, offset) == SubSeq(s, offset + 1, IF offset + limit < Len(s) THEN offset + limit + 1 ELSE Len(s))

\* items[offset : offset + limit], or OFFSET and LIMIT of a query.
Slice(s, limit, offset) == SubSeq(s, offset + 1, IF offset + limit < Len(s) THEN offset + limit ELSE Len(s))

\* The pages, put one after the other, are s: page p is what s holds between
\* the places cut[p - 1] and cut[p].
Concatenate(pages, s) ==
    \E cut \in [0 .. Len(pages) -> 0 .. Len(s)] :
        /\ cut[0] = 0 /\ cut[Len(pages)] = Len(s)
        /\ \A p \in 1 .. Len(pages) :
              cut[p - 1] <= cut[p] /\ pages[p] = SubSeq(s, cut[p - 1] + 1, cut[p])
=============================================================================
