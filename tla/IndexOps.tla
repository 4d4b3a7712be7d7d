------------------------------ MODULE IndexOps ------------------------------
(***************************************************************************)
(* Sets of positions under insertions and deletions: what the operations   *)
(* of IndexSet mean (IndexSet shows that its chunks of ranges do this).    *)
(***************************************************************************)
EXTENDS Integers, FiniteSets

\* A position after `values` were inserted, or after they were deleted.
Shifted(values, i) ==
    CHOOSE j \in i..(i + Cardinality(values)) :
        j \notin values /\ j - Cardinality({v \in values : v < j}) = i
Unshifted(values, i) == i - Cardinality({v \in values : v < i})

\* Sets whose positions move.
AfterInsert(s, values) == {Shifted(values, i) : i \in s}
AfterErase(s, values) == {Unshifted(values, i) : i \in s \ values}

\* add_shifted_by: values that were not just inserted, moved to where they were before
\* the insertions `by` and before the deletions s.
AddedShifted(s, by, values) == s \cup {Shifted(s, Unshifted(by, v)) : v \in values \ by}

Block(index, count) == index..(index + count - 1)
=============================================================================
