---------------------------- MODULE IndexSetSpec ----------------------------
(***************************************************************************)
(* What IndexSet promises, in terms of plain sets of indexes: what each    *)
(* call makes of the set and what it returns. `call` is the call being     *)
(* made, with its arguments and its result.                                *)
(***************************************************************************)
EXTENDS IndexOps

CONSTANTS
    Universe,     \* the indexes the set may hold: 0..n
    Operands      \* sets of indexes given as arguments

VARIABLES set, call

NPos == 0 - 1

\* The name and the argument come first: they settle most comparisons.
Becomes(s, name, arg, result) ==
    /\ call'.name = name
    /\ call'.arg = arg
    /\ call' = [name |-> name, arg |-> arg, result |-> result]
    /\ set' = s

NoCall == [name |-> "none"]
Init == set = {} /\ call = NoCall

OnIndex(i) ==
    \/ Becomes(set \cup {i}, "add", i, 0)
    \/ Becomes(set \cup {Shifted(set, i)}, "add_shifted", i, Shifted(set, i))
    \/ Becomes(Block(0, i), "set", i, 0)
    \/ Becomes(AfterErase(set, {i}), "erase_at", i, 0)
    \/ Becomes(AfterErase(set, {i}), "erase_or_unshift", i,
               IF i \in set THEN NPos ELSE Unshifted(set, i))
    \/ Becomes(set, "contains", i, i \in set)
    \/ Becomes(set, "shift", i, Shifted(set, i))
    \/ i \notin set /\ Becomes(set, "unshift", i, Unshifted(set, i))

\* count from 0 is exact; from elsewhere it may leave out the range that the end falls
\* into, from e on.
Counts(i, e, end) ==
    /\ e..(end - 1) \subseteq set
    /\ i = 0 => e = end
    /\ Becomes(set, "count", <<i, end>>, Cardinality(set \cap (i..(e - 1))))

OnBlock(i, n) ==
    \/ Becomes(AfterInsert(set, Block(i, n)) \cup Block(i, n), "insert_at", <<i, n>>, 0)
    \/ Becomes(AfterInsert(set, Block(i, n)), "shift_for_insert_at", <<i, n>>, 0)
    \/ Becomes(set \ Block(i, n), "remove", <<i, n>>, 0)
    \/ \E e \in i..(i + n) : Counts(i, e, i + n)

OnSet(s) ==
    \/ Becomes(set \cup s, "add all", s, 0)
    \/ Becomes(AfterInsert(set, s) \cup s, "insert_at all", s, 0)
    \/ Becomes(AfterInsert(set, s), "shift_for_insert_at all", s, 0)
    \/ Becomes(AfterErase(set, s), "erase_at all", s, 0)
    \/ Becomes(set \ s, "remove all", s, 0)

Call ==
    \/ \E i \in Universe : OnIndex(i)
    \/ \E i \in Universe, n \in 1..3 : OnBlock(i, n)
    \/ \E s \in Operands : OnSet(s)
    \/ \E by, values \in Operands :
           Becomes(AddedShifted(set, by, values), "add_shifted_by", <<by, values>>, 0)

Next ==
    \/ call = NoCall /\ call' # NoCall /\ Call
    \/ call # NoCall /\ call' = NoCall /\ UNCHANGED set

Spec == Init /\ [][Next]_<<set, call>>
=============================================================================
