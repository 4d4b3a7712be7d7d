---------------------------- MODULE ChangeBuilder ----------------------------
(***************************************************************************)
(* CollectionChangeBuilder: the deletions (positions in the old            *)
(* collection), insertions and modifications (positions in the new one)    *)
(* and moves that lead from one version of a collection to a later one.    *)
(* They are recorded one operation at a time for a list, calculated from   *)
(* the two sequences of rows for a query, and merged over transactions.    *)
(*                                                                         *)
(* A collection is a sequence of rows. Positions count from 1. The         *)
(* modifications are kept for all columns together and for column "x".     *)
(***************************************************************************)
EXTENDS IndexOps, Sequences, SequencesExt

Columns == {"all", "x"}
NoColumns == [c \in Columns |-> {}]
EmptyChange == [deletions |-> {}, insertions |-> {}, modified |-> NoColumns, moves |-> <<>>]
IsEmpty(b) ==
    b.deletions = {} /\ b.insertions = {} /\ b.modified["all"] = {} /\ b.moves = <<>>

\* Something done to the modifications of every column.
ForEachCol(b, F(_)) == [c \in Columns |-> F(b.modified[c])]

-----------------------------------------------------------------------------
(* Recording the operations of a list.                                     *)

RecordInsert(b, index, count) ==
    LET inserted == Block(index, count)
        Later(m) == IF m.to >= index THEN [m EXCEPT !.to = @ + count] ELSE m
    IN  [b EXCEPT !.modified = ForEachCol(b, LAMBDA s : AfterInsert(s, inserted)),
                  !.insertions = AfterInsert(@, inserted) \cup inserted,
                  !.moves = [i \in DOMAIN @ |-> Later(@[i])]]

RecordModify(b, index, column) ==
    [b EXCEPT !.modified = [c \in Columns |-> IF c \in {"all", column} THEN @[c] \cup {index}
                                              ELSE @[c]]]

\* A deleted row is not reported if it was inserted since.
RecordErase(b, index) ==
    LET unshifted == Unshifted(b.insertions, index)
        kept == SelectSeq(b.moves, LAMBDA m : m.to # index)
        Earlier(m) == IF m.to > index THEN [m EXCEPT !.to = @ - 1] ELSE m
    IN  [b EXCEPT !.modified = ForEachCol(b, LAMBDA s : AfterErase(s, {index})),
                  !.insertions = AfterErase(@, {index}),
                  !.deletions = IF index \in b.insertions THEN @
                                ELSE @ \cup {Shifted(@, unshifted)},
                  !.moves = [i \in DOMAIN kept |-> Earlier(kept[i])]]

RecordClear(b, size) ==
    [EmptyChange EXCEPT !.deletions =
        1..(size + Cardinality(b.deletions) - Cardinality(b.insertions))]

\* A row that was moved before, or was inserted, is not reported as another move.
RecordMove(b, from, to) ==
    LET again == \E i \in DOMAIN b.moves : b.moves[i].to = from
        Passed(m) ==
            IF m.to = from THEN [m EXCEPT !.to = to]
            ELSE IF m.to >= to /\ m.to < from THEN [m EXCEPT !.to = @ + 1]
            ELSE IF m.to <= to /\ m.to > from THEN [m EXCEPT !.to = @ - 1]
            ELSE m
        others  == [i \in DOMAIN b.moves |-> Passed(b.moves[i])]
        source  == Shifted(b.deletions, Unshifted(b.insertions, from))
        isNew   == ~again /\ from \notin b.insertions
        Moved(s) == AfterInsert(AfterErase(s, {from}), {to}) \cup (IF from \in s THEN {to} ELSE {})
    IN  [deletions  |-> IF isNew THEN b.deletions \cup {source} ELSE b.deletions,
         insertions |-> AfterInsert(AfterErase(b.insertions, {from}), {to}) \cup {to},
         modified   |-> ForEachCol(b, Moved),
         moves      |-> IF isNew THEN Append(others, [from |-> source, to |-> to]) ELSE others]

-----------------------------------------------------------------------------
(* Merging.                                                                *)

\* Moves that other changes have undone are dropped with their insertion and deletion.
CleanUpStaleMoves(b) ==
    LET Clean(x, m) ==
            IF Unshifted(x.deletions, m.from) # Unshifted(x.insertions, m.to)
            THEN [x EXCEPT !.moves = Append(@, m)]
            ELSE [x EXCEPT !.deletions = @ \ {m.from}, !.insertions = @ \ {m.to}]
    IN  FoldLeft(Clean, [b EXCEPT !.moves = <<>>], b.moves)

\* The earlier moves of b after the changes c: moved again, deleted or shifted. A move of
\* c that continues one of b is taken out of c.
UpdateOldMoves(b, c) ==
    LET Update(x, old) ==
            LET next  == {i \in DOMAIN x.c.moves : x.c.moves[i].from = old.to}
                i     == CHOOSE n \in next : \A k \in next : n <= k
                m     == x.c.moves[i]
                last  == Last(x.c.moves)
                rest  == Front([x.c.moves EXCEPT ![i] = last])
            IN  IF next # {}
                THEN [moves |-> Append(x.moves, [old EXCEPT !.to = m.to]),
                      c |-> [x.c EXCEPT !.moves = rest,
                                        !.modified = [k \in Columns |-> @[k] \cup
                                            IF m.from \in b.modified[k] THEN {m.to} ELSE {}]]]
                ELSE IF old.to \in x.c.deletions THEN x
                ELSE [x EXCEPT !.moves = Append(@, [old EXCEPT !.to =
                           Shifted(x.c.insertions, Unshifted(x.c.deletions, old.to))])]
    IN  FoldLeft(Update, [moves |-> <<>>, c |-> c], b.moves)

\* Variant for the mutation check: what was modified before is forgotten by a move.
MergeForgettingMoved(b, c) ==
    [deletions  |-> AddedShifted(b.deletions, b.insertions, c.deletions),
     insertions |-> AfterInsert(AfterErase(b.insertions, c.deletions), c.insertions)
                        \cup c.insertions,
     modified   |-> c.modified,
     moves      |-> b.moves \o c.moves]

Merge(b, c) ==
    LET u     == UpdateOldMoves(b, c)
        new   == SelectSeq(u.c.moves, LAMBDA m : m.from \notin b.insertions)
        carried(k) == {new[i].to : i \in {n \in DOMAIN new : new[n].from \in b.modified[k]}}
        From(m) == [m EXCEPT !.from = Shifted(b.deletions, Unshifted(b.insertions, @))]
        all   == [deletions  |-> AddedShifted(b.deletions, b.insertions, c.deletions),
                  insertions |-> AfterInsert(AfterErase(b.insertions, c.deletions), c.insertions)
                                     \cup c.insertions,
                  modified   |-> b.modified,
                  moves      |-> u.moves \o [i \in DOMAIN new |-> From(new[i])]]
    IN  IF IsEmpty(c) THEN b
        ELSE IF IsEmpty(b) THEN c
        ELSE [CleanUpStaleMoves(all) EXCEPT !.modified = [k \in Columns |->
                 AfterInsert(AfterErase(b.modified[k], c.deletions), c.insertions)
                    \cup u.c.modified[k] \cup carried(k)]]

\* finalize(): modifications in the old collection too, and none of inserted rows.
ModificationsInOld(b) == AfterInsert(AfterErase(b.modified["all"], b.insertions), b.deletions)
ModificationsInNew(b) == b.modified["all"] \ b.insertions

-----------------------------------------------------------------------------
(* Calculating the changes between two sequences of rows.                  *)

\* Pairs <<old, new>> of positions of the same row, in the order of the new ones. The
\* n-th occurrence of a key is the same row as the n-th one before.
Occurrence(s, i) == Cardinality({j \in 1..i : s[j] = s[i]})
SameRow(old, new) ==
    {<<i, j>> \in (DOMAIN old) \X (DOMAIN new) :
        old[i] = new[j] /\ Occurrence(old, i) = Occurrence(new, j)}
InNewOrder(pairs) == SetToSortSeq(pairs, LAMBDA p, q : p[2] < q[2])
InOldOrder(pairs) == SetToSortSeq(pairs, LAMBDA p, q : p[1] < q[1])

\* find_longest_match: the longest block common to a[i1..e1 - 1] and b[i2..e2 - 1]; of
\* two as long, the one found later if fewer of its rows are modified.
FindLongestMatch(a, b, modified, i1, e1, i2, e2) ==
    LET Ending(i, j) ==
            CHOOSE k \in 0..(e1 - i1) :
                /\ k <= i - i1 + 1 /\ k <= j - i2 + 1
                /\ \A t \in 0..(k - 1) : a[i - t] = b[j - t]
                /\ (k = i - i1 + 1 \/ k = j - i2 + 1 \/ a[i - k] # b[j - k])
        CountModified(lo, hi) == IF lo < 1 THEN 0 ELSE Cardinality(modified \cap (lo..hi))
        matches == SetToSortSeq({<<i, j>> \in (i1..(e1 - 1)) \X (i2..(e2 - 1)) : a[i] = b[j]},
                                LAMBDA p, q : p[1] < q[1] \/ (p[1] = q[1] /\ p[2] < q[2]))
        Better(best, m) ==
            LET size == Ending(m[1], m[2])
                new  == [i |-> m[1] - size + 1, j |-> m[2] - size + 1, size |-> size,
                         modified |-> 0 - 1]
                bestCount == IF best.modified # 0 - 1 THEN best.modified
                             ELSE CountModified(best.j - size + 1, best.j)
                count == CountModified(m[2] - size + 1, m[2])
            IN  IF size > best.size THEN new
                ELSE IF size < best.size THEN best
                ELSE IF count < bestCount THEN [new EXCEPT !.modified = count]
                ELSE [best EXCEPT !.modified = bestCount]
    IN  FoldLeft(Better, [i |-> i1, j |-> i2, size |-> 0, modified |-> 0], matches)

RECURSIVE FindLongestMatches(_, _, _, _, _, _, _)
FindLongestMatches(a, b, modified, i1, e1, i2, e2) ==
    LET m == FindLongestMatch(a, b, modified, i1, e1, i2, e2)
    IN  IF m.size = 0 THEN <<>>
        ELSE (IF m.i > i1 /\ m.j > i2
              THEN FindLongestMatches(a, b, modified, i1, m.i, i2, m.j) ELSE <<>>)
             \o <<m>> \o
             (IF m.i + m.size < e2 /\ m.j + m.size < e2
              THEN FindLongestMatches(a, b, modified, m.i + m.size, e1, m.j + m.size, e2)
              ELSE <<>>)

\* calculate_moves_sorted: rows outside the common blocks are deleted and inserted.
CalculateMovesSorted(pairs, old, change) ==
    LET p  == InOldOrder(pairs)
        q  == InNewOrder(pairs)
        a  == [i \in DOMAIN p |-> old[p[i][1]]]
        b  == [i \in DOMAIN q |-> old[q[i][1]]]
        differ == {i \in DOMAIN p : a[i] # b[i]}
        first  == CHOOSE i \in differ : \A j \in differ : i <= j
        ms == FindLongestMatches(a, b, change.modified["all"], first, Len(a) + 1, first, Len(b) + 1)
        common1 == UNION {m.i..(m.i + m.size - 1) : m \in ToSet(ms)}
        common2 == UNION {m.j..(m.j + m.size - 1) : m \in ToSet(ms)}
    IN  IF differ = {} THEN change
        ELSE [change EXCEPT !.deletions = @ \cup {p[i][1] : i \in (first..Len(p)) \ common1},
                            !.insertions = @ \cup {q[j][2] : j \in (first..Len(q)) \ common2}]

\* Variant for the mutation check: rows that changed places are not looked for.
CalculateInTableOrder(old, new, changed, inTableOrder) ==
    LET pairs == SameRow(old, new)
    IN  [EmptyChange EXCEPT
            !.deletions = {i \in DOMAIN old : \A p \in pairs : p[1] # i},
            !.insertions = {j \in DOMAIN new : \A p \in pairs : p[2] # j},
            !.modified["all"] = {p[2] : p \in {r \in pairs : old[r[1]] \in changed}}]

Calculate(old, new, changed, inTableOrder) ==
    LET pairs == SameRow(old, new)
        base  == [EmptyChange EXCEPT
                     !.deletions = {i \in DOMAIN old : \A p \in pairs : p[1] # i},
                     !.insertions = {j \in DOMAIN new : \A p \in pairs : p[2] # j},
                     !.modified["all"] = {p[2] : p \in {r \in pairs : old[r[1]] \in changed}}]
    IN  IF inTableOrder THEN base ELSE CalculateMovesSorted(pairs, old, base)

-----------------------------------------------------------------------------
(* Key-value observers of a list are told one kind of change, by the       *)
(* positions it is about, or that everything was set.                      *)

\* Variant for the mutation check: only the moved rows themselves are set.
ShiftedByMovesAlone(b) == b.insertions

\* The rows between moved ones that did not end up where they were.
ShiftedByMoves(b) ==
    LET touched == b.deletions \cup b.insertions
        first == CHOOSE i \in touched : \A j \in touched : i <= j
        last  == CHOOSE i \in touched : \A j \in touched : i >= j
        shift[i \in (first - 1)..last] ==
            IF i < first THEN 0
            ELSE IF i \in b.deletions THEN shift[i - 1] - 1
            ELSE IF i + shift[i - 1] \in b.insertions THEN shift[i - 1] + 1
            ELSE shift[i - 1]
    IN  {i \in first..last : shift[i] # 0}

KvoChange(b) ==
    LET mods  == b.modified["all"] \ b.insertions
        moves == Len(b.moves)
        several == Cardinality({i \in 1..3 : <<b.insertions, mods, b.deletions>>[i] # {}}) > 1
    IN  IF IsEmpty(b) THEN [kind |-> "none", indices |-> {}]
        ELSE IF moves > 0 /\ Cardinality(b.insertions) = moves /\ Cardinality(b.deletions) = moves
        THEN [kind |-> "Set", indices |-> mods \cup b.deletions \cup ShiftedByMoves(b)]
        ELSE IF several THEN [kind |-> "SetAll", indices |-> {}]
        ELSE IF b.insertions # {} THEN [kind |-> "Insert", indices |-> b.insertions]
        ELSE IF mods # {} THEN [kind |-> "Set", indices |-> mods]
        ELSE [kind |-> "Remove", indices |-> b.deletions]

-----------------------------------------------------------------------------
\* Applying changes to the old rows, with the inserted rows taken from the new ones.
Kept(b, n) == (1..n) \ b.deletions
Replay(b, old, new) ==
    /\ b.deletions \subseteq DOMAIN old
    /\ b.insertions \subseteq DOMAIN new
    /\ Len(new) = Len(old) - Cardinality(b.deletions) + Cardinality(b.insertions)
    /\ \A i \in Kept(b, Len(old)) :
           new[Shifted(b.insertions, Unshifted(b.deletions, i))] = old[i]
    /\ \A i \in DOMAIN b.moves :
           /\ b.moves[i].from \in b.deletions
           /\ b.moves[i].to \in b.insertions
           /\ old[b.moves[i].from] = new[b.moves[i].to]

=============================================================================
