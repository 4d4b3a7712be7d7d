------------------------------ MODULE IndexSet ------------------------------
(***************************************************************************)
(* IndexSet: a set of indexes kept as sorted, disjoint and non-adjacent    *)
(* ranges <<first, second>>, second excluded, in chunks of at most MaxSize *)
(* ranges that cache where they begin and end and how many indexes they    *)
(* hold. A position is <<chunk, offset>>, as an iterator is.               *)
(***************************************************************************)
EXTENDS Integers, Sequences, FiniteSets, SequencesExt

CONSTANTS
    MaxSize,      \* ranges per chunk: 4 in debug builds, 256 otherwise
    IndexBound,   \* indexes are 0..IndexBound
    OperandBound  \* sets given as arguments are within 0..OperandBound

ASSUME IndexSetAssumption ==
    /\ MaxSize \in Nat \ {0} /\ MaxSize % 2 = 0
    /\ IndexBound \in Nat /\ OperandBound \in Nat

VARIABLES
    ranges,       \* m_data
    call,         \* the last call, with its arguments and its result
    miscounted    \* has the builder counted 1 in a chunk that begins with a longer range?

isVars == <<ranges, call, miscounted>>

\* FoldLeft as a recursive function, which TLC evaluates in one pass.
Reduce(Op(_, _), base, s) ==
    LET f[i \in 0..Len(s)] == IF i = 0 THEN base ELSE Op(f[i - 1], s[i]) IN f[Len(s)]

Length(r) == r[2] - r[1]
Sum(rs) == Reduce(LAMBDA n, r : n + Length(r), 0, rs)
ChunkOf(rs) == [data |-> rs, begin |-> Head(rs)[1], end |-> Last(rs)[2], count |-> Sum(rs)]

Begin == <<1, 1>>
End(d) == <<Len(d) + 1, 1>>
At(d, p) == d[p[1]].data[p[2]]
NextPos(d, p) == IF p[2] < Len(d[p[1]].data) THEN <<p[1], p[2] + 1>> ELSE <<p[1] + 1, 1>>
PrevPos(d, p) == IF p[2] > 1 THEN <<p[1], p[2] - 1>> ELSE <<p[1] - 1, Len(d[p[1] - 1].data)>>
NextChunk(p) == <<p[1] + 1, 1>>

\* The sequence of Op(i) for i in 1..n; `\o` makes TLC evaluate it once and for all.
Listed(n, Op(_)) == [i \in 1..n |-> Op(i)] \o <<>>
Ticks(n) == Listed(n, LAMBDA t : t)

\* The indexes of the set in order, as as_indexes() yields them.
AllRanges(d) == Reduce(LAMBDA rs, c : rs \o c.data, <<>>, d)
IndexesOf(rs) ==
    Reduce(LAMBDA is, r : is \o Listed(Length(r), LAMBDA k : r[1] + k - 1), <<>>, rs)
AsIndexes(d) == IndexesOf(AllRanges(d))
AsSet(d) == ToSet(AsIndexes(d))

-----------------------------------------------------------------------------
(* The chunked vector.                                                     *)

Adjust(d, p, front, back) ==
    LET c == d[p[1]]
        r == c.data[p[2]]
    IN  [d EXCEPT ![p[1]] =
           [data  |-> [c.data EXCEPT ![p[2]] = <<r[1] + front, r[2] + back>>],
            begin |-> IF p[2] = 1 THEN c.begin + front ELSE c.begin,
            end   |-> IF p[2] = Len(c.data) THEN c.end + back ELSE c.end,
            count |-> c.count - front + back]]

SetRange(d, p, front, back) ==
    LET r == At(d, p) IN Adjust(d, p, front - r[1], back - r[2])

\* Every range from p on moves by k.
ShiftFrom(d, p, k) ==
    LET Moves(o, i) == o > p[1] \/ (o = p[1] /\ i >= p[2])
        Moved(o, i) == IF Moves(o, i) THEN k ELSE 0
        Chunk(o) ==
            [data  |-> Listed(Len(d[o].data), LAMBDA i : <<d[o].data[i][1] + Moved(o, i),
                                                           d[o].data[i][2] + Moved(o, i)>>),
             begin |-> d[o].begin + Moved(o, 1),
             end   |-> d[o].end + Moved(o, Len(d[o].data)),
             count |-> d[o].count]
    IN  Listed(Len(d), Chunk)

PushBack(d, r) ==
    IF d # <<>> /\ Len(Last(d).data) < MaxSize
    THEN [d EXCEPT ![Len(d)] = [@ EXCEPT !.data = Append(@, r), !.count = @ + Length(r),
                                         !.end = r[2]]]
    ELSE Append(d, ChunkOf(<<r>>))

\* A full chunk is split in half before an insertion.
EnsureSpace(d, p) ==
    LET c    == d[p[1]]
        half == MaxSize \div 2
        keep == Len(c.data) - half
        back == ChunkOf(SubSeq(c.data, keep + 1, Len(c.data)))
        left == [c EXCEPT !.data = SubSeq(@, 1, keep), !.end = c.data[keep][2],
                          !.count = @ - back.count]
    IN  IF Len(c.data) < MaxSize THEN [d |-> d, p |-> p]
        ELSE [d |-> InsertAt([d EXCEPT ![p[1]] = left], p[1] + 1, back),
              p |-> IF p[2] > half THEN <<p[1] + 1, p[2] - half>> ELSE p]

Insert(d, p, r) ==
    LET e == EnsureSpace(d, p)
        c == e.d[e.p[1]]
        Low(a, b) == IF a < b THEN a ELSE b
        High(a, b) == IF a > b THEN a ELSE b
    IN  IF p = End(d) THEN LET x == PushBack(d, r) IN [d |-> x, p |-> PrevPos(x, End(x))]
        ELSE [d |-> [e.d EXCEPT ![e.p[1]] =
                       [data  |-> InsertAt(c.data, e.p[2], r), begin |-> Low(c.begin, r[1]),
                        end   |-> High(c.end, r[2]), count |-> c.count + Length(r)]],
              p |-> e.p]

Erase(d, p) ==
    LET c    == d[p[1]]
        rest == RemoveAt(c.data, p[2])
    IN  IF rest = <<>> THEN [d |-> RemoveAt(d, p[1]), p |-> <<p[1], 1>>]
        ELSE [d |-> [d EXCEPT ![p[1]] =
                       [data  |-> rest, begin |-> Head(rest)[1], end |-> Last(rest)[2],
                        count |-> c.count - Length(c.data[p[2]])]],
              p |-> IF p[2] <= Len(rest) THEN p ELSE NextChunk(p)]

\* What verify() asserts in a debug build: of the ranges, of where the chunks begin and
\* end, and of their counts.
RangesApart(d) ==
    LET rs == AllRanges(d)
    IN  /\ \A i \in DOMAIN rs : rs[i][1] < rs[i][2]
        /\ \A i \in 2..Len(rs) : rs[i][1] > rs[i - 1][2]
BoundsCached(d) ==
    \A o \in DOMAIN d : /\ d[o].data # <<>>
                        /\ d[o].begin = Head(d[o].data)[1] /\ d[o].end = Last(d[o].data)[2]
CountsCached(d) == \A o \in DOMAIN d : d[o].count = Sum(d[o].data)
Verify(d) == RangesApart(d) /\ BoundsCached(d) /\ CountsCached(d)

(***************************************************************************)
(* The builder writes a new vector from indexes or ranges in ascending     *)
(* order. It has reserved as many chunks as the set it replaces needs; a   *)
(* chunk beyond them is given the count 1, whatever the range; `wrong`     *)
(* remembers a range for which that is too little.                         *)
(***************************************************************************)
Builder(d) ==
    [chunks |-> <<>>, reserved |-> Len(AllRanges(d)) \div MaxSize + 1, wrong |-> FALSE]

BuilderPush(b, r) ==
    LET n == Len(b.chunks)
        c == b.chunks[n]
    IN  IF n = 0 THEN [b EXCEPT !.chunks = <<ChunkOf(<<r>>)>>]
        ELSE IF r[1] = Last(c.data)[2]
        THEN [b EXCEPT !.chunks[n] = [@ EXCEPT !.data[Len(c.data)][2] = r[2],
                                               !.count = @ + Length(r)]]
        ELSE IF Len(c.data) < MaxSize
        THEN [b EXCEPT !.chunks[n] = [@ EXCEPT !.data = Append(@, r), !.count = @ + Length(r)]]
        ELSE IF n < b.reserved THEN [b EXCEPT !.chunks = Append(@, ChunkOf(<<r>>))]
        ELSE [b EXCEPT !.chunks = Append(@, [ChunkOf(<<r>>) EXCEPT !.count = 1]),
                       !.wrong = @ \/ Length(r) > 1]

Finalize(b) ==
    Listed(Len(b.chunks), LAMBDA o : [b.chunks[o] EXCEPT !.end = Last(b.chunks[o].data)[2]])

PushIndex(b, i) == BuilderPush(b, <<i, i + 1>>)

-----------------------------------------------------------------------------
(* The operations: functions of the vector to a vector, or to a result.    *)

Find(d, index, from) ==
    LET os == {o \in from[1]..Len(d) : d[o].end > index}
        o  == CHOOSE x \in os : \A y \in os : x <= y
        is == {i \in (IF o = from[1] THEN from[2] ELSE 1)..Len(d[o].data) :
                  d[o].data[i][2] > index}
    IN  IF os = {} THEN End(d)
        ELSE IF index < d[o].begin THEN <<o, 1>>
        ELSE <<o, CHOOSE x \in is : \A y \in is : x <= y>>

ContainsIndex(d, index) ==
    LET p == Find(d, index, Begin) IN p # End(d) /\ At(d, p)[1] <= index

\* Variant for the mutation check: two ranges that meet are not joined.
DoAddWithoutJoin(d, p, index) ==
    LET before == PrevPos(d, p)
        grown  == Adjust(d, before, 0, 1)
    IN  IF p # End(d) /\ At(d, p)[1] <= index /\ At(d, p)[2] > index THEN [d |-> d, p |-> p]
        ELSE IF p # Begin /\ At(d, before)[2] = index THEN [d |-> grown, p |-> before]
        ELSE IF p # End(d) /\ At(d, p)[1] = index + 1
        THEN [d |-> Adjust(d, p, 0 - 1, 0), p |-> p]
        ELSE Insert(d, p, <<index, index + 1>>)

DoAdd(d, p, index) ==
    LET before == PrevPos(d, p)
        grown  == Adjust(d, before, 0, 1)
        e      == Erase(Adjust(grown, before, 0, Length(At(d, p))), p)
    IN  IF p # End(d) /\ At(d, p)[1] <= index /\ At(d, p)[2] > index THEN [d |-> d, p |-> p]
        ELSE IF p # Begin /\ At(d, before)[2] = index
        THEN IF p # End(d) /\ At(grown, before)[2] = At(d, p)[1]
             THEN [d |-> e.d, p |-> PrevPos(e.d, e.p)]
             ELSE [d |-> grown, p |-> before]
        ELSE IF p # End(d) /\ At(d, p)[1] = index + 1
        THEN [d |-> Adjust(d, p, 0 - 1, 0), p |-> p]
        ELSE Insert(d, p, <<index, index + 1>>)

Add(d, index) == DoAdd(d, Find(d, index, Begin), index).d

AddAll(d, other) ==
    Reduce(LAMBDA x, i : DoAdd(x.d, Find(x.d, i, x.p), i), [d |-> d, p |-> Begin],
             AsIndexes(other)).d

FromSet(s) == Reduce(Add, <<>>, SetToSortSeq(s, <))

\* The shift of add_shifted: whole chunks by their cached count, then ranges.
AddShiftedIndex(d, index) ==
    LET Chunk(x, o) == IF x.p # <<o, 1>> \/ d[o].end > x.i THEN x
                       ELSE [p |-> <<o + 1, 1>>, i |-> x.i + d[o].count]
        a == Reduce(Chunk, [p |-> Begin, i |-> index], Ticks(Len(d)))
        Range1(x, t) == IF x.p = End(d) \/ At(d, x.p)[1] > x.i THEN x
                        ELSE [p |-> NextPos(d, x.p), i |-> x.i + Length(At(d, x.p))]
    IN  Reduce(Range1, a, Ticks(Len(AllRanges(d))))

AddShifted(d, index) == LET x == AddShiftedIndex(d, index) IN DoAdd(d, x.p, x.i).d

SetTo(len) == IF len = 0 THEN <<>> ELSE PushBack(<<>>, <<0, len>>)

InsertBlock(d, index, count) ==
    LET p      == Find(d, index, Begin)
        inside == p # End(d) /\ At(d, p)[1] <= index
        grown  == Adjust(d, p, 0, count)
        AddOne(x, t) == LET y == DoAdd(x.d, x.p, index + t - 1)
                        IN  [d |-> y.d, p |-> NextPos(y.d, y.p)]
    IN  IF inside THEN ShiftFrom(grown, NextPos(grown, p), count)
        ELSE Reduce(AddOne, [d |-> ShiftFrom(d, p, count), p |-> p], Ticks(count)).d

\* insert_at and shift_for_insert_at with a set: one pass over both, in order.
InsertPass(d, positions, keep) ==
    LET a == AsIndexes(d)
        b == AsIndexes(positions)
        Step(x, t) ==
            IF x.i <= Len(a) /\ (x.j > Len(b) \/ a[x.i] + x.j - 1 < b[x.j])
            THEN [x EXCEPT !.i = @ + 1, !.b = PushIndex(@, a[x.i] + x.j - 1)]
            ELSE [x EXCEPT !.j = @ + 1, !.b = IF keep THEN PushIndex(@, b[x.j]) ELSE @]
    IN  Finalize(Reduce(Step, [i |-> 1, j |-> 1, b |-> Builder(d)],
                          Ticks(Len(a) + Len(b))).b)

InsertAll(d, positions) ==
    IF positions = <<>> THEN d ELSE IF d = <<>> THEN positions ELSE InsertPass(d, positions, TRUE)

\* Variant for the mutation check: a range around the insertion point moves as a whole.
ShiftForInsertBlockWhole(d, index, count) == ShiftFrom(d, Find(d, index, Begin), count)

ShiftForInsertBlock(d, index, count) ==
    LET p       == Find(d, index, Begin)
        shifted == ShiftFrom(d, p, count)
        r       == At(shifted, p)
        cut     == SetRange(shifted, p, r[1] - count, index)
    IN  IF p = End(d) THEN d
        ELSE IF r[1] < index + count
        THEN Insert(cut, NextPos(cut, p), <<index + count, r[2]>>).d
        ELSE shifted

ShiftForInsertAll(d, values) ==
    IF d = <<>> \/ values = <<>> THEN d
    ELSE IF Head(values).begin >= Last(d).end THEN d
    ELSE InsertPass(d, values, FALSE)

DoErase(d, p, index) ==
    LET before == PrevPos(d, p)
        e      == Erase(d, p)
        less   == Adjust(d, p, 0, 0 - 1)
        joined == Erase(Adjust(d, before, 0, Length(At(d, p))), p)
    IN  IF At(d, p)[1] <= index
        THEN IF At(d, p)[1] + 1 = At(d, p)[2] THEN ShiftFrom(e.d, e.p, 0 - 1)
             ELSE ShiftFrom(less, NextPos(less, p), 0 - 1)
        ELSE IF p # Begin /\ At(d, before)[2] + 1 = At(d, p)[1]
        THEN ShiftFrom(joined.d, joined.p, 0 - 1)
        ELSE ShiftFrom(d, p, 0 - 1)

EraseIndex(d, index) ==
    LET p == Find(d, index, Begin) IN IF p = End(d) THEN d ELSE DoErase(d, p, index)

EraseAll(d, positions) ==
    LET a == AsIndexes(d)
        b == AsIndexes(positions)
        Step(x, t) ==
            IF x.i > Len(a) THEN x
            ELSE IF x.j > Len(b) \/ a[x.i] < b[x.j]
            THEN [x EXCEPT !.i = @ + 1, !.b = PushIndex(@, a[x.i] - x.j + 1)]
            ELSE IF a[x.i] = b[x.j] THEN [x EXCEPT !.i = @ + 1, !.j = @ + 1]
            ELSE [x EXCEPT !.j = @ + 1]
    IN  IF d = <<>> \/ positions = <<>> THEN d
        ELSE Finalize(Reduce(Step, [i |-> 1, j |-> 1, b |-> Builder(d)],
                               Ticks(Len(a) + Len(b))).b)

\* erase_or_unshift: the unshifted index, and where the erasure happens.
Unshift1(d, index) ==
    LET Chunk(x, o) == IF x.p # <<o, 1>> \/ d[o].end > index THEN x
                       ELSE [p |-> <<o + 1, 1>>, i |-> x.i - d[o].count]
        a == Reduce(Chunk, [p |-> Begin, i |-> index], Ticks(Len(d)))
        Range1(x, t) == IF x.p = End(d) \/ At(d, x.p)[2] > index THEN x
                        ELSE [p |-> NextPos(d, x.p), i |-> x.i - Length(At(d, x.p))]
    IN  Reduce(Range1, a, Ticks(Len(AllRanges(d))))

EraseOrUnshift(d, index) ==
    LET x == Unshift1(d, index) IN IF x.p = End(d) THEN d ELSE DoErase(d, x.p, index)

EraseOrUnshiftResult(d, index) ==
    LET x == Unshift1(d, index)
    IN  IF x.p # End(d) /\ At(d, x.p)[1] <= index THEN 0 - 1 ELSE x.i

\* One round of do_remove for [begin, end).
RemoveRound(x, end) ==
    LET p     == Find(x.d, x.begin, x.p)
        r     == At(x.d, p)
        begin == IF r[1] > x.begin THEN r[1] ELSE x.begin
        cut   == SetRange(x.d, p, r[1], begin)
        split == Insert(cut, NextPos(cut, p), <<end, r[2]>>)
        gone  == Erase(x.d, p)
    IN  IF p = End(x.d) \/ At(x.d, p)[1] >= end THEN [x EXCEPT !.p = p]
        ELSE IF r[1] < begin /\ r[2] > end
        THEN [d |-> split.d, p |-> PrevPos(split.d, split.p), begin |-> begin]
        ELSE IF begin = r[1] /\ end >= r[2] THEN [d |-> gone.d, p |-> gone.p, begin |-> begin]
        ELSE IF begin = r[1]
        THEN [d |-> SetRange(x.d, p, end, r[2]), p |-> p, begin |-> begin]
        ELSE [d |-> cut, p |-> p, begin |-> begin]

DoRemove(d, p, begin, end) ==
    Reduce(LAMBDA x, t : RemoveRound(x, end), [d |-> d, p |-> p, begin |-> begin],
             Ticks(end - begin + 1))

RemoveBlock(d, index, count) == DoRemove(d, Find(d, index, Begin), index, index + count).d

RemoveAll(d, values) ==
    LET Round(x, r) == IF x.p = End(x.d) THEN x ELSE DoRemove(x.d, x.p, r[1], r[2])
    IN  Reduce(Round, [d |-> d, p |-> Begin, begin |-> 0], AllRanges(values)).d

Shift(d, index) ==
    Reduce(LAMBDA i, r : IF r[1] > i THEN i ELSE i + Length(r), index, AllRanges(d))

\* count: the rest of the first chunk, whole chunks, whole ranges, a part of one.
Count(d, from, end) ==
    LET p     == Find(d, from, Begin)
        r     == At(d, p)
        High(a, b) == IF a > b THEN a ELSE b
        Low(a, b) == IF a < b THEN a ELSE b
        Part(rs) == Reduce(LAMBDA n, x : IF x[1] >= end THEN n ELSE n + Low(x[2], end) - x[1],
                             0, rs)
        Whole(o) == Reduce(LAMBDA x, c : IF x.o # c \/ d[c].end > end THEN x
                                           ELSE [o |-> c + 1, n |-> x.n + d[c].count],
                             [o |-> o, n |-> 0], Listed(Len(d) - o + 1, LAMBDA t : o + t - 1))
        From(o)  == Whole(o).n + (IF Whole(o).o > Len(d) THEN 0 ELSE Part(d[Whole(o).o].data))
        middle   == from > r[1] \/ p[2] # 1
        rest     == SubSeq(d[p[1]].data, p[2] + 1, Len(d[p[1]].data))
        first    == r[2] - High(r[1], from) + Part(rest)
    IN  IF p = End(d) \/ r[1] >= end THEN 0
        ELSE IF r[2] >= end THEN Low(r[2], end) - High(r[1], from)
        ELSE IF ~middle THEN From(p[1])
        ELSE IF (rest # <<>> /\ Last(rest)[2] >= end) \/ p[1] = Len(d) THEN first
        ELSE IF d[p[1] + 1].data[1][2] >= end THEN first
        ELSE first + From(p[1] + 1)

Unshift(d, index) == index - Count(d, 0, index)

\* add_shifted_by: the indexes of `values` outside `by`, moved back over `by` and
\* forward over the set's own ranges, merged with those by the builder.
ShiftedBuilder(d, by, values) ==
    LET olds == AllRanges(d)
        bys  == AllRanges(by)
        Upto(rs, k, Beyond(_, _)) ==   \* consume ranges from k on while Beyond says so
            Reduce(LAMBDA x, r : IF x.k # r \/ ~Beyond(x, rs[r]) THEN x
                                   ELSE [k |-> r + 1, n |-> x.n + Length(rs[r])],
                     k, Ticks(Len(rs)))
        One(x, i) ==
            LET s == Upto(bys, x.new, LAMBDA y, r : r[1] <= i)
                skip == s.k > 1 /\ i < bys[s.k - 1][2]
                o == Upto(olds, x.old, LAMBDA y, r : r[1] <= i - s.n + y.n)
                passed == SubSeq(olds, x.old.k, o.k - 1)
                pushed == Reduce(PushIndex, x.b, IndexesOf(passed))
            IN  IF skip THEN [x EXCEPT !.new = s]
                ELSE [new |-> s, old |-> o, b |-> PushIndex(pushed, i - s.n + o.n)]
        zero == [k |-> 1, n |-> 0]
        all  == Reduce(One, [new |-> zero, old |-> zero, b |-> Builder(d)], AsIndexes(values))
    IN  Reduce(BuilderPush, all.b, SubSeq(olds, all.old.k, Len(olds)))

AddShiftedBy(d, by, values) ==
    IF values = <<>> THEN d ELSE Finalize(ShiftedBuilder(d, by, values))
Miscounts(d, by, values) == values # <<>> /\ ShiftedBuilder(d, by, values).wrong

-----------------------------------------------------------------------------
Indexes == 0..IndexBound
Operands == SUBSET (0..OperandBound)

Becomes(d, name, arg, result) ==
    /\ ranges' = d
    /\ call' = [name |-> name, arg |-> arg, result |-> result]

NoCall == [name |-> "none"]

IndexSetInit == ranges = <<>> /\ call = NoCall /\ miscounted = FALSE

OnIndex(i) ==
    \/ Becomes(Add(ranges, i), "add", i, 0)
    \/ Becomes(AddShifted(ranges, i), "add_shifted", i, AddShiftedIndex(ranges, i).i)
    \/ Becomes(SetTo(i), "set", i, 0)
    \/ Becomes(EraseIndex(ranges, i), "erase_at", i, 0)
    \/ Becomes(EraseOrUnshift(ranges, i), "erase_or_unshift", i, EraseOrUnshiftResult(ranges, i))
    \/ Becomes(ranges, "contains", i, ContainsIndex(ranges, i))
    \/ Becomes(ranges, "shift", i, Shift(ranges, i))
    \/ ~ContainsIndex(ranges, i) /\ Becomes(ranges, "unshift", i, Unshift(ranges, i))

OnBlock(i, n) ==
    \/ Becomes(InsertBlock(ranges, i, n), "insert_at", <<i, n>>, 0)
    \/ Becomes(ShiftForInsertBlock(ranges, i, n), "shift_for_insert_at", <<i, n>>, 0)
    \/ Becomes(RemoveBlock(ranges, i, n), "remove", <<i, n>>, 0)
    \/ Becomes(ranges, "count", <<i, i + n>>, Count(ranges, i, i + n))

OnSet(s) ==
    \/ Becomes(AddAll(ranges, FromSet(s)), "add all", s, 0)
    \/ Becomes(InsertAll(ranges, FromSet(s)), "insert_at all", s, 0)
    \/ Becomes(ShiftForInsertAll(ranges, FromSet(s)), "shift_for_insert_at all", s, 0)
    \/ Becomes(EraseAll(ranges, FromSet(s)), "erase_at all", s, 0)
    \/ Becomes(RemoveAll(ranges, FromSet(s)), "remove all", s, 0)

OnShifted(by, values) ==
    /\ Becomes(AddShiftedBy(ranges, by, values), "add_shifted_by", <<AsSet(by), AsSet(values)>>, 0)
    /\ miscounted' = Miscounts(ranges, by, values)

\* One call at a time; the next one is made when this one has returned.  Behaviours are
\* followed up to a call that miscounts a chunk.
IndexSetCall ==
    /\ call = NoCall /\ ~miscounted
    /\ \/ /\ \/ \E i \in Indexes : OnIndex(i)
             \/ \E i \in Indexes, n \in 1..3 : OnBlock(i, n)
             \/ \E s \in Operands : OnSet(s)
          /\ UNCHANGED miscounted
       \/ \E by, values \in Operands : OnShifted(FromSet(by), FromSet(values))
    /\ AsSet(ranges') \subseteq Indexes

IndexSetReturn == call # NoCall /\ call' = NoCall /\ UNCHANGED <<ranges, miscounted>>

IndexSetNext == IndexSetCall \/ IndexSetReturn

IndexSetSpec == IndexSetInit /\ [][IndexSetNext]_isVars

-----------------------------------------------------------------------------
\* Every call does to the set, and returns, what IndexSetSpec says, whatever ranges and
\* chunks the set is kept in (index_set.hpp:140-192), add_shifted_by also when it miscounts.
Promise == INSTANCE IndexSetSpec WITH
    Universe <- Indexes, set <- AsSet(ranges)
ImplementsSet == Promise!Spec

\* The assertions of ChunkedRangeVector::verify(): no operation leaves ranges that touch,
\* empty chunks, or cached bounds and counts that are out of step; the one exception is the
\* count of a chunk that the builder opens beyond those it reserved (index_set.cpp:244).
ChunksVerified ==
    RangesApart(ranges) /\ BoundsCached(ranges) /\ (CountsCached(ranges) \/ miscounted)

\* What index_set.cpp:190 asserts of every set: the counts of its chunks are right.
CountsAsserted == CountsCached(ranges)
=============================================================================
