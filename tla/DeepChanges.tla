---------------------------- MODULE DeepChanges ------------------------------
(***************************************************************************)
(* DeepChangeChecker: has an object, or anything it links to, been         *)
(* modified? A depth-first search along the links, cut off at a depth and  *)
(* where it meets its own path, that remembers objects it found to be      *)
(* unmodified over all the objects of one collection.                      *)
(*                                                                         *)
(* Objects are numbers. An object of table "a" may have a link "next" to   *)
(* one of "a" and a link "other" to one of "b", which has a list "back" of *)
(* objects of "a".                                                         *)
(***************************************************************************)
EXTENDS Integers, Sequences, FiniteSets, SequencesExt

CONSTANTS
    TableA, TableB,   \* the objects of the two tables
    PathLength,       \* entries of m_current_path (4 in the code)
    MaxList           \* items in a list

ASSUME DeepChangesAssumption == TableA \cap TableB = {} /\ PathLength \in Nat \ {0}

VARIABLES
    columns,      \* the columns there are
    links,        \* the targets of each object's columns, in order
    modified,     \* the objects of either table in info.tables' modifications
    notModified,  \* m_not_modified
    answers       \* what the checker said of the objects asked about

dcVars == <<columns, links, modified, notModified, answers>>

Objects == TableA \cup TableB
TableOf(o) == IF o \in TableA THEN "a" ELSE "b"
ColumnsOf(t) == IF t = "a" THEN <<"next", "other">> ELSE <<"back">>
TargetOf(col) == IF col = "other" THEN "b" ELSE "a"
LinkColumns(t) == SelectSeq(ColumnsOf(t), LAMBDA col : col \in columns)

\* The tables that can be reached from a table, itself included.
RECURSIVE FindRelatedTables(_, _)
FindRelatedTables(out, t) ==
    IF t \in out THEN out
    ELSE FoldLeft(LAMBDA x, col : FindRelatedTables(x, TargetOf(col)), out \cup {t}, LinkColumns(t))

-----------------------------------------------------------------------------
(* The search. Its state s is the current path, what is known not to be    *)
(* modified, and whether a modification was found.                         *)

Entry(o, col) == [obj |-> o, col |-> col, exceeded |-> FALSE]
NoPath == [i \in 1..PathLength |-> Entry(0, "")]
Exceed(path, from, to) ==
    [i \in DOMAIN path |-> IF i \in from..to THEN [path[i] EXCEPT !.exceeded = TRUE] ELSE path[i]]

RECURSIVE CheckRow(_, _, _)

CheckOutgoingLinks(s, o, depth) ==
    LET Follow(x, target) == IF x.found THEN x ELSE CheckRow(x, target, depth + 1)
        Column(x, col) ==
            LET same == {i \in 1..depth : x.path[i].obj = o /\ x.path[i].col = col}
                first == CHOOSE i \in same : \A j \in same : i <= j
            IN  IF x.found THEN x
                ELSE IF same # {} THEN [x EXCEPT !.path = Exceed(@, first, depth)]
                ELSE FoldLeft(Follow, [x EXCEPT !.path[depth + 1] = Entry(o, col)], links[o][col])
    IN  FoldLeft(Column, s, LinkColumns(TableOf(o)))

\* Variant for the mutation check: what the search was cut off below is remembered too.
CheckRowRememberingAll(s, o, depth) ==
    LET r == CheckOutgoingLinks(s, o, depth)
    IN  IF depth >= PathLength THEN s
        ELSE IF depth > 0 /\ o \in modified THEN [s EXCEPT !.found = TRUE]
        ELSE IF o \in s.known THEN s
        ELSE [r EXCEPT !.known = IF r.found THEN @ ELSE @ \cup {o}]

\* path[depth] is the entry of the link that led here.
CheckRow(s, o, depth) ==
    IF depth >= PathLength THEN [s EXCEPT !.path = Exceed(@, 1, PathLength)]
    ELSE IF depth > 0 /\ o \in modified THEN [s EXCEPT !.found = TRUE]
    ELSE IF o \in s.known THEN s
    ELSE LET r == CheckOutgoingLinks(s, o, depth)
         IN  IF ~r.found /\ (depth = 0 \/ ~r.path[depth].exceeded)
             THEN [r EXCEPT !.known = @ \cup {o}] ELSE r

Check(known, o) ==
    IF o \in modified THEN [path |-> NoPath, known |-> known, found |-> TRUE]
    ELSE CheckRow([path |-> NoPath, known |-> known, found |-> FALSE], o, 0)

\* get_modification_checker(): the search is left out if no related table was modified,
\* and if no other table is related.
ModificationChecker(known, o) ==
    LET related == FindRelatedTables({}, "a")
        Plain(b) == [path |-> NoPath, known |-> known, found |-> b]
    IN  IF \A m \in modified : TableOf(m) \notin related THEN Plain(FALSE)
        ELSE IF related = {"a"} THEN Plain(o \in modified)
        ELSE Check(known, o)

-----------------------------------------------------------------------------
Lists == UNION {[1..n -> TableA] : n \in 0..MaxList}
Single(objs) == {<<>>} \cup {<<o>> : o \in objs}
RowsOfTable(t) ==
    IF t = "a" THEN [next : IF "next" \in columns THEN Single(TableA) ELSE {<<>>},
                     other : IF "other" \in columns THEN Single(TableB) ELSE {<<>>}]
    ELSE [back : Lists]

DeepChangesInit ==
    /\ columns \in {{"next", "other", "back"}, {"next"}}
    /\ \E a \in [TableA -> RowsOfTable("a")], b \in [TableB -> RowsOfTable("b")] :
           links = [o \in Objects |-> IF o \in TableA THEN a[o] ELSE b[o]]
    /\ \E o \in Objects : modified = {o}
    /\ notModified = {}
    /\ answers = [o \in TableA |-> "not asked"]

\* The notifier asks about an object of its collection.
AskAbout(o) ==
    LET r == ModificationChecker(notModified, o)
    IN  /\ answers[o] = "not asked"
        /\ answers' = [answers EXCEPT ![o] = IF r.found THEN "modified" ELSE "not modified"]
        /\ notModified' = r.known
        /\ UNCHANGED <<columns, links, modified>>

DeepChangesNext == \E o \in TableA : AskAbout(o)

-----------------------------------------------------------------------------
\* What an object links to.
LinkTargets(o) == UNION {ToSet(links[o][col]) : col \in ToSet(LinkColumns(TableOf(o)))}
Reach(o) ==
    LET r[d \in 0..(PathLength - 1)] ==
            IF d = 0 THEN {o} ELSE r[d - 1] \cup UNION {LinkTargets(p) : p \in r[d - 1]}
    IN  r[PathLength - 1]

\* In whatever order the objects are asked about and however they link, an object of a
\* table that links to another one is said to be modified exactly if a modified object is
\* fewer than PathLength links away: what was remembered about one object never changes
\* the answer about another (transaction_log_parsing.cpp: "Check in other orders to make
\* sure that the caching doesn't effect the results").
AnswersAreReachability ==
    "other" \in columns =>
        \A o \in TableA : answers[o] # "not asked" =>
            (answers[o] = "modified" <=> modified \cap Reach(o) # {})

=============================================================================
