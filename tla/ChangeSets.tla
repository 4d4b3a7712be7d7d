----------------------------- MODULE ChangeSets -----------------------------
(***************************************************************************)
(* The changes of one collection over several transactions: of a list,     *)
(* recorded one operation at a time, or of a query, calculated from its    *)
(* rows before and after. The changes of a transaction are merged with     *)
(* those of earlier ones that were not reported yet.                       *)
(***************************************************************************)
EXTENDS ChangeBuilder

CONSTANTS
    MaxLength,    \* rows in a list
    MaxFound,     \* rows a query finds
    MaxOps,       \* operations on a list, or versions of a query's rows
    QueryKeys     \* keys of the rows a query finds, ordered by <

ASSUME ChangeSetsAssumption ==
    /\ MaxLength \in Nat /\ MaxFound \in Nat /\ MaxOps \in Nat
    /\ QueryKeys \subseteq Nat

VARIABLES
    kind,         \* "list" or "query"
    before,       \* the rows when changes were last reported
    begun,        \* the rows when the current transaction began
    rows,         \* the rows now
    fresh,        \* the next new row of a list
    touched,      \* rows modified since the last report
    merged,       \* the changes of the transactions before this one
    current,      \* the changes of this transaction
    ops           \* how many operations there were

csVars == <<kind, before, begun, rows, fresh, touched, merged, current, ops>>

-----------------------------------------------------------------------------
Counting(n) == [i \in 1..n |-> i]
QueryRows == UNION {[1..n -> QueryKeys] : n \in 0..MaxFound}

ChangeSetsInit ==
    /\ kind \in {"list", "query"}
    /\ \E n \in 0..(IF kind = "list" THEN MaxLength ELSE MaxFound) : before = Counting(n)
    /\ begun = before
    /\ rows = before
    /\ fresh = MaxLength + 1
    /\ touched = {}
    /\ merged = EmptyChange
    /\ current = EmptyChange
    /\ ops = 0

ListOp(now, change) ==
    /\ kind = "list"
    /\ ops < MaxOps
    /\ ops' = ops + 1
    /\ rows' = now
    /\ current' = change
    /\ UNCHANGED <<kind, before, begun, merged>>

InsertRow(i) ==
    /\ Len(rows) < MaxLength
    /\ ListOp(InsertAt(rows, i, fresh), RecordInsert(current, i, 1))
    /\ fresh' = fresh + 1
    /\ UNCHANGED touched

EraseRow(i) == ListOp(RemoveAt(rows, i), RecordErase(current, i)) /\ UNCHANGED <<fresh, touched>>

MoveRow(i, j) ==
    /\ i # j
    /\ ListOp(InsertAt(RemoveAt(rows, i), j, rows[i]), RecordMove(current, i, j))
    /\ UNCHANGED <<fresh, touched>>

ModifyRow(i) ==
    /\ ListOp(rows, RecordModify(current, i, "x"))
    /\ touched' = touched \cup {rows[i]}
    /\ UNCHANGED fresh

ClearRows ==
    /\ rows # <<>>
    /\ ListOp(<<>>, RecordClear(current, Len(rows)))
    /\ UNCHANGED <<fresh, touched>>

\* The query runs again: its rows are others, some of the rows it had were changed.
RunQuery(new, changed) ==
    LET Ascending(s) == \A i, j \in DOMAIN s : i < j => s[i] < s[j]
    IN  /\ kind = "query"
        /\ ops < MaxOps
        /\ current = EmptyChange
        /\ current' = Calculate(rows, new, changed, Ascending(rows) /\ Ascending(new))
        /\ rows' = new
        /\ touched' = touched \cup changed
        /\ ops' = ops + 1
        /\ UNCHANGED <<kind, before, begun, fresh, merged>>

\* The transaction's changes join those not yet reported.
EndTransaction ==
    /\ current # EmptyChange
    /\ merged' = Merge(merged, current)
    /\ current' = EmptyChange
    /\ begun' = rows
    /\ UNCHANGED <<kind, before, rows, fresh, touched, ops>>

ChangeSetsNext ==
    \/ \E i \in 1..(Len(rows) + 1) : InsertRow(i)
    \/ \E i \in DOMAIN rows : EraseRow(i) \/ ModifyRow(i)
    \/ \E i, j \in DOMAIN rows : MoveRow(i, j)
    \/ ClearRows
    \/ \E new \in QueryRows, changed \in {{}, {1}} : RunQuery(new, changed)
    \/ EndTransaction

-----------------------------------------------------------------------------
\* What is reported leads from the rows last reported to the present ones, over any
\* operations and merged transactions, and a reported move names one row twice.
ChangesReplay ==
    /\ Replay(current, begun, rows)
    /\ Replay(merged, before, begun)

\* A row that is neither deleted, inserted nor moved is reported modified, at its old and
\* at its new position, exactly if somebody modified it since the last report.
ModificationsKept ==
    current = EmptyChange =>
        /\ ModificationsInNew(merged) =
               {i \in (DOMAIN rows) \ merged.insertions :
                   rows[i] \in touched /\ rows[i] \in ToSet(before)}
        /\ AfterInsert(AfterErase(ModificationsInOld(merged), merged.deletions), merged.insertions)
               = ModificationsInNew(merged)

\* What a key-value observer of a list is told explains every row that it sees differ: a
\* row that was inserted, removed, set or moved is among the positions it is told, and the
\* kind of change fits the two lists (transact_log_handler.cpp:146-151).
Explained(b) ==
    LET c == KvoChange(b)
        Without(s, is) == [i \in 1..(Len(s) - Cardinality(is)) |-> s[Shifted(is, i)]]
    IN  CASE c.kind = "none" -> rows = begun
          [] c.kind = "SetAll" -> TRUE
          [] c.kind = "Insert" -> Without(rows, c.indices) = begun
          [] c.kind = "Remove" -> Without(begun, c.indices) = rows
          [] c.kind = "Set" -> /\ Len(rows) = Len(begun)
                               /\ \A i \in (DOMAIN rows) \ c.indices : rows[i] = begun[i]
KvoExplains == kind = "list" => Explained(CleanUpStaleMoves(current))

\* The same when at most one row was moved.
KvoExplainsOneMove ==
    LET b == CleanUpStaleMoves(current) IN kind = "list" /\ Len(b.moves) <= 1 => Explained(b)

=============================================================================
