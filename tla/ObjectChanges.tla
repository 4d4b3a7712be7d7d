---------------------------- MODULE ObjectChanges ----------------------------
(***************************************************************************)
(* What the background worker tells newly added notifiers of the           *)
(* transactions since the versions they were added at: the transaction log *)
(* observer fills in one TransactionChangeInfo per source version, and     *)
(* IncrementalChangeInfo combines them in the end.                         *)
(*                                                                         *)
(* One table is modelled, with the lists of object 1 in it. A notifier is  *)
(* for an object of the table, for the list of object 1, or for something  *)
(* in another table.                                                       *)
(***************************************************************************)
EXTENDS ChangeBuilder

CONSTANTS
    ObjKeys,      \* keys of objects in the table; 1 is the one with the list
    MaxNotifiers, \* notifiers added before the worker runs
    MaxLog        \* operations in the transaction log

ASSUME ObjectChangesAssumption ==
    1 \in ObjKeys /\ MaxNotifiers \in Nat /\ MaxLog \in Nat

VARIABLES
    live,         \* the objects of the table
    items,        \* the list of object 1
    newItem,      \* the next item put into the list
    watchers,     \* the notifiers, with what they saw when they were added
    builders,     \* m_change of each notifier
    infos,        \* m_info: the table's change set of each source version, or Untracked
    lists,        \* m_current->lists: notifiers whose list is tracked
    moved,        \* has there been a transaction since the last info was begun?
    logged,       \* how many operations the log has
    combined,     \* has advance_to_final() run?
    met           \* situations in which changes are known to be lost

ocVars == <<live, items, newItem, watchers, builders, infos, lists, moved, logged, combined, met>>

-----------------------------------------------------------------------------
(* ObjectChangeSet.                                                        *)

NoObjects ==
    [state |-> "tracked", deletions |-> {}, insertions |-> {}, modifications |-> {},
     cleared |-> FALSE]
Untracked == [NoObjects EXCEPT !.state = "untracked"]
\* The process accesses memory it must not.
Undefined == [NoObjects EXCEPT !.state = "undefined"]
Tracked(c) == c.state = "tracked"

InsertionsAdd(c, k) == [c EXCEPT !.insertions = @ \cup {k}]
ModificationsAdd(c, k, col) ==
    IF k \in c.insertions THEN c ELSE [c EXCEPT !.modifications = @ \cup {<<k, col>>}]
WithoutObject(ms, k) == {m \in ms : m[1] # k}
\* remove_object(): what was inserted since is forgotten.
DeletionsAdd(c, k) ==
    [c EXCEPT !.insertions = @ \ {k},
              !.deletions = IF k \in c.insertions THEN @ ELSE @ \cup {k},
              !.modifications = WithoutObject(@, k)]
ClearObjects == [NoObjects EXCEPT !.cleared = TRUE]
DeletionsContains(c, k) ==
    IF c.cleared THEN k \notin c.insertions ELSE k \in c.deletions
ColumnsModified(c, k) == {m[2] : m \in {n \in c.modifications : n[1] = k}}

\* Variant for the mutation check: what was modified and then deleted stays modified.
MergeObjectsKeepingModified(a, b) ==
    IF b = NoObjects THEN a
    ELSE IF a = NoObjects THEN b
    ELSE [state |-> "tracked",
          deletions |-> a.deletions \cup b.deletions,
          insertions |-> a.insertions \cup b.insertions,
          modifications |-> a.modifications,
          cleared |-> a.cleared \/ b.cleared]

\* An object inserted in a and deleted in b: m_deletions.erase() is called with an
\* iterator of other.m_deletions.
MergeObjects(a, b) ==
    IF b = NoObjects THEN a
    ELSE IF a = NoObjects THEN b
    ELSE IF a.insertions \cap b.deletions # {} THEN Undefined
    ELSE [state |-> "tracked",
          deletions |-> a.deletions \cup b.deletions,
          insertions |-> a.insertions \cup b.insertions,
          modifications |-> {m \in a.modifications : m[1] \notin b.deletions}
                                \cup b.modifications,
          cleared |-> a.cleared \/ b.cleared]

-----------------------------------------------------------------------------
(* IncrementalChangeInfo.                                                  *)

\* parse_complete(): moves are cleaned up, tables without changes are taken out.
ParseComplete(info) == IF info = NoObjects THEN Untracked ELSE info
Cleaned(bs, ls) ==
    [n \in DOMAIN bs |-> IF n \in ToSet(ls) THEN CleanUpStaleMoves(bs[n]) ELSE bs[n]]

\* advance_to_final(): each info takes in the ones after it, the newest first.
CombinedInfos(is) ==
    LET Joined(prev, cur) ==
            IF ~Tracked(cur) THEN prev
            ELSE IF prev = Untracked THEN cur
            ELSE MergeObjects(prev, cur)
        step[i \in DOMAIN is] == IF i = Len(is) THEN is[i] ELSE Joined(is[i], step[i + 1])
    IN  [i \in DOMAIN is |-> step[i]]

\* The changes of a list observed twice: those of a later entry join all before it.
CombinedLists(bs, ls) ==
    LET Join(x, p) == [x EXCEPT ![ls[p[2]]] = Merge(@, x[ls[p[1]]])]
        pairs == SetToSortSeq({<<i, j>> \in (DOMAIN ls) \X (DOMAIN ls) : j < i},
                              LAMBDA p, q : p[1] < q[1] \/ (p[1] = q[1] /\ p[2] > q[2]))
    IN  FoldLeft(Join, bs, pairs)

\* The list entries of a removed object are swapped with the last one and popped, and the
\* loop goes on behind the entry that was swapped in.
DroppedEntries(ls) ==
    LET Drop(x, t) ==
            IF x.i > Len(x.ls) THEN x
            ELSE [ls |-> IF x.i < Len(x.ls) THEN Front([x.ls EXCEPT ![x.i] = Last(x.ls)])
                         ELSE Front(x.ls),
                  i |-> x.i + 1]
    IN  FoldLeft(Drop, [ls |-> ls, i |-> 1], [t \in 1..Len(ls) |-> t]).ls

-----------------------------------------------------------------------------
NotifierKinds == {"object", "list", "other"}
Needed(kind) == kind = "object"
Watcher(kind, i) ==
    [kind |-> kind, info |-> i, live |-> live, items |-> items, touched |-> {}]

\* The objects exist and the list has two items when the first notifier is added.
ObjectChangesInit ==
    /\ live \in {{1}, ObjKeys}
    /\ items = <<1, 2>>
    /\ newItem = 3
    /\ watchers = <<>>
    /\ builders = <<>>
    /\ infos = <<Untracked>>
    /\ lists = <<>>
    /\ moved = FALSE
    /\ logged = 0
    /\ combined = FALSE
    /\ met = {}

Current == Last(infos)
SetCurrent(info) == [infos EXCEPT ![Len(infos)] = info]
Want(info, kind) == IF Needed(kind) /\ info = Untracked THEN NoObjects ELSE info
TracksTable == \E n \in DOMAIN watchers : Needed(watchers[n].kind)

\* The next notifier is attached at its source version. If that is a later one, the changes
\* so far stay with the info so far, and the new one tracks the tables that one still has.
AttachNotifier(kind) ==
    LET done == ParseComplete(Current)
        new  == moved /\ watchers # <<>>
        is   == IF new THEN Append(SetCurrent(done), IF Tracked(done) THEN NoObjects ELSE Untracked)
                ELSE infos
        last == Len(is)
    IN  /\ ~combined
        /\ Len(watchers) < MaxNotifiers
        /\ infos' = [is EXCEPT ![last] = Want(@, kind)]
        /\ watchers' = Append(watchers, Watcher(kind, last))
        /\ builders' = Append(IF new THEN Cleaned(builders, lists) ELSE builders, EmptyChange)
        /\ lists' = IF kind = "list" /\ 1 \in live THEN Append(lists, Len(watchers) + 1) ELSE lists
        /\ moved' = FALSE
        /\ met' = met \cup (IF new /\ Current = NoObjects /\ TracksTable /\ ~Needed(kind)
                            THEN {"table dropped"} ELSE {})
        /\ UNCHANGED <<live, items, newItem, logged, combined>>

\* One operation of the transaction log, told to the observer.
Logged(info, touching) ==
    /\ ~combined
    /\ watchers # <<>>
    /\ logged < MaxLog
    /\ logged' = logged + 1
    /\ moved' = TRUE
    /\ infos' = IF Tracked(Current) THEN SetCurrent(info) ELSE infos
    /\ watchers' = [n \in DOMAIN watchers |->
                       [watchers[n] EXCEPT !.touched = @ \cup touching]]
    /\ UNCHANGED combined

ListChanged == \E n \in DOMAIN watchers : <<1, "list">> \in watchers[n].touched
LostIf(situation, condition) == met' = met \cup (IF condition THEN {situation} ELSE {})

CreateObject(k) ==
    /\ k \notin live
    /\ live' = live \cup {k}
    /\ items' = IF k = 1 THEN <<>> ELSE items
    /\ Logged(InsertionsAdd(Current, k), {})
    /\ LostIf("created again", \E n \in DOMAIN watchers : k \in watchers[n].live)
    /\ UNCHANGED <<newItem, builders, lists>>

RemoveObject(k) ==
    /\ k \in live
    /\ live' = live \ {k}
    /\ items' = IF k = 1 THEN <<>> ELSE items
    /\ Logged(DeletionsAdd(Current, k), {})
    /\ lists' = IF k = 1 /\ Tracked(Current) THEN DroppedEntries(lists) ELSE lists
    /\ LostIf(IF k = 1 THEN "changed, then deleted" ELSE "inserted, then deleted",
              IF k = 1 THEN ListChanged
              ELSE \E n \in DOMAIN watchers : k \notin watchers[n].live)
    /\ UNCHANGED <<newItem, builders>>

ModifyObject(k) ==
    /\ k \in live
    /\ Logged(ModificationsAdd(Current, k, "value"), {<<k, "value">>})
    /\ UNCHANGED <<live, items, newItem, builders, lists, met>>

ClearTable ==
    /\ live # {}
    /\ live' = {}
    /\ items' = <<>>
    /\ Logged(ClearObjects, {})
    /\ lists' = <<>>
    /\ LostIf("changed, then deleted", ListChanged)
    /\ UNCHANGED <<newItem, builders>>

\* The list is selected, which modifies its object, and changed; the last entry for it
\* is told.
ChangeList(now, F(_)) ==
    /\ 1 \in live
    /\ items' = now
    /\ Logged(ModificationsAdd(Current, 1, "list"), {<<1, "list">>})
    /\ builders' = IF lists = <<>> THEN builders
                   ELSE [builders EXCEPT ![Last(lists)] = F(@)]
    /\ UNCHANGED <<live, lists>>

ListInsert(i) ==
    LET Record(b) == RecordInsert(b, i, 1)
    IN  /\ logged < MaxLog
        /\ ~combined
        /\ ChangeList(InsertAt(items, i, newItem), Record)
        /\ newItem' = newItem + 1
        /\ met' = met

ListErase(i) ==
    LET Record(b) == RecordErase(b, i)
    IN  ChangeList(RemoveAt(items, i), Record) /\ UNCHANGED <<newItem, met>>

\* list_swap: two moves, one if the rows are neighbours.
ListSwap(i, j) ==
    LET Record(b) == IF i + 1 = j THEN RecordMove(b, i, j)
                     ELSE RecordMove(RecordMove(b, i, j), j - 1, i)
    IN  /\ i < j
        /\ ChangeList([items EXCEPT ![i] = items[j], ![j] = items[i]], Record)
        /\ UNCHANGED <<newItem, met>>

\* A transaction that changes another table.
OtherTable ==
    /\ Logged(Current, {})
    /\ UNCHANGED <<live, items, newItem, builders, lists, met>>

AdvanceToFinal ==
    /\ ~combined
    /\ watchers # <<>>
    /\ combined' = TRUE
    /\ infos' = CombinedInfos(SetCurrent(ParseComplete(Current)))
    /\ builders' = CombinedLists(Cleaned(builders, lists), lists)
    /\ UNCHANGED <<live, items, newItem, watchers, lists, moved, logged, met>>

ObjectChangesNext ==
    \/ \E kind \in NotifierKinds : AttachNotifier(kind)
    \/ \E k \in ObjKeys : CreateObject(k) \/ RemoveObject(k) \/ ModifyObject(k)
    \/ ClearTable
    \/ \E i \in 1..(Len(items) + 1) : ListInsert(i)
    \/ \E i \in DOMAIN items : ListErase(i)
    \/ \E i, j \in DOMAIN items : ListSwap(i, j)
    \/ OtherTable
    \/ AdvanceToFinal

-----------------------------------------------------------------------------
\* ObjectNotifier::run(): deleted, the columns modified, or nothing.
ObjectReport(w, k) ==
    LET c == infos[w.info]
    IN  IF ~Tracked(c) THEN [deleted |-> FALSE, columns |-> {}]
        ELSE IF DeletionsContains(c, k) THEN [deleted |-> TRUE, columns |-> {}]
        ELSE [deleted |-> FALSE, columns |-> ColumnsModified(c, k)]

\* ListNotifier::run(): if the list is gone, all the rows it had are.
ListReport(n) ==
    IF 1 \in live THEN builders[n]
    ELSE IF Len(watchers[n].items) > 0
    THEN [builders[n] EXCEPT !.deletions = 1..Len(watchers[n].items)]
    ELSE EmptyChange

Complete(n) ==
    LET w == watchers[n]
    IN  /\ w.kind = "object" =>
              /\ infos[w.info] # Undefined
              /\ \A k \in w.live : ObjectReport(w, k) =
                     [deleted |-> k \notin live,
                      columns |-> IF k \in live THEN {m[2] : m \in {t \in w.touched : t[1] = k}}
                                  ELSE {}]
        /\ w.kind = "list" /\ 1 \in w.live => Replay(ListReport(n), w.items, items)

\* Unless one of four situations was met, a notifier is told what happened to its object,
\* or the exact changes of its list, since the version it was added at, over any number
\* of source versions and however often the list is observed (realm_coordinator.cpp:864).
CompleteUnlessMet == combined /\ met = {} => \A n \in DOMAIN watchers : Complete(n)

\* Objects inserted in one info and deleted in the next are dropped when the two are
\* combined, as object_changeset.cpp:111 says; the process does not go wrong.
InsertedThenDeletedDropped == \A i \in DOMAIN infos : infos[i] # Undefined

=============================================================================
