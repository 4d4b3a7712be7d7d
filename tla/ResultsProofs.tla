---------------------------- MODULE ResultsProofs ----------------------------
(***************************************************************************)
(* Proof that a snapshot of objects keeps its rows. Nothing is assumed of  *)
(* what the storage engine finds, sorts or drops: FindAll is never opened. *)
(***************************************************************************)
EXTENDS Results, TLAPS

\* The fields a Results has, whatever they hold.
IsResults(r) ==
    r = [mode |-> r.mode, policy |-> r.policy, ordering |-> r.ordering, filtered |-> r.filtered,
         hasQuery |-> r.hasQuery, view |-> r.view, indices |-> r.indices]

\* Only a list of values is in mode List, and nothing else is ever in that mode.
ModeInv ==
    /\ IsResults(res)
    /\ res.policy \in {"Auto", "Never"}
    /\ src # "prims" => res.mode \in {"Table", "LinkList", "Query", "TableView"}
    /\ src = "prims" => res.mode = "List"

\* A snapshot of objects is a table view, computed of the content its rows were taken from.
ViewInv ==
    res.policy = "Never" /\ src # "prims" =>
        /\ res.mode = "TableView"
        /\ kept = FindAll(res.filtered, res.ordering, res.view[1])

SnapshotInv == ModeInv /\ ViewInv

-----------------------------------------------------------------------------
(* What the operations make of a Results.                                  *)

LEMMA NewResultsIsResults ==
    ASSUME NEW mode, NEW ordering, NEW filtered
    PROVE  LET r == NewResults(mode, ordering, filtered)
           IN  IsResults(r) /\ r.mode = mode /\ r.policy = "Auto"
  BY DEF NewResults, IsResults

\* A query or a view becomes a view, unless it is a snapshot; nothing else changes, and
\* whether notifications are wanted makes no difference to the rows.
LEMMA EvaluateQuery ==
    ASSUME NEW s, NEW wants \in BOOLEAN, NEW e, IsResults(s.r), e = DoEvaluateQuery(s, wants).r
    PROVE  /\ IsResults(e)
           /\ e.policy = s.r.policy /\ e.ordering = s.r.ordering /\ e.filtered = s.r.filtered
           /\ s.r.policy = "Never" \/ s.r.mode \notin {"Query", "TableView"} => e = s.r
           /\ s.r.policy # "Never" /\ s.r.mode \in {"Query", "TableView"} => e.mode = "TableView"
           /\ e = DoEvaluateQuery(s, TRUE).r
  BY DEF DoEvaluateQuery, IsResults

\* A Results that is no list of values is left alone.
LEMMA EvaluateList ==
    ASSUME NEW s, NEW e, IsResults(s.r), e = DoEvaluateList(s)
    PROVE  /\ IsResults(e.r)
           /\ e.r.policy = s.r.policy /\ e.r.mode = s.r.mode
           /\ s.r.mode # "List" => e = s
  BY DEF DoEvaluateList, IsResults

LEMMA BecomesQuery ==
    ASSUME NEW s, NEW q, IsResults(s.r), q = AsQuery(s)
    PROVE  /\ IsResults(q.r)
           /\ q.r.mode = "Query" /\ q.r.policy = s.r.policy
           /\ q.r.ordering = s.r.ordering /\ q.r.filtered = s.r.filtered
  BY DEF AsQuery, IsResults

LEMMA LinkListBecomesQuery ==
    ASSUME NEW s, NEW u, IsResults(s.r), u = UpdateLinkList(s)
    PROVE  /\ IsResults(u.r)
           /\ u.r.policy = s.r.policy
           /\ s.r.mode # "LinkList" => u = s
           /\ s.r.mode = "LinkList" => u.r.mode \in {"LinkList", "Query"}
  BY DEF UpdateLinkList, AsQuery, IsResults

-----------------------------------------------------------------------------
(* The rows of a Results of objects.                                       *)

\* get() of a query or a view shows what the view it becomes finds.
LEMMA RowsOfView ==
    ASSUME NEW s, NEW wants \in BOOLEAN, NEW e, IsResults(s.r), s.r.mode \in {"Query", "TableView"},
           s.r.policy = "Never" => s.r.mode = "TableView",
           e = DoEvaluateQuery(s, wants).r
    PROVE  Rows(s) = FindAll(e.filtered, e.ordering, e.view[1])
  <1>1. UpdateLinkList(s) = s
    BY DEF UpdateLinkList
  <1>2. DoEvaluateList(s) = s
    BY EvaluateList
  <1>3. Evaluated(s) = DoEvaluateQuery(s, TRUE)
    BY <1>1, <1>2 DEF Evaluated
  <1>4. e = DoEvaluateQuery(s, TRUE).r
    BY EvaluateQuery
  <1>5. e.mode = "TableView"
    BY DEF DoEvaluateQuery, IsResults
  <1> QED
    BY <1>3, <1>4, <1>5 DEF Rows

LEMMA SnapshotInvSuffices == SnapshotInv => SnapshotKept
  <1> SUFFICES ASSUME SnapshotInv, res.policy = "Never", src # "prims"
               PROVE  Rows(Now) = kept /\ SizeOf(Now) = Len(kept)
    BY DEF SnapshotKept
  <1>1. IsResults(res) /\ res.mode = "TableView" /\ kept = FindAll(res.filtered, res.ordering, res.view[1])
    BY DEF SnapshotInv, ModeInv, ViewInv
  <1>2. Now.r = res
    BY DEF Now
  <1>3. res = DoEvaluateQuery(Now, TRUE).r
    BY <1>2 DEF DoEvaluateQuery
  <1>4. Rows(Now) = kept
    BY <1>1, <1>2, <1>3, RowsOfView
  <1>5. SizeOf(Now) = Len(Rows(Now))
    BY <1>1, <1>2 DEF SizeOf, CountsOnly
  <1> QED
    BY <1>4, <1>5

-----------------------------------------------------------------------------
(* Steps. A step that leaves the Results alone, evaluates it, or replaces  *)
(* it by one that is no snapshot, cannot break the invariant.              *)

LEMMA Evaluates ==
    ASSUME SnapshotInv, src' = src, kept' = kept,
           IsResults(res'), res'.policy = res.policy,
           res.policy = "Never" /\ src # "prims" => res' = res,
           src # "prims" => res'.mode \in {"Table", "LinkList", "Query", "TableView"},
           src = "prims" => res'.mode = "List"
    PROVE  SnapshotInv'
  <1>1. ModeInv'
    BY DEF SnapshotInv, ModeInv
  <1>2. ViewInv'
    <2> SUFFICES ASSUME res'.policy = "Never", src # "prims"
                 PROVE  res'.mode = "TableView" /\ kept' = FindAll(res.filtered, res.ordering, res.view[1])'
      BY DEF ViewInv
    <2>1. res' = res
      OBVIOUS
    <2>2. FindAll(res.filtered, res.ordering, res.view[1])' = FindAll(res.filtered, res.ordering, res.view[1])
      BY <2>1 DEF FindAll
    <2> QED
      BY <2>1, <2>2 DEF SnapshotInv, ViewInv
  <1> QED
    BY <1>1, <1>2 DEF SnapshotInv


\* The three shapes a new Results may have.
LEMMA Replaces ==
    ASSUME SnapshotInv, src' = src, IsResults(res'), res'.policy = "Auto",
           src # "prims" => res'.mode \in {"Table", "LinkList", "Query", "TableView"},
           src = "prims" => res'.mode = "List"
    PROVE  SnapshotInv'
  BY DEF SnapshotInv, ModeInv, ViewInv

LEMMA UseStep == SnapshotInv /\ Use => SnapshotInv'
  <1> SUFFICES ASSUME SnapshotInv, Use PROVE SnapshotInv'
    OBVIOUS
  <1>1. PICK u, l, e : u = UpdateLinkList(Now) /\ l = DoEvaluateList(u) /\ e = DoEvaluateQuery(l, TRUE).r
    OBVIOUS
  <1>2. IsResults(res) /\ Now.r = res /\ src' = src /\ kept' = kept /\ res' = e
    BY <1>1 DEF SnapshotInv, ModeInv, Use, world, Unsnapped, Becoming, Evaluated, Now
  <1>3. /\ IsResults(u.r) /\ u.r.policy = res.policy
        /\ res.mode # "LinkList" => u.r = res
        /\ res.mode = "LinkList" => u.r.mode \in {"LinkList", "Query"}
    BY <1>1, <1>2, LinkListBecomesQuery
  <1>4. /\ IsResults(l.r) /\ l.r.policy = u.r.policy /\ l.r.mode = u.r.mode
        /\ u.r.mode # "List" => l = u
    BY <1>1, <1>3, EvaluateList
  <1>5. /\ IsResults(e) /\ e.policy = l.r.policy
        /\ l.r.policy = "Never" \/ l.r.mode \notin {"Query", "TableView"} => e = l.r
        /\ l.r.policy # "Never" /\ l.r.mode \in {"Query", "TableView"} => e.mode = "TableView"
    BY <1>1, <1>4 DEF DoEvaluateQuery, IsResults
  <1>6. res.policy = "Never" /\ src # "prims" => res' = res
    BY <1>2, <1>3, <1>4, <1>5 DEF SnapshotInv, ViewInv
  <1>7. /\ src # "prims" => res'.mode \in {"Table", "LinkList", "Query", "TableView"}
        /\ src = "prims" => res'.mode = "List"
    BY <1>2, <1>3, <1>4, <1>5 DEF SnapshotInv, ModeInv
  <1> QED
    BY <1>2, <1>3, <1>4, <1>5, <1>6, <1>7, Evaluates

LEMMA SizeStep == SnapshotInv /\ Size => SnapshotInv'
  <1> SUFFICES ASSUME SnapshotInv, Size PROVE SnapshotInv'
    OBVIOUS
  <1>1. PICK l, e : l = DoEvaluateList(Now) /\ e = DoEvaluateQuery(l, TRUE).r
    OBVIOUS
  <1>2. IsResults(res) /\ Now.r = res /\ src' = src /\ kept' = kept /\ (res' = res \/ res' = e)
    BY <1>1 DEF SnapshotInv, ModeInv, Size, world, Unsnapped, Becoming, Now
  <1>3. /\ IsResults(l.r) /\ l.r.policy = res.policy /\ l.r.mode = res.mode
        /\ res.mode # "List" => l.r = res
    BY <1>1, <1>2, EvaluateList
  <1>4. /\ IsResults(e) /\ e.policy = l.r.policy
        /\ l.r.policy = "Never" \/ l.r.mode \notin {"Query", "TableView"} => e = l.r
        /\ l.r.policy # "Never" /\ l.r.mode \in {"Query", "TableView"} => e.mode = "TableView"
    BY <1>1, <1>3 DEF DoEvaluateQuery, IsResults
  <1>5. res.policy = "Never" /\ src # "prims" => res' = res
    BY <1>2, <1>3, <1>4 DEF SnapshotInv, ViewInv
  <1>6. /\ src # "prims" => res'.mode \in {"Table", "LinkList", "Query", "TableView"}
        /\ src = "prims" => res'.mode = "List"
    BY <1>2, <1>3, <1>4 DEF SnapshotInv, ModeInv
  <1> QED
    BY <1>2, <1>3, <1>4, <1>5, <1>6, Evaluates

LEMMA AggregateStep == SnapshotInv /\ Aggregate => SnapshotInv'
  <1> SUFFICES ASSUME SnapshotInv, Aggregate PROVE SnapshotInv'
    OBVIOUS
  <1>1. PICK u, e : /\ u = IF res.mode = "LinkList" THEN AsQuery(Now) ELSE Now
                    /\ e = DoEvaluateQuery(u, TRUE).r
    OBVIOUS
  <1>2. IsResults(res) /\ Now.r = res /\ src' = src /\ kept' = kept /\ res' = e
    BY <1>1 DEF SnapshotInv, ModeInv, Aggregate, world, Unsnapped, Becoming, Now
  <1>3. /\ IsResults(u.r) /\ u.r.policy = res.policy
        /\ res.mode # "LinkList" => u.r = res
        /\ res.mode = "LinkList" => u.r.mode = "Query"
    BY <1>1, <1>2, BecomesQuery
  <1>4. /\ IsResults(e) /\ e.policy = u.r.policy
        /\ u.r.policy = "Never" \/ u.r.mode \notin {"Query", "TableView"} => e = u.r
        /\ u.r.policy # "Never" /\ u.r.mode \in {"Query", "TableView"} => e.mode = "TableView"
    BY <1>1, <1>3 DEF DoEvaluateQuery, IsResults
  <1>5. res.policy = "Never" /\ src # "prims" => res' = res
    BY <1>2, <1>3, <1>4 DEF SnapshotInv, ViewInv
  <1>6. /\ src # "prims" => res'.mode \in {"Table", "LinkList", "Query", "TableView"}
        /\ src = "prims" => res'.mode = "List"
    BY <1>2, <1>3, <1>4 DEF SnapshotInv, ModeInv
  <1> QED
    BY <1>2, <1>3, <1>4, <1>5, <1>6, Evaluates

LEMMA ClearStep == SnapshotInv /\ Clear => SnapshotInv'
  <1> SUFFICES ASSUME SnapshotInv, Clear PROVE SnapshotInv'
    OBVIOUS
  <1>1. PICK e : e = DoEvaluateQuery(Now, TRUE).r
    OBVIOUS
  <1>2. IsResults(res) /\ Now.r = res
    BY DEF SnapshotInv, ModeInv, Now
  <1>3. PICK c : /\ src' = src /\ kept' = kept
                 /\ res' = IF res.policy = "Auto" /\ e.mode = "TableView" THEN [e EXCEPT !.view = <<c>>] ELSE e
    BY <1>1 DEF Clear, Reads, Unsnapped
  <1>4. /\ IsResults(e) /\ e.policy = res.policy
        /\ res.policy = "Never" \/ res.mode \notin {"Query", "TableView"} => e = res
        /\ res.policy # "Never" /\ res.mode \in {"Query", "TableView"} => e.mode = "TableView"
    BY <1>1, <1>2, EvaluateQuery
  <1>5. IsResults(res') /\ res'.policy = e.policy /\ res'.mode = e.mode
    BY <1>3, <1>4 DEF IsResults
  <1>6. res.policy = "Never" /\ src # "prims" => res' = res
    BY <1>3, <1>4
  <1>7. /\ src # "prims" => res'.mode \in {"Table", "LinkList", "Query", "TableView"}
        /\ src = "prims" => res'.mode = "List"
    BY <1>4, <1>5 DEF SnapshotInv, ModeInv
  <1> QED
    BY <1>3, <1>4, <1>5, <1>6, <1>7, Evaluates

LEMMA DerivedStep ==
    ASSUME SnapshotInv, \/ (\E d \in {"sort", "distinct"} : SortOrDistinct(d)) \/ SortLinkList
                        \/ Filter
                        \/ Limit
    PROVE  SnapshotInv'
  <1>1. PICK mode, ordering, filtered :
            /\ res' = NewResults(mode, ordering, filtered)
            /\ src' = src
            /\ \/ mode = "Query" /\ src # "prims"
               \/ mode = "LinkList" /\ res.mode = "LinkList"
               \/ mode = IF res.mode = "List" THEN "List" ELSE "Query"
    BY DEF SortOrDistinct, SortLinkList, Filter, Limit, Derive, world
  <1>2. IsResults(res') /\ res'.mode = mode /\ res'.policy = "Auto"
    BY <1>1 DEF NewResults, IsResults
  <1>3. /\ src # "prims" => res'.mode \in {"Table", "LinkList", "Query", "TableView"}
        /\ src = "prims" => res'.mode = "List"
    BY <1>1, <1>2 DEF SnapshotInv, ModeInv
  <1> QED
    BY <1>1, <1>2, <1>3, Replaces

\* Taking a snapshot: the rows get() would give are the rows of the view that is kept.
LEMMA SnapshotStep == SnapshotInv /\ Snapshot => SnapshotInv'
  <1> SUFFICES ASSUME SnapshotInv, Snapshot PROVE SnapshotInv'
    OBVIOUS
  <1>1. PICK q, e : /\ q = IF res.mode \in {"Table", "LinkList"} THEN AsQuery(Now) ELSE Now
                    /\ e = DoEvaluateQuery(q, FALSE).r
    OBVIOUS
  <1>2. IsResults(res) /\ Now.r = res
    BY DEF SnapshotInv, ModeInv, Now
  <1>3. /\ src' = src
        /\ res' = [e EXCEPT !.policy = "Never"]
        /\ kept' = IF res.policy = "Never" THEN kept ELSE Rows(q)
    BY <1>1 DEF Snapshot, world
  <1>4. /\ IsResults(q.r) /\ q.r.policy = res.policy
        /\ res.mode \in {"Table", "LinkList"} => q.r.mode = "Query"
        /\ res.mode \notin {"Table", "LinkList"} => q.r = res
    BY <1>1, <1>2, BecomesQuery
  <1>5. /\ IsResults(e) /\ e.policy = q.r.policy
        /\ q.r.policy = "Never" \/ q.r.mode \notin {"Query", "TableView"} => e = q.r
        /\ q.r.policy # "Never" /\ q.r.mode \in {"Query", "TableView"} => e.mode = "TableView"
    BY <1>1, <1>4 DEF DoEvaluateQuery, IsResults
  <1>6. /\ IsResults(res') /\ res'.policy = "Never" /\ res'.mode = e.mode
        /\ res'.filtered = e.filtered /\ res'.ordering = e.ordering /\ res'.view = e.view
    BY <1>3, <1>5 DEF IsResults
  <1>7. ModeInv'
    BY <1>3, <1>4, <1>5, <1>6 DEF SnapshotInv, ModeInv
  <1>8. ASSUME src # "prims"
        PROVE  e.mode = "TableView" /\ kept' = FindAll(e.filtered, e.ordering, e.view[1])
    <2>1. CASE res.policy = "Never"
      BY <1>3, <1>4, <1>5, <1>8, <2>1 DEF SnapshotInv, ViewInv
    <2>2. CASE res.policy # "Never"
      <3>1. q.r.mode \in {"Query", "TableView"}
        BY <1>4, <1>8 DEF SnapshotInv, ModeInv
      <3>2. Rows(q) = FindAll(e.filtered, e.ordering, e.view[1])
        BY <1>1, <1>4, <2>2, <3>1, RowsOfView
      <3> QED
        BY <1>3, <1>4, <1>5, <2>2, <3>1, <3>2
    <2> QED
      BY <2>1, <2>2
  <1>9. ViewInv'
    BY <1>3, <1>6, <1>8 DEF ViewInv, FindAll
  <1> QED
    BY <1>7, <1>9 DEF SnapshotInv

LEMMA FreezeStep == SnapshotInv /\ Freeze => SnapshotInv'
  <1> SUFFICES ASSUME SnapshotInv, Freeze PROVE SnapshotInv'
    OBVIOUS
  <1>1. IsResults(res) /\ src' = src
    BY DEF SnapshotInv, ModeInv, Freeze
  <1>2. IsResults(res') /\ res'.policy = "Auto" /\ res'.mode = res.mode
    BY <1>1 DEF Freeze, NewResults, IsResults
  <1> QED
    BY <1>1, <1>2, Replaces DEF SnapshotInv, ModeInv

LEMMA NextStep == SnapshotInv /\ [ResultsNext]_rsVars => SnapshotInv'
  <1> SUFFICES ASSUME SnapshotInv, [ResultsNext]_rsVars PROVE SnapshotInv'
    OBVIOUS
  <1>1. ASSUME src' = src, kept' = kept, res' = res PROVE SnapshotInv'
    BY <1>1, Evaluates DEF SnapshotInv, ModeInv
  <1>2. CASE UNCHANGED rsVars
    BY <1>1, <1>2 DEF rsVars
  <1>3. CASE Use
    BY <1>3, UseStep
  <1>4. CASE Size
    BY <1>4, SizeStep
  <1>5. CASE Aggregate
    BY <1>5, AggregateStep
  <1>6. CASE AddNotificationCallback
    BY <1>1, <1>6 DEF AddNotificationCallback, world, Unsnapped
  <1>7. CASE (\E d \in {"sort", "distinct"} : SortOrDistinct(d)) \/ SortLinkList \/ Filter \/ Limit
    BY <1>7, DerivedStep
  <1>8. CASE Snapshot
    BY <1>8, SnapshotStep
  <1>9. CASE Freeze
    BY <1>9, FreezeStep
  <1>10. CASE OtherResultsOfList
    BY <1>1, <1>10 DEF OtherResultsOfList, world
  <1>11. CASE BeginTransaction
    BY <1>1, <1>11 DEF BeginTransaction, Reads, Unsnapped
  <1>12. CASE \E c \in Contents : Edit(c)
    BY <1>1, <1>12 DEF Edit, Reads, Unsnapped
  <1>13. CASE Clear
    BY <1>13, ClearStep
  <1>14. CASE CommitTransaction
    BY <1>1, <1>14 DEF CommitTransaction, Reads, Unsnapped
  <1>15. CASE CancelTransaction
    BY <1>1, <1>15 DEF CancelTransaction, Reads, Unsnapped
  <1>16. CASE \E c \in Contents : OtherCommit(c)
    BY <1>1, <1>16 DEF OtherCommit, Unsnapped
  <1>17. CASE RunNotifier
    BY <1>1, <1>17 DEF RunNotifier, world, Unsnapped
  <1>18. CASE Deliver
    BY <1>1, <1>18 DEF Deliver, Reads, Unsnapped
  <1>19. CASE Refresh
    BY <1>1, <1>19 DEF Refresh, Reads, Unsnapped
  <1> QED
    BY <1>2, <1>3, <1>4, <1>5, <1>6, <1>7, <1>8, <1>9, <1>10, <1>11, <1>12, <1>13, <1>14, <1>15,
       <1>16, <1>17, <1>18, <1>19 DEF ResultsNext

LEMMA InitHolds == ResultsInit => SnapshotInv
  <1> SUFFICES ASSUME ResultsInit PROVE SnapshotInv
    OBVIOUS
  <1>1. PICK mode, ordering, filtered :
            /\ \/ res = NewResults(mode, ordering, filtered)
               \/ res = [NewResults(mode, ordering, filtered) EXCEPT !.view = file]
            /\ src # "prims" => mode \in {"Table", "LinkList", "Query", "TableView"}
            /\ src = "prims" => mode = "List"
    <2>1. CASE src = "table"
      BY <2>1 DEF ResultsInit
    <2>2. CASE src = "links"
      BY <2>2 DEF ResultsInit
    <2>3. CASE src = "prims"
      BY <2>3 DEF ResultsInit
    <2> QED
      BY <2>1, <2>2, <2>3 DEF ResultsInit
  <1>2. IsResults(res) /\ res.mode = mode /\ res.policy = "Auto"
    BY <1>1 DEF NewResults, IsResults
  <1> QED
    BY <1>1, <1>2 DEF SnapshotInv, ModeInv, ViewInv

\* A snapshot of objects keeps its rows whatever happens to the objects, the list or the
\* Realm, and even if it is cleared (results.hpp:137): for every content a transaction may
\* write, any number of versions and descriptors, and whatever a query finds in them.
THEOREM SnapshotsAreKept == ResultsSpec => []SnapshotKept
  <1>1. ResultsSpec => []SnapshotInv
    BY InitHolds, NextStep, PTL DEF ResultsSpec
  <1> QED
    BY <1>1, SnapshotInvSuffices, PTL

=============================================================================
