------------------------------- MODULE Results -------------------------------
(***************************************************************************)
(* Results: a live query over the objects of a table or of a list of       *)
(* links, or a live list of values. It turns from a table, a list of links *)
(* or a query into a table view as it is used, takes over the view (or the *)
(* sorted indices) a ResultsNotifier delivers, is derived from, is         *)
(* snapshotted and frozen, while its Realm reads, writes and is refreshed. *)
(*                                                                         *)
(* Content is [objs |-> key -> value, links |-> keys, prims |-> values].   *)
(* A table view, and the indices of a sorted list, are kept as the content *)
(* they were computed of.                                                  *)
(***************************************************************************)
EXTENDS Integers, Sequences, SequencesExt

CONSTANTS
    TableContents, LinkContents, PrimContents,  \* what transactions may write
    MaxVersions,      \* versions of the file
    MaxDescriptors    \* descriptors in an ordering

ASSUME ResultsAssumption == MaxVersions \in Nat \ {0} /\ MaxDescriptors \in Nat

VARIABLES
    src,          \* what it is a Results of: "table", "links" or "prims"
    file,         \* the content of every version
    at,           \* the version the Realm reads
    draft,        \* <<the content>> in a write transaction, else <<>>
    pinned,       \* <<the content>> of the frozen Realm, or <<>> if not frozen
    res,          \* the Results
    notifier,     \* its ResultsNotifier or ListResultsNotifier
    listChanged,  \* would m_list->has_changed() say so?
    \* history
    kept,         \* what a snapshot showed when it was taken
    lostSort,     \* has a list of links lost a sort it was given?
    askedElsewhere \* has another Results of the list asked has_changed()?

rsVars == <<src, file, at, draft, pinned, res, notifier, listChanged, kept, lostSort, askedElsewhere>>
world == <<src, file, at, draft, pinned>>

Contents == CASE src = "table" -> TableContents [] src = "links" -> LinkContents
              [] src = "prims" -> PrimContents
Writing == draft # <<>>
Latest == Last(file)
\* The content the Results reads.
Visible == IF pinned # <<>> THEN pinned[1] ELSE IF Writing THEN draft[1] ELSE file[at]

-----------------------------------------------------------------------------
(* The database: what a query finds, in which order. Sorting is by         *)
(* descending value, distinct by value, the limit is 1 and a filter asks   *)
(* for the value 1.                                                        *)

TableOrder(c) == SetToSortSeq(DOMAIN c.objs, <)
Sorted(s, Value(_)) ==
    LET idx == SetToSortSeq(DOMAIN s, LAMBDA i, j : \/ Value(s[i]) > Value(s[j])
                                                    \/ (Value(s[i]) = Value(s[j]) /\ i < j))
    IN  [i \in DOMAIN idx |-> s[idx[i]]]
Firsts(s, Value(_)) ==
    LET idx == SetToSortSeq({i \in DOMAIN s : \A j \in 1..(i - 1) : Value(s[j]) # Value(s[i])}, <)
    IN  [i \in DOMAIN idx |-> s[idx[i]]]
Ordered(s, ordering, Value(_)) ==
    LET Apply(t, d) == CASE d = "sort" -> Sorted(t, Value)
                         [] d = "distinct" -> Firsts(t, Value)
                         [] d = "limit" -> SubSeq(t, 1, IF Len(t) > 0 THEN 1 ELSE 0)
    IN  FoldLeft(Apply, s, ordering)

FoundIn(of, filtered, ordering, c) ==
    LET Value(k) == c.objs[k]
        all == IF of = "links" THEN c.links ELSE TableOrder(c)
    IN  Ordered(SelectSeq(all, LAMBDA k : ~filtered \/ c.objs[k] = 1), ordering, Value)
FindAll(filtered, ordering, c) == FoundIn(src, filtered, ordering, c)

\* distinct() and sort() of a list of values give indices; of several sorts the last counts.
ListIndices(ordering, c) ==
    LET Value(i) == c.prims[i]
        Has(d) == d \in ToSet(ordering)
        all == [i \in DOMAIN c.prims |-> i]
        kinds == (IF Has("sort") THEN <<"sort">> ELSE <<>>) \o (IF Has("distinct") THEN <<"distinct">> ELSE <<>>)
    IN  Ordered(all, kinds, Value)

-----------------------------------------------------------------------------
(* The notifier.                                                           *)

NoNotifier ==
    [on |-> FALSE, callbacks |-> FALSE, ran |-> FALSE, used |-> TRUE, last |-> <<>>,
     handover |-> <<>>, handoverAt |-> 0, delivered |-> <<>>, deliveredAt |-> 0]

\* get_tableview(): not in a write transaction, and only for the version the Realm reads.
CanGetTableview(n) ==
    /\ n.on /\ src # "prims"
    /\ n.delivered # <<>>
    /\ ~Writing
    /\ n.deliveredAt = at
\* get_list_indices(): also in a write transaction.
CanGetListIndices(n) == n.on /\ n.delivered # <<>> /\ n.deliveredAt = at
Taken(n) == [n EXCEPT !.delivered = <<>>]

\* prepare_async(): a Results that is frozen or in a write transaction gets no notifier,
\* nor does one that needs no query, unless there is a callback for it.
PrepareAsync(r, n, forCallback) ==
    IF \/ n.on \/ pinned # <<>> \/ Writing \/ r.policy = "Never"
       \/ (~forCallback /\ ~r.hasQuery /\ r.ordering = <<>>)
    THEN n
    ELSE [NoNotifier EXCEPT !.on = TRUE]

-----------------------------------------------------------------------------
(* The Results.                                                            *)

NewResults(mode, ordering, filtered) ==
    [mode |-> mode, policy |-> "Auto", ordering |-> ordering, filtered |-> filtered,
     hasQuery |-> mode = "Query", view |-> <<>>, indices |-> <<>>]

\* Variant for the mutation check: the view of a notifier is taken whatever the version.
DoEvaluateQueryAnyVersion(s, wantsNotifications) ==
    IF s.r.policy = "Never" \/ s.r.mode \notin {"Query", "TableView"} THEN s
    ELSE IF s.r.mode = "Query" /\ s.n.on /\ s.n.delivered # <<>> /\ ~Writing
    THEN [r |-> [s.r EXCEPT !.mode = "TableView", !.view = s.n.delivered], n |-> Taken(s.n)]
    ELSE [r |-> [s.r EXCEPT !.mode = "TableView", !.view = <<Visible>>],
          n |-> IF wantsNotifications /\ ~s.n.on
                THEN PrepareAsync([s.r EXCEPT !.mode = "TableView"], s.n, FALSE) ELSE s.n]

\* do_evaluate_query_if_needed() of the Results and its notifier.
DoEvaluateQuery(s, wantsNotifications) ==
    IF s.r.policy = "Never" \/ s.r.mode \notin {"Query", "TableView"} THEN s
    ELSE IF s.r.mode = "Query" /\ CanGetTableview(s.n)
    THEN [r |-> [s.r EXCEPT !.mode = "TableView", !.view = s.n.delivered], n |-> Taken(s.n)]
    ELSE [r |-> [s.r EXCEPT !.mode = "TableView", !.view = <<Visible>>],
          n |-> IF wantsNotifications /\ ~s.n.on
                THEN PrepareAsync([s.r EXCEPT !.mode = "TableView"], s.n, FALSE)
                ELSE IF CanGetTableview(s.n) THEN Taken(s.n) ELSE s.n]

\* evaluate_sort_and_distinct_on_list()
DoEvaluateList(s) ==
    LET got == CanGetListIndices(s.n)
        r1 == [s.r EXCEPT !.indices = IF got THEN s.n.delivered ELSE @]
        n1 == IF got THEN Taken(s.n) ELSE s.n
    IN  IF s.r.mode # "List" \/ s.r.ordering = <<>> THEN s
        ELSE IF (got /\ ~Writing) \/ (~listChanged /\ r1.indices # <<>>) THEN [r |-> r1, n |-> n1]
        ELSE [r |-> [r1 EXCEPT !.indices = <<Visible>>], n |-> n1]

\* has_changed() is asked unless indices of the notifier do.
AsksHasChanged(s) ==
    s.r.mode = "List" /\ s.r.ordering # <<>> /\ ~(CanGetListIndices(s.n) /\ ~Writing)

\* get_query() takes the place of the list or table.
AsQuery(s) == [r |-> [s.r EXCEPT !.mode = "Query", !.hasQuery = TRUE], n |-> s.n]

\* A list of links with an ordering becomes a query when it is used.
UpdateLinkList(s) ==
    IF s.r.mode = "LinkList" /\ s.r.ordering # <<>> THEN AsQuery(s) ELSE s

Now == [r |-> res, n |-> notifier]
\* get(), first(), index_of(), get_tableview()
Evaluated(s) == DoEvaluateQuery(DoEvaluateList(UpdateLinkList(s)), TRUE)

\* The rows get() gives, one after the other: keys, or values of a list.
Rows(s) ==
    LET e == Evaluated(s).r
    IN  CASE e.mode = "Table" -> TableOrder(Visible)
          [] e.mode = "LinkList" -> Visible.links
          [] e.mode = "TableView" -> FindAll(e.filtered, e.ordering, e.view[1])
          [] e.mode = "List" ->
                 IF e.indices = <<>> THEN Visible.prims
                 ELSE LET idx == ListIndices(e.ordering, e.indices[1])
                      IN  [i \in DOMAIN idx |-> IF idx[i] \in DOMAIN Visible.prims
                                                THEN Visible.prims[idx[i]] ELSE "out of bounds"]

\* size(): without distinct, a query counts and does not become a view.
CountsOnly(r) == r.mode = "Query" /\ "distinct" \notin ToSet(r.ordering)
SizeOf(s) ==
    CASE s.r.mode = "LinkList" -> Len(Visible.links)
      [] CountsOnly(s.r) -> Len(FindAll(s.r.filtered, s.r.ordering, Visible))
      [] OTHER -> Len(Rows(s))

-----------------------------------------------------------------------------
ResultsInit ==
    /\ src \in {"table", "links", "prims"}
    /\ file \in {<<c>> : c \in Contents}
    /\ at = 1
    /\ draft = <<>>
    /\ pinned = <<>>
    /\ res \in CASE src = "table" -> {NewResults("Table", <<>>, FALSE), NewResults("Query", <<>>, TRUE),
                                      [NewResults("TableView", <<>>, TRUE) EXCEPT !.view = file]}
                 [] src = "links" -> {NewResults("LinkList", <<>>, FALSE), NewResults("LinkList", <<"sort">>, FALSE),
                                      NewResults("Query", <<>>, TRUE)}
                 [] src = "prims" -> {NewResults("List", <<>>, FALSE), NewResults("List", <<"sort">>, FALSE)}
    /\ notifier = NoNotifier
    /\ listChanged = TRUE
    /\ kept = <<>>
    /\ lostSort = FALSE
    /\ askedElsewhere = FALSE

Becoming(s) == res' = s.r /\ notifier' = s.n
Unsnapped == UNCHANGED <<kept, lostSort, askedElsewhere>>

Use ==
    /\ Becoming(Evaluated(Now))
    /\ listChanged' = (listChanged /\ ~AsksHasChanged(Now))
    /\ UNCHANGED world /\ Unsnapped

Size ==
    /\ Becoming(IF res.mode = "LinkList" \/ CountsOnly(res) THEN Now ELSE DoEvaluateQuery(DoEvaluateList(Now), TRUE))
    /\ listChanged' = (listChanged /\ ~AsksHasChanged(Now))
    /\ UNCHANGED world /\ Unsnapped

\* min(), max(), sum() and average() make a query of any list of links; those of a list
\* of values and of a table leave it alone.
Aggregate ==
    /\ Becoming(DoEvaluateQuery(IF res.mode = "LinkList" THEN AsQuery(Now) ELSE Now, TRUE))
    /\ UNCHANGED <<world, listChanged>> /\ Unsnapped

\* A list of values is the only other Results a callback gets a notifier of its own for.
AddNotificationCallback ==
    /\ pinned = <<>> /\ ~Writing
    /\ res.policy # "Never"
    /\ notifier' = [PrepareAsync(res, notifier, TRUE) EXCEPT !.callbacks = TRUE]
    /\ UNCHANGED <<world, res, listChanged>> /\ Unsnapped

\* A Results derived from this one, with a query of its own, replaces it.
Derive(r) ==
    /\ res' = r
    /\ notifier' = NoNotifier
    /\ UNCHANGED <<world, listChanged>> /\ Unsnapped

SortOrDistinct(d) ==
    /\ Len(res.ordering) < MaxDescriptors
    /\ ~(res.mode = "LinkList" /\ d = "sort")
    /\ Derive(NewResults(IF res.mode = "List" THEN "List" ELSE "Query", Append(res.ordering, d), res.filtered))

\* sort() of a list of links hands the descriptor on after it was moved into the ordering
\* that the other branches use: the new Results has it or, if append_sort() took it over,
\* has none. An earlier ordering is dropped either way.
SortLinkList ==
    /\ res.mode = "LinkList"
    /\ \E ordering \in {<<>>, <<"sort">>} :
           /\ res' = NewResults("LinkList", ordering, FALSE)
           /\ lostSort' = (ordering = <<>>)
    /\ notifier' = NoNotifier
    /\ UNCHANGED <<world, listChanged, kept, askedElsewhere>>

Filter ==
    /\ src # "prims"
    /\ "limit" \notin ToSet(res.ordering)
    /\ Derive(NewResults("Query", res.ordering, TRUE))

Limit ==
    /\ src # "prims"
    /\ Len(res.ordering) < MaxDescriptors
    /\ Derive(NewResults("Query", Append(res.ordering, "limit"), res.filtered))

\* A snapshot of a list of values stays a List.
Snapshot ==
    LET q == IF res.mode \in {"Table", "LinkList"} THEN AsQuery(Now) ELSE Now
        s == DoEvaluateQuery(q, FALSE)
    IN  /\ src = "prims" => res.policy = "Auto"
        /\ res' = [s.r EXCEPT !.policy = "Never"]
        /\ notifier' = NoNotifier
        /\ kept' = IF res.policy = "Never" THEN kept ELSE Rows(q)
        /\ UNCHANGED <<world, listChanged, lostSort, askedElsewhere>>

\* freeze(): a list of links is imported without its ordering.
Freeze ==
    /\ pinned = <<>> /\ ~Writing
    /\ pinned' = <<file[at]>>
    /\ res' = CASE res.mode = "LinkList" -> NewResults("LinkList", <<>>, FALSE)
                [] res.mode = "TableView" -> [res EXCEPT !.policy = "Auto", !.view = <<file[at]>>]
                [] OTHER -> NewResults(res.mode, res.ordering, res.filtered)
    /\ notifier' = NoNotifier
    /\ listChanged' = TRUE
    /\ lostSort' = (res.mode = "LinkList" /\ res.ordering # <<>>)
    /\ UNCHANGED <<src, file, at, draft, kept, askedElsewhere>>

\* Another Results, made from the same List, is used.
OtherResultsOfList ==
    /\ src = "prims" /\ listChanged
    /\ listChanged' = FALSE
    /\ askedElsewhere' = TRUE
    /\ UNCHANGED <<world, res, notifier, kept, lostSort>>

-----------------------------------------------------------------------------
(* The Realm, other writers and the background worker.                     *)

Without(c, keys) ==
    [c EXCEPT !.objs = [k \in DOMAIN c.objs \ keys |-> c.objs[k]],
              !.links = SelectSeq(@, LAMBDA k : k \notin keys)]

\* The Realm goes to version v and to content c.
Reads(v, c) ==
    /\ at' = v
    /\ listChanged' = (listChanged \/ (pinned = <<>> /\ c # Visible))
    /\ UNCHANGED <<src, pinned>> /\ Unsnapped

\* What happens after the Results is frozen no longer concerns it and is left out.
BeginTransaction ==
    /\ ~Writing /\ at = Len(file) /\ pinned = <<>>
    /\ Len(file) < MaxVersions
    /\ notifier.ran => notifier.handoverAt = at /\ notifier.handover = <<>>
    /\ draft' = <<file[at]>>
    /\ UNCHANGED <<file, res, notifier>> /\ Reads(at, file[at])

Edit(c) ==
    /\ Writing
    /\ draft' = <<c>>
    /\ UNCHANGED <<file, res, notifier>> /\ Reads(at, c)

\* Variant for the mutation check: a snapshot is cleared like a live view.
ClearWithoutCopy ==
    LET s == DoEvaluateQuery(Now, TRUE)
        c == CASE res.mode = "Table" -> Without(Visible, DOMAIN Visible.objs)
               [] res.mode = "List" -> [Visible EXCEPT !.prims = <<>>]
               [] res.mode = "LinkList" -> Without(Visible, ToSet(Visible.links))
               [] OTHER -> Without(Visible, ToSet(FindAll(s.r.filtered, s.r.ordering, s.r.view[1])))
    IN  /\ Writing /\ pinned = <<>>
        /\ draft' = <<c>>
        /\ res' = IF s.r.mode = "TableView" THEN [s.r EXCEPT !.view = <<c>>] ELSE s.r
        /\ notifier' = s.n
        /\ UNCHANGED file /\ Reads(at, c)

\* clear(): deletes the objects the Results shows, or the values of the list. A snapshot
\* keeps its view.
Clear ==
    LET s == DoEvaluateQuery(Now, TRUE)
        c == CASE res.mode = "Table" -> Without(Visible, DOMAIN Visible.objs)
               [] res.mode = "List" -> [Visible EXCEPT !.prims = <<>>]
               [] res.mode = "LinkList" -> Without(Visible, ToSet(Visible.links))
               [] OTHER -> Without(Visible, ToSet(FindAll(s.r.filtered, s.r.ordering, s.r.view[1])))
    IN  /\ Writing /\ pinned = <<>>
        /\ draft' = <<c>>
        /\ res' = IF res.policy = "Auto" /\ s.r.mode = "TableView" THEN [s.r EXCEPT !.view = <<c>>] ELSE s.r
        /\ notifier' = s.n
        /\ UNCHANGED file /\ Reads(at, c)

CommitTransaction ==
    /\ Writing
    /\ file' = Append(file, draft[1])
    /\ draft' = <<>>
    /\ UNCHANGED <<res, notifier>> /\ Reads(at + 1, draft[1])

CancelTransaction ==
    /\ Writing
    /\ draft' = <<>>
    /\ UNCHANGED <<file, res, notifier>> /\ Reads(at, file[at])

OtherCommit(c) ==
    /\ ~Writing /\ pinned = <<>>
    /\ Len(file) < MaxVersions
    /\ file' = Append(file, c)
    /\ UNCHANGED <<src, at, draft, pinned, res, notifier, listChanged>> /\ Unsnapped

\* need_to_run(): somebody wants the rows, and what they were read from has changed.
Wanted(n) == n.callbacks \/ n.used
QueryNeedsToRun(n) == Wanted(n) /\ (~n.ran \/ n.last # <<Latest>>)
ListNeedsToRun(n) == Wanted(n) /\ (~n.ran \/ n.last = <<>> \/ n.last[1].prims # Latest.prims)

\* do_prepare_handover(): what was not fetched of the run before is dropped.
HandedOver(n, run) ==
    [n EXCEPT !.ran = TRUE,
              !.last = IF run THEN <<Latest>> ELSE @,
              !.handover = IF run THEN <<Latest>> ELSE <<>>,
              !.handoverAt = Len(file)]

RunNotifier ==
    /\ notifier.on
    /\ notifier' = HandedOver(notifier, IF src = "prims" THEN ListNeedsToRun(notifier)
                                        ELSE QueryNeedsToRun(notifier))
    /\ UNCHANGED <<world, res, listChanged>> /\ Unsnapped

\* prepare_to_deliver()
TakeHandover(n) ==
    [n EXCEPT !.used = n.delivered = <<>>, !.delivered = n.handover,
              !.deliveredAt = n.handoverAt, !.handover = <<>>]
QueryPrepareToDeliver(n) ==
    IF n.handover # <<>> THEN TakeHandover(n)
    ELSE [n EXCEPT !.delivered = IF at > n.deliveredAt THEN <<>> ELSE @]
ListPrepareToDeliver(n) == IF n.handover # <<>> THEN TakeHandover(n) ELSE n

\* The rows are delivered and the Realm advances to their version.
Deliver ==
    LET n == notifier
    IN  /\ ~Writing /\ n.on /\ n.ran
        /\ n.handoverAt >= at
        /\ notifier' = IF src = "prims" THEN ListPrepareToDeliver(n) ELSE QueryPrepareToDeliver(n)
        /\ UNCHANGED <<file, draft, res>> /\ Reads(n.handoverAt, file[n.handoverAt])

\* A Realm without notifiers that have run just goes to the latest version.
Refresh ==
    /\ ~Writing /\ ~notifier.ran
    /\ UNCHANGED <<file, draft, res, notifier>> /\ Reads(Len(file), Latest)

ResultsNext ==
    \/ Use \/ Size \/ Aggregate \/ AddNotificationCallback
    \/ (\E d \in {"sort", "distinct"} : SortOrDistinct(d)) \/ SortLinkList
    \/ Filter \/ Limit \/ Snapshot \/ Freeze \/ OtherResultsOfList
    \/ BeginTransaction \/ (\E c \in Contents : Edit(c)) \/ Clear
    \/ CommitTransaction \/ CancelTransaction
    \/ (\E c \in Contents : OtherCommit(c))
    \/ RunNotifier \/ Deliver \/ Refresh

ResultsSpec == ResultsInit /\ [][ResultsNext]_rsVars

-----------------------------------------------------------------------------
\* What the Results is meant to show: all of what it was derived from, as it is now.
Meant(r) ==
    IF src = "prims"
    THEN LET idx == ListIndices(r.ordering, Visible) IN [i \in DOMAIN idx |-> Visible.prims[idx[i]]]
    ELSE FindAll(r.filtered, r.ordering, Visible)

\* A Results that is not a snapshot shows exactly what its source contains now, filtered
\* and ordered, and size() says how much that is: whatever it was turned into, whatever
\* was delivered for which version, before, in and after a write transaction, cancelled
\* or not (results.cpp:363, results_notifier.cpp:83, 241). Two things are left out: a
\* list of links that lost its sort, because it was frozen before it was used or by the
\* moved-from descriptor of sort(), and a list of which another Results was the first to
\* learn that it has changed.
ShowsCurrent ==
    res.policy = "Auto" /\ ~lostSort /\ ~askedElsewhere =>
        Rows(Now) = Meant(res) /\ SizeOf(Now) = Len(Meant(res))

\* A snapshot of objects keeps its rows, deleted ones included, whatever happens to the
\* objects, the list or the Realm, and even if it is cleared (results.hpp:137).
SnapshotKept == res.policy = "Never" /\ src # "prims" => Rows(Now) = kept /\ SizeOf(Now) = Len(kept)

=============================================================================
