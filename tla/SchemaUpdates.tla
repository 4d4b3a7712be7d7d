---------------------------- MODULE SchemaUpdates ----------------------------
(***************************************************************************)
(* The schema of a Realm, of its file and of the coordinator's cache:      *)
(* opening a Realm, update_schema, set_schema_subset, and the advances of  *)
(* the read transaction that meet a schema changed by somebody else        *)
(* (shared_realm.cpp, realm_coordinator.cpp).                              *)
(*                                                                         *)
(* The Realms of one process share a coordinator and run on threads of     *)
(* their own; another process changes the same file.  update_schema is     *)
(* four steps, for between them the others run: it decides outside the     *)
(* write transaction, it changes the file in one, it commits, and it       *)
(* caches the new schema.  Callers that pass in_transaction, immutable     *)
(* Realms and initialization functions (which change no schema) are left   *)
(* out.                                                                    *)
(***************************************************************************)
EXTENDS ObjectStore, Sequences

CONSTANTS
    SchemaRealms,   \* the Realms of the process, each on a thread of its own
    Targets,        \* the schemas update_schema and set_schema_subset are called with
    Foreign,        \* the schemas the other process updates the file to
    SchemaModes,    \* the schema modes the file is opened with
    Numbers,        \* the schema versions
    Migrations,     \* the migration functions used in each mode
    MaxTransactions \* bound: the transaction versions of the file

\* The coordinator refuses to open a file with the version that stands for none.
ASSUME NumbersAssumption == NotVersioned \notin Numbers
ASSUME ModesAssumption ==
    SchemaModes \subseteq {"Automatic", "ReadOnly", "ResetFile", "Additive", "Manual"}

VARIABLES
    mode,     \* the schema mode, the same for all Realms of a path
    groups,   \* the committed versions of the file
    writer,   \* the Realm in the write transaction of update_schema, or {}
    cache,    \* the coordinator's cached schema
    realms,   \* the Realms
    broken    \* what went wrong: "leftover" (a stale m_new_schema was used), "assert"

suVars == <<mode, groups, writer, cache, realms, broken>>

NoSchema == [known |-> FALSE, schema |-> EmptySchema]
KnownSchema(s) == [known |-> TRUE, schema |-> s]
Idle == [phase |-> "idle"]

LatestGroup == Len(groups)

\* A closed Realm; an open one has the members of Realm: m_dynamic_schema, m_schema,
\* m_schema_version, m_schema_transaction_version, m_new_schema, the version of
\* m_group (0: none); doubt says how its schema came to go unverified.
Closed == [open |-> FALSE, dynamic |-> TRUE, schema |-> EmptySchema, version |-> NotVersioned,
           txv |-> 0, new |-> NoSchema, group |-> 0, doubt |-> {}, up |-> Idle]

\* What the schema change notification of the storage engine is about: tables and
\* columns added, removed or renamed.
Layout(tables) == [ty \in DOMAIN tables |-> [n \in DOMAIN tables[ty].cols |-> tables[ty].cols[n].key]]

LayoutOf(schema) == [ty \in DOMAIN schema |-> [n \in DOMAIN schema[ty].props |-> schema[ty].props[n].key]]

SameLayout(g, h) == Layout(g.tables) = Layout(h.tables)

\* The transaction logs from version v on add, remove or rename tables or columns, even
\* if a later one takes back what an earlier one did.
LayoutMoved(v) == \E i \in v .. Len(groups) - 1 : ~SameLayout(groups[i], groups[i + 1])

\* The transaction log of a version removes or renames a table or a column.
Removes(g, h) ==
    \E ty \in DOMAIN g.tables :
       \/ ty \notin DOMAIN h.tables
       \/ \E n \in DOMAIN g.tables[ty].cols :
             \/ n \notin DOMAIN h.tables[ty].cols
             \/ h.tables[ty].cols[n].key # g.tables[ty].cols[n].key

-----------------------------------------------------------------------------
(* The coordinator's cache.                                                *)

\* cache_schema: an older, an empty and an unversioned schema is not cached.
CacheSchema(c, schema, version, txv) ==
    IF txv < c.max \/ schema = EmptySchema \/ version = NotVersioned THEN c
    ELSE [known |-> TRUE, schema |-> schema, version |-> version, min |-> txv, max |-> txv]

ClearCache(c, version) == [c EXCEPT !.known = FALSE, !.schema = EmptySchema, !.version = version]

\* Variant for the mutation check: the cache is extended whatever versions it holds.
AdvanceCacheAlways(c, previous, next) ==
    IF ~c.known THEN c
    ELSE [c EXCEPT !.min = IF previous < @ THEN previous ELSE @,
                   !.max = IF next > @ THEN next ELSE @]

\* advance_schema_cache.
AdvanceCache(c, previous, next) ==
    IF ~c.known \/ next < c.min THEN c
    ELSE [c EXCEPT !.min = IF previous < @ THEN previous ELSE @,
                   !.max = IF next > @ THEN next ELSE @]

\* advance_schema_cache asserts that the Realm knows no later version than the cache.
AdvanceAsserts(c, previous) == c.known => previous <= c.max

-----------------------------------------------------------------------------
(* Steps of a Realm on [realm, cache, ok, broken]; what throws is not ok.     *)

State(r) == [realm |-> realms[r], cache |-> cache, ok |-> TRUE, broken |-> broken]

\* The schema change handler, called with the version read now.
OnSchemaChange(q, g) ==
    LET s == SchemaFromGroup(g)
        unverified == \E ty \in DOMAIN q.schema \cap DOMAIN s :
                         \E n \in DOMAIN q.schema[ty].props : q.schema[ty].props[n].key = NoColumn
    IN [q EXCEPT !.new = KnownSchema(s), !.version = g.version,
                 !.schema = IF q.dynamic THEN s ELSE CopyKeysFrom(@, s),
                 !.doubt = IF unverified THEN @ \cup {"named"} ELSE @]

\* cache_new_schema.
CacheNewSchema(st) ==
    LET q == st.realm
    IN [st EXCEPT
          !.cache = IF q.new.known THEN CacheSchema(@, q.new.schema, q.version, q.group)
                    ELSE AdvanceCache(@, q.txv, q.group),
          !.realm = [q EXCEPT !.txv = q.group, !.new = NoSchema],
          !.broken = @ \cup (IF q.new.known
                             THEN IF LayoutOf(q.new.schema) = Layout(groups[q.group].tables)
                                  THEN {} ELSE {"leftover"}
                             ELSE IF AdvanceAsserts(st.cache, q.txv) THEN {} ELSE {"assert"})]

\* read_schema_from_group_if_needed; it may throw with m_group and the version set.
ReadSchemaIfNeeded(st) ==
    LET q == st.realm
        g == groups[q.group]
        s == SchemaFromGroup(g)
        seen == [q EXCEPT !.txv = q.group, !.version = g.version]
        fine == q.dynamic \/ ValidExternalChanges(Compare(q.schema, s, FALSE))
    IN IF q.txv = q.group THEN st
       ELSE [st EXCEPT
               !.cache = CacheSchema(@, s, g.version, q.group),
               !.ok = fine,
               !.realm = IF ~fine THEN [seen EXCEPT !.doubt = @ \cup {"thrown"}]
                         ELSE [seen EXCEPT !.schema = IF q.dynamic THEN s ELSE CopyKeysFrom(@, s)]]

\* begin_read at the latest version.
BeginRead(st) == ReadSchemaIfNeeded([st EXCEPT !.realm.group = LatestGroup])

\* The advance over the versions since the one read: it does not happen when one of
\* them removes something, and the handler runs when the layout changed.
Advance(st) ==
    LET q == st.realm
        removed == \E v \in q.group .. LatestGroup - 1 : Removes(groups[v], groups[v + 1])
        here == [q EXCEPT !.group = LatestGroup]
    IN IF removed THEN [st EXCEPT !.ok = FALSE]
       ELSE [st EXCEPT !.realm = IF ~LayoutMoved(q.group) THEN here
                                 ELSE OnSchemaChange(here, groups[LatestGroup])]

\* do_refresh.
DoRefresh(st) ==
    IF st.realm.group = 0 THEN BeginRead(st)
    ELSE LET next == Advance(st) IN IF next.ok THEN CacheNewSchema(next) ELSE next

\* get_full_schema, after its refresh.
FullSchema(st) ==
    IF st.realm.dynamic THEN st.realm.schema
    ELSE IF st.cache.known /\ st.cache.max = st.realm.group THEN st.cache.schema
    ELSE SchemaFromGroup(groups[st.realm.group])

\* schema_change_needs_write_transaction: "no", "yes", "reset" or "throw".
NeedsWrite(q, changes, version) ==
    LET older == version < q.version /\ q.version # NotVersioned
    IN IF version = q.version /\ changes = {} THEN "no"
       ELSE CASE mode = "Automatic" -> IF older THEN "throw" ELSE "yes"
              [] mode = "ReadOnly" -> IF CompatibleForReadOnly(changes) THEN "no" ELSE "throw"
              [] mode = "ResetFile" ->
                    IF \/ q.version = NotVersioned
                       \/ q.version = version /\ ~NeedsMigration(changes)
                    THEN "yes" ELSE "reset"
              [] mode = "Additive" ->
                    IF ~ValidAdditiveChanges(changes) THEN "throw"
                    ELSE IF AdditiveWrites(changes, version > q.version) \/ version # q.version
                    THEN "yes" ELSE "no"
              [] mode = "Manual" ->
                    IF older \/ version = q.version THEN "throw" ELSE "yes"

\* set_schema.
SetSchema(q, reference, target) ==
    [q EXCEPT !.dynamic = FALSE, !.schema = CopyKeysFrom(target, reference), !.doubt = {}]

\* Nothing else holds the file: what reset_file needs of its caller.
Alone(r) == \A o \in SchemaRealms \ {r} : ~realms[o].open

RealmBecomes(r, st) ==
    /\ realms' = [realms EXCEPT ![r] = st.realm]
    /\ cache' = st.cache
    /\ broken' = st.broken

-----------------------------------------------------------------------------
(* Actions.                                                                *)

\* A file that does not exist yet; the other process may be the first to write its schema.
SchemaUpdatesInit ==
    /\ mode \in SchemaModes
    /\ groups = <<EmptyGroup>>
    /\ writer = {}
    /\ cache = [known |-> FALSE, schema |-> EmptySchema, version |-> NotVersioned,
                min |-> 0, max |-> 0]
    /\ realms = [r \in SchemaRealms |-> Closed]
    /\ broken = {}

\* Realm::Realm: the schema is the cached one, or read from the file and then cached.
Open(r) ==
    LET q == [Closed EXCEPT !.open = TRUE]
        got == [q EXCEPT !.schema = cache.schema, !.version = cache.version, !.txv = cache.max]
        read == [q EXCEPT !.schema = SchemaFromGroup(groups[LatestGroup]),
                          !.version = groups[LatestGroup].version, !.txv = LatestGroup]
    IN /\ ~realms[r].open
       /\ RealmBecomes(r, IF cache.known THEN [State(r) EXCEPT !.realm = got]
                     ELSE [State(r) EXCEPT !.realm = read,
                             !.cache = CacheSchema(@, read.schema, read.version, LatestGroup)])
       /\ UNCHANGED <<mode, groups, writer>>

IsIdle(r) == realms[r].open /\ realms[r].up.phase = "idle"

Close(r) ==
    /\ IsIdle(r)
    /\ realms' = [realms EXCEPT ![r] = Closed]
    /\ UNCHANGED <<mode, groups, writer, cache, broken>>

\* The read transaction is at a new version; cache_new_schema is still to be called.
Reached(q, phase, was) == [q EXCEPT !.up = [phase |-> phase, was |-> was]]

\* Realm::refresh or notify, or the first use of a Realm without a read transaction.
RefreshRealm(r) ==
    LET st == IF realms[r].group = 0 THEN BeginRead(State(r)) ELSE Advance(State(r))
    IN /\ IsIdle(r)
       /\ RealmBecomes(r, IF realms[r].group = 0 \/ ~st.ok THEN st
                     ELSE [st EXCEPT !.realm = Reached(@, "advanced", TRUE)])
       /\ UNCHANGED <<mode, groups, writer>>

Invalidate(r) ==
    /\ IsIdle(r) /\ realms[r].group # 0
    /\ realms' = [realms EXCEPT ![r].group = 0]
    /\ UNCHANGED <<mode, groups, writer, cache, broken>>

\* begin_transaction and commit_transaction around a change of objects only.
WriteObjects(r) ==
    LET started == IF realms[r].group = 0 THEN BeginRead(State(r)) ELSE Advance(State(r))
        begun == CacheNewSchema(started)
    IN /\ IsIdle(r) /\ writer = {} /\ mode # "ReadOnly"
       /\ IF started.ok
          THEN /\ LatestGroup < MaxTransactions
               /\ groups' = Append(groups, groups[LatestGroup])
               /\ RealmBecomes(r, [begun EXCEPT
                    !.realm = [Reached(@, "committed", TRUE) EXCEPT !.group = LatestGroup + 1]])
          ELSE RealmBecomes(r, started) /\ UNCHANGED groups
       /\ UNCHANGED <<mode, writer>>

\* The other process, or the server: an update of its own, which it commits.
OtherProcessUpdates(target, version, mig) ==
    LET g == groups[LatestGroup]
        kind == IF mode \in {"ReadOnly", "Manual"} THEN "Automatic" ELSE mode
        changes == Compare(SchemaFromGroup(g), target, FALSE)
        res == ApplySchemaChanges(g, g.version, target, version, kind, changes, mig, TRUE, LatestGroup + 1)
    IN /\ mode # "ResetFile" /\ writer = {} /\ LatestGroup < MaxTransactions
       /\ g.version = NotVersioned \/ version >= g.version
       /\ mode = "Additive" => ValidAdditiveChanges(changes) /\ mig.kind = "absent"
       /\ res.ok /\ res.group # g
       /\ groups' = Append(groups, res.group)
       /\ UNCHANGED <<mode, writer, cache, realms, broken>>

\* What set_schema_subset verifies of the changes.
SubsetAllowed(changes) ==
    CASE mode \in {"Automatic", "ResetFile"} -> NoMigrationRequired(changes)
      [] mode = "ReadOnly" -> CompatibleForReadOnly(changes)
      [] mode = "Additive" -> ValidAdditiveChanges(changes)
      [] mode = "Manual" -> NoChangesRequired(changes)

\* set_schema_subset: it asserts a dynamic schema and a versioned file.
SetSchemaSubset(r, target) ==
    LET q == realms[r]
    IN /\ IsIdle(r) /\ q.dynamic /\ q.version # NotVersioned
       /\ SubsetAllowed(Compare(q.schema, target, FALSE))
       /\ realms' = [realms EXCEPT ![r] = SetSchema(q, q.schema, target)]
       /\ UNCHANGED <<mode, groups, writer, cache, broken>>

-----------------------------------------------------------------------------
(* update_schema.                                                          *)

\* reset_file: the file is deleted and begun anew.
ResetFile(q, target) ==
    LET anew == [q EXCEPT !.schema = EmptySchema, !.version = NotVersioned, !.txv = 1, !.group = 1]
    IN [realm |-> anew, changes |-> Compare(EmptySchema, target, FALSE),
        cache |-> ClearCache(cache, NotVersioned)]

\* Up to the decision that a write transaction is needed.
UpdateBegins(r, target, version, mig) ==
    LET st == DoRefresh(State(r))
        actual == FullSchema(st)
        changes == Compare(actual, target, FALSE)
        needs == NeedsWrite(st.realm, changes, version)
        was == realms[r].group # 0
        Waiting(cs) == [phase |-> "waiting", target |-> target, version |-> version, mig |-> mig,
                        was |-> was, changes |-> cs]
        set == SetSchema(st.realm, actual, target)
    IN /\ IsIdle(r)
       /\ Valid(target, FALSE)
       /\ mode = "ResetFile" => Alone(r)
       /\ IF ~st.ok \/ needs = "throw" THEN RealmBecomes(r, st) /\ UNCHANGED groups
          ELSE IF needs = "no"
          THEN /\ RealmBecomes(r, [st EXCEPT !.realm = [set EXCEPT !.group = IF was THEN @ ELSE 0]])
               /\ UNCHANGED groups
          ELSE IF needs = "yes"
          THEN RealmBecomes(r, [st EXCEPT !.realm.up = Waiting(changes)]) /\ UNCHANGED groups
          ELSE LET reset == ResetFile(st.realm, target)
               IN /\ groups' = <<EmptyGroup>>
                  /\ RealmBecomes(r, [st EXCEPT
                       !.realm = [reset.realm EXCEPT !.up = Waiting(reset.changes)],
                       !.cache = reset.cache])
       /\ UNCHANGED <<mode, writer>>

Ended(q, was) == [q EXCEPT !.up = Idle, !.group = IF was THEN @ ELSE 0]

\* The exceptional end: the schema is the one the Realm had before, whatever the write
\* transaction advanced to.
Threw(q, was) ==
    LET fits == q.dynamic \/ ValidExternalChanges(Compare(q.schema, SchemaFromGroup(groups[LatestGroup]), TRUE))
    IN [Ended(q, was) EXCEPT !.doubt = IF fits THEN @ ELSE @ \cup {"promoted"}]

\* Variant for the mutation check: the changes decided upon before the write
\* transaction began are the ones made.
PromotedAsDecided(q) ==
    LET here == [q EXCEPT !.group = LatestGroup]
    IN IF ~LayoutMoved(q.group) THEN here
       ELSE [OnSchemaChange(here, groups[LatestGroup]) EXCEPT !.new = NoSchema]

\* promote_to_write: nothing validates the advance, and the handler runs.
Promoted(q) ==
    LET here == [q EXCEPT !.group = LatestGroup]
    IN IF ~LayoutMoved(q.group) THEN here
       ELSE OnSchemaChange(here, groups[LatestGroup])

\* The write transaction, up to its commit.  `told` is whether the storage engine calls
\* the handler for what a rollback undoes.
UpdateWrites(r, fits, told) ==
    LET up == realms[r].up
        q == Promoted(realms[r])
        g == groups[LatestGroup]
        st == [State(r) EXCEPT !.realm = q]
        changes == IF q.new.known THEN Compare(q.new.schema, up.target, FALSE) ELSE up.changes
        needs == IF q.new.known THEN NeedsWrite(q, changes, up.version) ELSE "yes"
        cached == CacheNewSchema(st)
        \* The Realm the migration function sees the old state with.
        oldRealm == IF up.mig.kind = "absent" \/ cached.cache.known THEN cached
                    ELSE [cached EXCEPT !.cache =
                            CacheSchema(@, SchemaFromGroup(g), g.version, LatestGroup)]
        res == ApplySchemaChanges(g, q.version, up.target, up.version, mode, changes,
                                  up.mig, fits, LatestGroup + 1)
        set == SetSchema(cached.realm, q.new.schema, up.target)
        undone == IF told THEN OnSchemaChange(oldRealm.realm, g) ELSE oldRealm.realm
        done == [oldRealm.realm EXCEPT
                   !.schema = SetSchemaKeys(res.group, up.target),
                   !.new = KnownSchema(SchemaFromGroup(res.group)),
                   !.version = res.group.version,
                   !.dynamic = FALSE,
                   !.doubt = {},
                   !.up = [phase |-> "written", was |-> up.was, group |-> res.group]]
    IN /\ realms[r].open /\ up.phase = "waiting" /\ writer = {} /\ LatestGroup < MaxTransactions
       /\ IF needs = "throw" THEN RealmBecomes(r, [st EXCEPT !.realm = Threw(q, up.was)]) /\ UNCHANGED writer
          ELSE IF needs = "no"
          THEN RealmBecomes(r, [cached EXCEPT !.realm = Ended(set, up.was)]) /\ UNCHANGED writer
          ELSE IF ~res.ok
          THEN RealmBecomes(r, [oldRealm EXCEPT !.realm = Threw(undone, up.was)]) /\ UNCHANGED writer
          ELSE /\ RealmBecomes(r, [oldRealm EXCEPT !.realm = done,
                                              !.cache = ClearCache(@, up.version)])
               /\ writer' = {r}
       /\ UNCHANGED <<mode, groups>>

UpdateCommits(r) ==
    /\ realms[r].up.phase = "written"
    /\ groups' = Append(groups, realms[r].up.group)
    /\ writer' = {}
    /\ realms' = [realms EXCEPT ![r].group = LatestGroup + 1,
                                ![r].up = [phase |-> "committed", was |-> @.was]]
    /\ UNCHANGED <<mode, cache, broken>>

CachesNewSchema(r) ==
    LET st == CacheNewSchema(State(r))
    IN /\ realms[r].up.phase \in {"advanced", "committed"}
       /\ RealmBecomes(r, [st EXCEPT !.realm = Ended(@, realms[r].up.was)])
       /\ UNCHANGED <<mode, groups, writer>>

SchemaUpdatesNext ==
    \/ \E r \in SchemaRealms :
          \/ Open(r) \/ Close(r) \/ RefreshRealm(r) \/ Invalidate(r) \/ WriteObjects(r)
          \/ \E target \in Targets : SetSchemaSubset(r, target)
          \/ \E target \in Targets, version \in Numbers, mig \in Migrations[mode] :
                UpdateBegins(r, target, version, mig)
          \/ \E fits, told \in BOOLEAN : UpdateWrites(r, fits, told)
          \/ UpdateCommits(r) \/ CachesNewSchema(r)
    \/ \E target \in Foreign, version \in Numbers, mig \in Migrations["Automatic"] :
          OtherProcessUpdates(target, version, mig)

SchemaUpdatesSpec == SchemaUpdatesInit /\ [][SchemaUpdatesNext]_suVars

-----------------------------------------------------------------------------
(* Properties.                                                             *)

\* The coordinator "maintains a cache of the most recently seen file schema and the
\* range of transaction versions which it applies to" (realm_coordinator.hpp): at every
\* committed version of that range the file has exactly the cached tables and columns.
\* Two exceptions: a Realm that used an m_new_schema left by an update that threw, and a
\* migration that empties the file, whose schema is not cached (realm_coordinator.cpp:543);
\* Migrations has none of the latter.
CacheAppliesToRange ==
    cache.known /\ "leftover" \notin broken =>
        \A v \in cache.min .. cache.max :
            v \in DOMAIN groups => Layout(groups[v].tables) = LayoutOf(cache.schema)

\* A Realm whose schema was given to it finds in the version it reads, under the column
\* keys it holds, columns of the types it was told of, in each of its tables that the
\* file has. Not so of a Realm in doubt: one that threw for a change made outside of the
\* process ("thrown"), whose update threw after its write transaction had advanced to a
\* version the old schema does not fit ("promoted"), or that took over by name, with no
\* comparison, columns it had no keys of ("named"); nor after the use of a leftover
\* m_new_schema.
SchemaFitsFile ==
    "leftover" \notin broken =>
    \A r \in SchemaRealms :
       LET q == realms[r] tables == groups[q.group].tables
       IN q.open /\ ~q.dynamic /\ q.doubt = {} /\ q.group # 0 /\ q.up.phase \in {"idle", "advanced", "committed"} =>
            \A ty \in DOMAIN q.schema \cap DOMAIN tables :
            \A n \in DOMAIN q.schema[ty].props :
               LET p == q.schema[ty].props[n]
               IN /\ n \in DOMAIN tables[ty].cols
                  /\ LET c == tables[ty].cols[n]
                     IN <<c.key, c.type, c.objectType, c.array, c.nullable>>
                          = <<p.key, p.type, p.objectType, p.array, p.nullable>>

\* advance_schema_cache asserts that the version its Realm comes from is not later than
\* the latest one the cache was told of (realm_coordinator.cpp:564).
AdvanceAssertionHolds == "assert" \notin broken
=============================================================================
