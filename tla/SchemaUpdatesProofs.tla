-------------------------- MODULE SchemaUpdatesProofs --------------------------
(***************************************************************************)
(* Proof that the coordinator's schema cache applies to the range of       *)
(* versions it claims: the schema cached is the one of each of them.       *)
(* Lemmas named ...Outcome say what a helper of the model returns, those   *)
(* named ...Keeps that an action keeps the inductive invariant SchemaInv.  *)
(***************************************************************************)
EXTENDS SchemaUpdates, WellFoundedInduction, TLAPS

-----------------------------------------------------------------------------
(* The inductive invariant.                                                *)

Blank(v) == DOMAIN groups[v].tables = {}
Unversioned(v) == groups[v].version = NotVersioned
LayoutAt(v) == Layout(groups[v].tables)

\* No version after a, up to b, changes the layout of the one before it.
Steady(a, b) == \A i \in 1 .. Len(groups) - 1 : a <= i /\ i < b => LayoutAt(i) = LayoutAt(i + 1)

IsGroup(g) == DOMAIN g = {"version", "tables"}

\* A file that has tables keeps some and one that is versioned stays so; a file has a
\* version before it has tables.
FileInv ==
    /\ groups # <<>> /\ \E S : groups \in Seq(S)
    /\ \A i \in DOMAIN groups : IsGroup(groups[i])
    /\ \A i, j \in DOMAIN groups : i <= j /\ Blank(j) => Blank(i)
    /\ \A i, j \in DOMAIN groups : i <= j /\ Unversioned(j) => Unversioned(i)
    /\ \A i \in DOMAIN groups : Unversioned(i) => Blank(i)

IsCache(c) ==
    /\ DOMAIN c = {"known", "schema", "version", "min", "max"}
    /\ c.known \in BOOLEAN /\ c.min \in Nat /\ c.max \in Nat

\* The cached schema is the one of every version of its range, and of a versioned file.
CacheInv(c) ==
    c.known => /\ 1 <= c.min /\ c.min <= c.max /\ c.max <= Len(groups)
               /\ c.version # NotVersioned /\ ~Unversioned(Len(groups))
               /\ \A v \in c.min .. c.max : LayoutAt(v) = LayoutOf(c.schema)

IsRealm(q) ==
    DOMAIN q = {"open", "dynamic", "schema", "version", "txv", "new", "group", "doubt", "up"}

\* The layout changes neither between the version whose schema a Realm knows and the one
\* it reads, unless the handler told it, nor between the end of the cache's range and the
\* version it knows.
RealmInv(q, c) ==
    /\ q.txv \in 1 .. Len(groups)
    /\ q.group \in 0 .. Len(groups)
    /\ q.group # 0 /\ ~q.new.known => q.txv <= q.group /\ Steady(q.txv, q.group)
    /\ q.txv > c.max => Steady(c.max, q.txv)
    /\ q.version = NotVersioned => Blank(q.txv) /\ (q.group # 0 => Blank(q.group))
    /\ q.version # NotVersioned /\ q.up.phase # "written" => ~Unversioned(Len(groups))

\* A Realm that waits for the write transaction, or is in it, will not empty the file.
PhaseInv(r, q, w) ==
    /\ IsRealm(q) /\ q.open \in BOOLEAN /\ q.new.known \in BOOLEAN
    /\ q.up.phase \in {"idle", "waiting", "written", "advanced", "committed"}
    /\ ~q.open => q.up.phase = "idle"
    /\ q.up.phase # "idle" => q.group # 0
    /\ q.up.phase = "waiting" =>
          /\ q.up.version # NotVersioned
          /\ q.up.mig.kind = "delete" => DOMAIN q.up.target # {}
    /\ q.up.phase = "written" =>
          /\ w = {r} /\ q.new.known
          /\ IsGroup(q.up.group)
          /\ q.version = q.up.group.version /\ q.version # NotVersioned
          /\ DOMAIN q.up.group.tables = {} => Blank(Len(groups))

SchemaInv ==
    /\ FileInv /\ IsCache(cache) /\ CacheInv(cache)
    /\ DOMAIN realms = SchemaRealms
    /\ \A r \in SchemaRealms :
          PhaseInv(r, realms[r], writer) /\ (realms[r].open => RealmInv(realms[r], cache))
    /\ mode \in SchemaModes

CacheIInv == "leftover" \notin broken => SchemaInv

-----------------------------------------------------------------------------
(* Versions.                                                               *)

\* Every set of natural numbers with an element has a least one.
LEMMA LeastElement ==
    ASSUME NEW T, T \subseteq Nat, T # {}
    PROVE  \E x \in T : \A y \in T : x <= y
  <1>1. PICK x \in T : \A y \in T : ~ (<<y, x>> \in OpToRel(<, Nat))
    <2> DEFINE R == OpToRel(<, Nat)
    <2>1. IsWellFoundedOn(R, Nat)
      BY NatLessThanWellFounded
    <2> HIDE DEF R
    <2>2. \E x \in T : \A y \in T : ~ (<<y, x>> \in R)
      BY <2>1, WFMin
    <2> QED
      BY <2>2 DEF R
  <1>2. \A y \in T : ~ (y < x)
    BY <1>1 DEF OpToRel
  <1> QED
    BY <1>2

\* Where no step changes the layout, all versions have the same.
LEMMA SteadyIsConstant ==
    ASSUME NEW a \in Nat \ {0}, NEW b \in Nat, b <= Len(groups), Len(groups) \in Nat, Steady(a, b), NEW v \in a .. b
    PROVE  LayoutAt(v) = LayoutAt(a)
  <1> DEFINE T == {i \in a .. b : LayoutAt(i) # LayoutAt(a)}
  <1>1. SUFFICES ASSUME T # {} PROVE FALSE
    OBVIOUS
  <1>2. PICK x \in T : \A y \in T : x <= y
    <2>1. T \subseteq Nat
      OBVIOUS
    <2> HIDE DEF T
    <2> QED
      BY <1>1, <2>1, LeastElement
  <1>3. x \in Nat /\ a < x /\ x <= b
    BY <1>2
  <1>4. x - 1 \in a .. b /\ x - 1 \notin T
    BY <1>2, <1>3
  <1>5. LayoutAt(x - 1) = LayoutAt((x - 1) + 1)
    BY <1>3 DEF Steady
  <1> QED
    BY <1>2, <1>3, <1>4, <1>5

\* Two stretches without a change of the layout make one.
LEMMA SteadyJoins ==
    ASSUME NEW a, NEW b, NEW c, a \in Int, b \in Int, c \in Int, Steady(a, b), Steady(b, c), Len(groups) \in Nat
    PROVE  Steady(a, c)
  BY DEF Steady

\* Layouts that differ mean that one of them has tables.
LEMMA BlankIsSteady ==
    ASSUME FileInv, NEW v \in DOMAIN groups, Blank(v), NEW a \in Int
    PROVE  Steady(a, v)
  <1> SUFFICES ASSUME NEW i \in 1 .. Len(groups) - 1, i < v PROVE LayoutAt(i) = LayoutAt(i + 1)
    BY DEF Steady
  <1>1. DOMAIN groups = 1 .. Len(groups) /\ Len(groups) \in Nat
    BY DEF FileInv
  <1>2. Blank(i) /\ Blank(i + 1)
    BY <1>1 DEF FileInv
  <1> QED
    BY <1>2 DEF Blank, LayoutAt, Layout

\* The schema read from a version has the layout of its tables.
LEMMA LayoutOfSchema == ASSUME NEW g PROVE LayoutOf(SchemaFromGroup(g)) = Layout(g.tables)
  BY DEF LayoutOf, SchemaFromGroup, ObjectSchemaOf, PropertyOf, Layout

\* cache_schema ignores an empty schema: that of a version without tables.
LEMMA EmptySchemaIsBlank ==
    ASSUME NEW v, LayoutOf(EmptySchema) = LayoutAt(v)
    PROVE  Blank(v)
  BY DEF LayoutOf, EmptySchema, LayoutAt, Layout, Blank

-----------------------------------------------------------------------------
(* The cache.                                                              *)

\* There is always a committed version.
LEMMA FileFacts ==
    ASSUME FileInv
    PROVE  Len(groups) \in Nat \ {0} /\ DOMAIN groups = 1 .. Len(groups)
  BY DEF FileInv

\* cache_schema of the schema of version v; where it caches nothing newer, nothing is lost
\* but a version without tables.
LEMMA CacheSchemaOutcome ==
    ASSUME FileInv, NEW c, IsCache(c), CacheInv(c),
           NEW schema, NEW version, NEW v \in DOMAIN groups, LayoutOf(schema) = LayoutAt(v),
           version # NotVersioned => ~Unversioned(Len(groups)),
           NEW d, d = CacheSchema(c, schema, version, v)
    PROVE  /\ IsCache(d) /\ CacheInv(d) /\ d.max >= c.max
           /\ d.max >= v \/ Blank(v) \/ version = NotVersioned
  <1>1. v \in Nat /\ 1 <= v /\ v <= Len(groups)
    BY FileFacts
  <1>2. CASE v < c.max \/ schema = EmptySchema \/ version = NotVersioned
    <2>1. d = c
      BY <1>2 DEF CacheSchema
    <2>2. schema = EmptySchema => Blank(v)
      BY EmptySchemaIsBlank
    <2> QED
      BY <1>1, <1>2, <2>1, <2>2 DEF IsCache
  <1>3. CASE ~(v < c.max \/ schema = EmptySchema \/ version = NotVersioned)
    <2>1. d = [known |-> TRUE, schema |-> schema, version |-> version, min |-> v, max |-> v]
      BY <1>3 DEF CacheSchema
    <2>2. IsCache(d) /\ d.max >= c.max /\ d.max >= v
      BY <1>1, <1>3, <2>1 DEF IsCache
    <2>3. \A w \in d.min .. d.max : w = v
      BY <1>1, <2>1
    <2>4. CacheInv(d)
      BY <1>1, <1>3, <2>1, <2>3 DEF CacheInv
    <2> QED
      BY <2>2, <2>4
  <1> QED
    BY <1>2, <1>3

\* advance_schema_cache: the range is extended to versions of the same layout only.
LEMMA AdvanceCacheOutcome ==
    ASSUME FileInv, NEW c, IsCache(c), CacheInv(c),
           NEW q, RealmInv(q, c), q.group # 0, ~q.new.known,
           NEW d, d = AdvanceCache(c, q.txv, q.group)
    PROVE  /\ IsCache(d) /\ CacheInv(d) /\ d.max >= c.max
           /\ d.max >= q.group \/ Steady(d.max, q.group)
  <1> DEFINE t == q.txv
             n == q.group
  <1>1. /\ t \in Nat /\ 1 <= t /\ t <= n /\ n \in Nat /\ n <= Len(groups)
        /\ Len(groups) \in Nat /\ c.min \in Nat /\ c.max \in Nat
    BY FileFacts DEF RealmInv, IsCache
  <1>2. Steady(t, n) /\ (t > c.max => Steady(c.max, t))
    BY DEF RealmInv
  <1>3. CASE ~c.known \/ n < c.min
    <2>1. d = c
      BY <1>3 DEF AdvanceCache
    <2>2. n <= c.max \/ ~c.known
      BY <1>1, <1>3 DEF CacheInv
    <2>3. n > c.max => Steady(c.max, n)
      <3>1. CASE t > c.max
        BY <1>1, <1>2, <3>1, SteadyJoins
      <3>2. CASE t <= c.max
        BY <1>1, <1>2, <3>2 DEF Steady
      <3> QED
        BY <1>1, <3>1, <3>2
    <2> QED
      BY <1>1, <2>1, <2>3
  <1>4. CASE c.known /\ n >= c.min
    <2> DEFINE lo == IF t < c.min THEN t ELSE c.min
               hi == IF n > c.max THEN n ELSE c.max
    <2>1. d = [c EXCEPT !.min = lo, !.max = hi]
      BY <1>1, <1>4 DEF AdvanceCache
    <2>2. IsCache(d) /\ d.known /\ d.min = lo /\ d.max = hi /\ d.schema = c.schema /\ d.version = c.version
      BY <1>1, <1>4, <2>1 DEF IsCache
    <2>3. /\ 1 <= c.min /\ c.min <= c.max /\ c.max <= Len(groups)
          /\ c.version # NotVersioned /\ ~Unversioned(Len(groups))
          /\ \A v \in c.min .. c.max : LayoutAt(v) = LayoutOf(c.schema)
      BY <1>4 DEF CacheInv
    <2>4. /\ lo \in Nat /\ hi \in Nat /\ 1 <= lo /\ lo <= c.min /\ c.max <= hi /\ n <= hi
          /\ hi <= Len(groups) /\ (lo = t \/ lo = c.min) /\ (hi = n \/ hi = c.max) /\ lo <= t
      BY <1>1, <2>3
    <2> HIDE DEF lo, hi
    <2>5. Steady(c.min, c.max)
      BY <1>1, <2>3 DEF Steady
    <2>6. Steady(lo, hi)
      <3> SUFFICES ASSUME NEW i \in 1 .. Len(groups) - 1, lo <= i, i < hi PROVE LayoutAt(i) = LayoutAt(i + 1)
        BY DEF Steady
      <3>1. CASE c.min <= i /\ i < c.max
        BY <2>5, <3>1 DEF Steady
      <3>2. CASE t <= i /\ i < n
        BY <1>2, <3>2 DEF Steady
      <3>3. CASE c.max <= i /\ i < t
        BY <1>1, <1>2, <3>3 DEF Steady
      <3> QED
        BY <1>1, <1>4, <2>3, <2>4, <3>1, <3>2, <3>3
    <2>7. \A v \in lo .. hi : LayoutAt(v) = LayoutAt(lo)
      BY <1>1, <2>4, <2>6, SteadyIsConstant
    <2>8. \A v \in lo .. hi : LayoutAt(v) = LayoutOf(c.schema)
      BY <1>1, <2>3, <2>4, <2>7
    <2>9. CacheInv(d)
      BY <1>1, <2>2, <2>3, <2>4, <2>8 DEF CacheInv
    <2> QED
      BY <1>1, <2>2, <2>4, <2>9
  <1> QED
    BY <1>1, <1>3, <1>4 DEF IsCache

-----------------------------------------------------------------------------
(* The steps of a Realm.                                                   *)

IsState(st) == DOMAIN st = {"realm", "cache", "ok", "broken"}

Good(q, c) == /\ IsRealm(q) /\ q.new.known \in BOOLEAN
              /\ IsCache(c)
              /\ RealmInv(q, c) /\ CacheInv(c)

\* What no step takes back.
Follows(st, n) ==
    /\ IsState(n)
    /\ n.realm.open = st.realm.open /\ n.realm.up = st.realm.up
    /\ n.cache.max >= st.cache.max
    /\ st.broken \subseteq n.broken

\* A Realm does not mind that another one extended the cache.
LEMMA RealmWithGrownCache ==
    ASSUME FileInv, NEW q, NEW c, NEW d, RealmInv(q, c), IsCache(c), IsCache(d), d.max >= c.max
    PROVE  RealmInv(q, d)
  <1>1. q.txv > d.max => Steady(d.max, q.txv)
    BY FileFacts DEF RealmInv, IsCache, Steady
  <1> QED
    BY <1>1 DEF RealmInv

\* The schema change handler, field by field.
LEMMA OnSchemaChangeOutcome ==
    ASSUME NEW q, IsRealm(q), NEW g, NEW p, p = OnSchemaChange(q, g)
    PROVE  /\ IsRealm(p)
           /\ p.open = q.open /\ p.txv = q.txv /\ p.group = q.group /\ p.up = q.up
           /\ p.new = KnownSchema(SchemaFromGroup(g))
           /\ p.version = g.version
  BY DEF OnSchemaChange, IsRealm

\* Whatever is read at the latest version, the read transaction may be there.
LEMMA MovesToLatest ==
    ASSUME FileInv, NEW q, NEW c, Good(q, c), q.group # 0, q.up.phase # "written",
           NEW p, IsRealm(p), p.txv = q.txv, p.group = Len(groups), p.up = q.up,
           \/ ~LayoutMoved(q.group) /\ p.new = q.new /\ p.version = q.version
           \/ p.new.known = TRUE /\ p.version = groups[Len(groups)].version
    PROVE  Good(p, c)
  <1>1. /\ Len(groups) \in Nat \ {0} /\ DOMAIN groups = 1 .. Len(groups)
        /\ q.txv \in 1 .. Len(groups) /\ q.group \in 1 .. Len(groups)
    BY FileFacts DEF Good, RealmInv
  <1>2. CASE ~LayoutMoved(q.group) /\ p.new = q.new /\ p.version = q.version
    <2>1. \A i \in q.group .. Len(groups) - 1 : LayoutAt(i) = LayoutAt(i + 1)
      BY <1>2 DEF LayoutMoved, SameLayout, LayoutAt
    <2>2. Steady(q.group, Len(groups))
      BY <1>1, <2>1 DEF Steady
    <2>3. ~q.new.known => q.txv <= Len(groups) /\ Steady(q.txv, Len(groups))
      BY <1>1, <2>2, SteadyJoins DEF Good, RealmInv
    <2>4. LayoutAt(Len(groups)) = LayoutAt(q.group)
      BY <1>1, <2>2, SteadyIsConstant
    <2>5. Blank(q.group) => Blank(Len(groups))
      BY <2>4 DEF LayoutAt, Layout, Blank
    <2>6. RealmInv(p, c)
      BY <1>1, <1>2, <2>3, <2>5 DEF Good, RealmInv
    <2> QED
      BY <1>2, <2>6 DEF Good
  <1>3. CASE p.new.known = TRUE /\ p.version = groups[Len(groups)].version
    <2>0. ASSUME Unversioned(Len(groups)) PROVE \A i \in DOMAIN groups : Blank(i)
      BY <1>1, <2>0 DEF FileInv
    <2>1. p.version = NotVersioned => Blank(p.txv) /\ Blank(p.group)
      BY <1>1, <1>3, <2>0 DEF Unversioned
    <2>2. p.version # NotVersioned => ~Unversioned(Len(groups))
      BY <1>3 DEF Unversioned
    <2>3. RealmInv(p, c)
      BY <1>1, <1>3, <2>1, <2>2 DEF Good, RealmInv
    <2> QED
      BY <1>3, <2>3 DEF Good
  <1> QED
    BY <1>2, <1>3

\* promote_to_write.
LEMMA PromotedOutcome ==
    ASSUME FileInv, NEW q, NEW c, Good(q, c), q.group # 0, q.up.phase # "written",
           NEW p, p = Promoted(q)
    PROVE  Good(p, c) /\ p.group = Len(groups) /\ p.up = q.up /\ p.open = q.open
  <1> DEFINE here == [q EXCEPT !.group = Len(groups)]
  <1>1. /\ IsRealm(here) /\ here.open = q.open /\ here.txv = q.txv /\ here.group = Len(groups)
        /\ here.up = q.up /\ here.new = q.new /\ here.version = q.version
    BY DEF Good, IsRealm
  <1> HIDE DEF here
  <1>2. p = IF ~LayoutMoved(q.group) THEN here ELSE OnSchemaChange(here, groups[Len(groups)])
    BY DEF Promoted, LatestGroup, here
  <1>3. CASE ~LayoutMoved(q.group)
    BY <1>1, <1>2, <1>3, MovesToLatest
  <1>4. CASE LayoutMoved(q.group)
    <2>1. p = OnSchemaChange(here, groups[Len(groups)])
      BY <1>2, <1>4
    <2>2. /\ IsRealm(p) /\ p.open = q.open /\ p.txv = q.txv /\ p.group = Len(groups) /\ p.up = q.up
          /\ p.new = KnownSchema(SchemaFromGroup(groups[Len(groups)]))
          /\ p.version = groups[Len(groups)].version
      BY <1>1, <2>1, OnSchemaChangeOutcome
    <2>3. p.new.known = TRUE
      BY <2>2 DEF KnownSchema
    <2> QED
      BY <2>2, <2>3, MovesToLatest
  <1> QED
    BY <1>3, <1>4

\* The advance of a read transaction.
LEMMA AdvanceOutcome ==
    ASSUME FileInv, NEW st, IsState(st), Good(st.realm, st.cache), st.realm.group # 0,
           st.realm.up.phase # "written", NEW n, n = Advance(st)
    PROVE  /\ Good(n.realm, n.cache) /\ Follows(st, n) /\ n.realm.group # 0
           /\ n.cache = st.cache /\ n.broken = st.broken
           /\ n.ok => n.realm.group = Len(groups)
  <1> DEFINE q == st.realm
             p == Promoted(q)
  <1>1. n = [st EXCEPT !.ok = FALSE] \/ n = [st EXCEPT !.realm = p]
    BY DEF Advance, Promoted
  <1>2. Good(p, st.cache) /\ p.group = Len(groups) /\ p.up = q.up /\ p.open = q.open
    BY PromotedOutcome
  <1> HIDE DEF p
  <1>3. Len(groups) # 0 /\ st.cache.max \in Nat
    BY FileFacts DEF Good, IsCache
  <1> QED
    BY <1>1, <1>2, <1>3 DEF IsState, Follows

\* cache_new_schema, unless the m_new_schema it uses is a leftover.
LEMMA CacheNewSchemaOutcome ==
    ASSUME FileInv, NEW st, IsState(st), Good(st.realm, st.cache), st.realm.group # 0,
           st.realm.up.phase # "written",
           NEW n, n = CacheNewSchema(st), "leftover" \notin n.broken
    PROVE  /\ Good(n.realm, n.cache) /\ Follows(st, n)
           /\ n.realm.group = st.realm.group /\ n.realm.txv = st.realm.group
           /\ ~n.realm.new.known /\ n.realm.version = st.realm.version /\ n.ok = st.ok
  <1> DEFINE q == st.realm
  <1>a. PICK p : p = [q EXCEPT !.txv = q.group, !.new = NoSchema]
    OBVIOUS
  <1>b. IsRealm(q)
    BY DEF Good
  <1>1. /\ Len(groups) \in Nat \ {0} /\ DOMAIN groups = 1 .. Len(groups)
        /\ q.txv \in 1 .. Len(groups) /\ q.group \in DOMAIN groups /\ q.new.known \in BOOLEAN
    BY FileFacts DEF Good, RealmInv
  <1>2. /\ IsRealm(p) /\ p.open = q.open /\ p.txv = q.group /\ p.group = q.group
        /\ p.up = q.up /\ p.new = NoSchema /\ p.version = q.version
    <2> HIDE DEF q
    <2> QED
      BY <1>a, <1>b DEF IsRealm
  <1>0. p.new.known = FALSE
    BY <1>2 DEF NoSchema
  <1>3. /\ IsState(n) /\ n.realm = p /\ n.ok = st.ok
        /\ n.cache = IF q.new.known THEN CacheSchema(st.cache, q.new.schema, q.version, q.group)
                     ELSE AdvanceCache(st.cache, q.txv, q.group)
        /\ st.broken \subseteq n.broken
        /\ q.new.known => LayoutOf(q.new.schema) = LayoutAt(q.group)
    BY <1>a DEF CacheNewSchema, IsState, LayoutAt
  <1>4. /\ IsCache(n.cache) /\ CacheInv(n.cache) /\ n.cache.max >= st.cache.max
        /\ n.cache.max >= q.group \/ Steady(n.cache.max, q.group)
    <2>1. CASE q.new.known
      <3>1. n.cache = CacheSchema(st.cache, q.new.schema, q.version, q.group)
        BY <1>3, <2>1
      <3>2. q.version # NotVersioned => ~Unversioned(Len(groups))
        BY DEF Good, RealmInv
      <3>3. /\ IsCache(n.cache) /\ CacheInv(n.cache) /\ n.cache.max >= st.cache.max
            /\ n.cache.max >= q.group \/ Blank(q.group) \/ q.version = NotVersioned
        BY <1>1, <1>3, <2>1, <3>1, <3>2, CacheSchemaOutcome DEF Good
      <3>4. q.version = NotVersioned => Blank(q.group)
        BY DEF Good, RealmInv
      <3>5. Blank(q.group) => Steady(n.cache.max, q.group)
        BY <1>1, <3>3, BlankIsSteady DEF IsCache
      <3> QED
        BY <3>3, <3>4, <3>5
    <2>2. CASE ~q.new.known
      <3>1. n.cache = AdvanceCache(st.cache, q.txv, q.group)
        BY <1>3, <2>2
      <3> QED
        BY <2>2, <3>1, AdvanceCacheOutcome DEF Good
    <2> QED
      BY <2>1, <2>2
  <1>5. RealmInv(p, n.cache)
    <2>1. q.group \in Nat /\ n.cache.max \in Nat
      BY <1>1, <1>4 DEF IsCache
    <2>2. Steady(q.group, q.group)
      BY <1>1 DEF Steady
    <2>3. p.txv > n.cache.max => Steady(n.cache.max, p.txv)
      BY <1>2, <1>4, <2>1
    <2> QED
      BY <1>0, <1>1, <1>2, <2>1, <2>2, <2>3 DEF Good, RealmInv
  <1> QED
    BY <1>0, <1>2, <1>3, <1>4, <1>5 DEF Good, Follows

\* begin_read with read_schema_from_group_if_needed.
LEMMA BeginReadOutcome ==
    ASSUME FileInv, NEW st, IsState(st), Good(st.realm, st.cache),
           st.realm.up.phase # "written", NEW n, n = BeginRead(st)
    PROVE  /\ Good(n.realm, n.cache) /\ Follows(st, n)
           /\ n.realm.group = Len(groups) /\ n.broken = st.broken
  <1> DEFINE g == groups[Len(groups)]
             s == SchemaFromGroup(g)
  <1>a. PICK q : q = [st.realm EXCEPT !.group = Len(groups)]
    OBVIOUS
  <1>b. PICK x : x = [st EXCEPT !.realm = q]
    OBVIOUS
  <1>1. /\ Len(groups) \in Nat \ {0} /\ DOMAIN groups = 1 .. Len(groups) /\ Len(groups) \in DOMAIN groups
        /\ st.realm.txv \in 1 .. Len(groups) /\ st.cache.max \in Nat
    BY FileFacts DEF Good, RealmInv, IsCache
  <1>2. /\ IsRealm(q) /\ q.open = st.realm.open /\ q.txv = st.realm.txv /\ q.group = Len(groups)
        /\ q.up = st.realm.up /\ q.new = st.realm.new /\ q.version = st.realm.version
    BY <1>a DEF Good, IsRealm
  <1>3. /\ IsState(x) /\ x.realm = q /\ x.cache = st.cache /\ x.broken = st.broken
        /\ n = ReadSchemaIfNeeded(x)
    <2>1. x = [st EXCEPT !.realm.group = Len(groups)]
      BY <1>a, <1>b DEF IsState
    <2> QED
      BY <1>b, <2>1 DEF BeginRead, LatestGroup, IsState
  <1>4. CASE q.txv = Len(groups)
    <2>1. n = x
      BY <1>2, <1>3, <1>4 DEF ReadSchemaIfNeeded
    <2>2. Steady(Len(groups), Len(groups))
      BY <1>1 DEF Steady
    <2>3. RealmInv(q, st.cache)
      BY <1>1, <1>2, <1>4, <2>2 DEF Good, RealmInv
    <2> QED
      BY <1>1, <1>2, <1>3, <2>1, <2>3 DEF Good, Follows
  <1>5. CASE q.txv # Len(groups)
    <2>1. PICK p :
            /\ IsRealm(p) /\ p.open = q.open /\ p.txv = Len(groups) /\ p.group = Len(groups)
            /\ p.up = q.up /\ p.new = q.new /\ p.version = g.version
            /\ n.realm = p /\ n.cache = CacheSchema(st.cache, s, g.version, Len(groups))
            /\ IsState(n) /\ n.broken = st.broken
      <3> DEFINE seen == [q EXCEPT !.txv = q.group, !.version = groups[q.group].version]
                 fine == q.dynamic \/ ValidExternalChanges(Compare(q.schema, s, FALSE))
                 p1 == [seen EXCEPT !.doubt = @ \cup {"thrown"}]
                 p2 == [seen EXCEPT !.schema = IF q.dynamic THEN s ELSE CopyKeysFrom(@, s)]
      <3>1. n = [x EXCEPT !.cache = CacheSchema(@, s, g.version, q.group), !.ok = fine,
                          !.realm = IF ~fine THEN p1 ELSE p2]
        BY <1>2, <1>3, <1>5 DEF ReadSchemaIfNeeded
      <3>2. /\ IsRealm(seen) /\ seen.open = q.open /\ seen.txv = Len(groups) /\ seen.group = Len(groups)
            /\ seen.up = q.up /\ seen.new = q.new /\ seen.version = g.version
        BY <1>2 DEF IsRealm
      <3> HIDE DEF seen
      <3>3. /\ IsRealm(p1) /\ p1.open = q.open /\ p1.txv = Len(groups) /\ p1.group = Len(groups)
            /\ p1.up = q.up /\ p1.new = q.new /\ p1.version = g.version
        BY <3>2 DEF IsRealm
      <3>4. /\ IsRealm(p2) /\ p2.open = q.open /\ p2.txv = Len(groups) /\ p2.group = Len(groups)
            /\ p2.up = q.up /\ p2.new = q.new /\ p2.version = g.version
        BY <3>2 DEF IsRealm
      <3> HIDE DEF fine, p1, p2
      <3>5. /\ n.realm = IF ~fine THEN p1 ELSE p2
            /\ n.cache = CacheSchema(st.cache, s, g.version, Len(groups))
            /\ IsState(n) /\ n.broken = st.broken
        BY <1>2, <1>3, <3>1 DEF IsState
      <3> QED
        BY <3>3, <3>4, <3>5
    <2>3. LayoutOf(s) = LayoutAt(Len(groups)) /\ (g.version # NotVersioned => ~Unversioned(Len(groups)))
      BY LayoutOfSchema DEF LayoutAt, Unversioned
    <2>4. /\ IsCache(n.cache) /\ CacheInv(n.cache) /\ n.cache.max >= st.cache.max
          /\ n.cache.max >= Len(groups) \/ Blank(Len(groups)) \/ g.version = NotVersioned
      <3> HIDE DEF s, g
      <3> QED
        BY <1>1, <2>1, <2>3, CacheSchemaOutcome DEF Good
    <2>5. g.version = NotVersioned => Blank(Len(groups))
      BY <1>1 DEF FileInv, Unversioned
    <2>6. Blank(Len(groups)) => Steady(n.cache.max, Len(groups))
      BY <1>1, <2>4, BlankIsSteady DEF IsCache
    <2>7. Steady(Len(groups), Len(groups))
      BY <1>1 DEF Steady
    <2>8. RealmInv(p, n.cache)
      <3>1. p.txv > n.cache.max => Steady(n.cache.max, p.txv)
        BY <1>1, <2>1, <2>4, <2>5, <2>6 DEF IsCache
      <3> HIDE DEF g
      <3> QED
        BY <1>1, <2>1, <2>3, <2>5, <2>7, <3>1 DEF RealmInv
    <2> QED
      BY <1>1, <1>2, <2>1, <2>4, <2>8 DEF Good, Follows
  <1> QED
    BY <1>4, <1>5

-----------------------------------------------------------------------------
(* ObjectStore: an update makes a file versioned and does not empty it.    *)

\* The visitors only add tables, all of those they are told to add.
LEMMA VisitOutcome ==
    ASSUME NEW g, NEW target, NEW changes, NEW acts, NEW pkBefore, NEW fits, NEW now, IsGroup(g),
           NEW res, res = Visit(g, target, changes, acts, pkBefore, fits, now), res.ok
    PROVE  /\ IsGroup(res.group) /\ res.group.version = g.version
           /\ DOMAIN g.tables \subseteq DOMAIN res.group.tables
           /\ "AddTable" \in acts =>
                \A c \in changes : c.kind = "AddTable" => c.type \in DOMAIN res.group.tables
  <1> DEFINE created == {c.type : c \in {d \in {c \in changes : c.kind \in acts} : d.kind = "AddTable"}}
  <1>1. res # Thrown(g)
    BY DEF Thrown
  <1>2. IsGroup(res.group) /\ res.group.version = g.version
    BY <1>1 DEF Visit, Done, IsGroup
  <1>3. DOMAIN res.group.tables = DOMAIN g.tables \cup created
    BY <1>1 DEF Visit, Done, IsGroup
  <1> QED
    BY <1>2, <1>3

\* rename_property keeps the tables.
LEMMA RenameOutcome ==
    ASSUME NEW g, NEW target, NEW ty, NEW old, NEW new, NEW now, IsGroup(g),
           NEW res, res = RenameProperty(g, target, ty, old, new, now), res.ok
    PROVE  IsGroup(res.group) /\ res.group.version = g.version /\ DOMAIN res.group.tables = DOMAIN g.tables
  <1>1. PICK t : res = Done([g EXCEPT !.tables[ty] = t]) \/ res = Thrown(g)
    BY DEF RenameProperty
  <1>2. res = Done([g EXCEPT !.tables[ty] = t])
    BY <1>1 DEF Thrown
  <1>3. res.group = [g EXCEPT !.tables[ty] = t]
    BY <1>2 DEF Done
  <1> QED
    BY <1>3 DEF IsGroup

\* Types the schema has and the file does not are tables to be added.
LEMMA CompareAddsTables ==
    ASSUME NEW g, NEW target, NEW ty \in DOMAIN target, ty \notin DOMAIN g.tables
    PROVE  \E c \in Compare(SchemaFromGroup(g), target, FALSE) : c.kind = "AddTable" /\ c.type = ty
  <1>1. DOMAIN SchemaFromGroup(g) = DOMAIN g.tables
    BY DEF SchemaFromGroup
  <1>2. Change("AddTable", ty, NoName, NoColumn) \in Compare(SchemaFromGroup(g), target, FALSE)
    BY <1>1 DEF Compare
  <1> QED
    BY <1>2 DEF Change

\* A file keeps having tables and being versioned, whatever the step makes of it.
Keeps(g, h) ==
    /\ IsGroup(h)
    /\ h.version = NotVersioned => g.version = NotVersioned
    /\ DOMAIN h.tables = {} => DOMAIN g.tables = {}

\* What the visitors make of a file that has tables has tables.
LEMMA VisitKeeps ==
    ASSUME NEW g, NEW target, NEW changes, NEW acts, NEW pkBefore, NEW fits, NEW now, IsGroup(g),
           NEW res, res = Visit(g, target, changes, acts, pkBefore, fits, now), res.ok
    PROVE  /\ Keeps(g, res.group) /\ res.group.version = g.version
           /\ DOMAIN g.tables \subseteq DOMAIN res.group.tables
  BY VisitOutcome DEF Keeps

\* A migration function empties the file only by deleting a type.
LEMMA MigrateOutcome ==
    ASSUME NEW g, NEW target, NEW mig, NEW now, IsGroup(g),
           NEW res, res = Migrate(g, target, mig, now), res.ok
    PROVE  /\ IsGroup(res.group) /\ res.group.version = g.version
           /\ mig.kind # "delete" => Keeps(g, res.group)
  <1>1. CASE mig.kind = "rename"
    <2>1. res = RenameProperty(g, target, mig.type, mig.old, mig.new, now)
      BY <1>1 DEF Migrate
    <2> QED
      BY <2>1, RenameOutcome DEF Keeps
  <1>2. CASE mig.kind = "delete"
    <2>1. res = Done(DeleteData(g, mig.type))
      BY <1>2 DEF Migrate
    <2> QED
      BY <1>2, <2>1 DEF Done, DeleteData, IsGroup
  <1>3. CASE mig.kind = "builds"
    <2>1. res = Visit(g, target, Compare(SchemaFromGroup(g), target, FALSE), AllKinds, FALSE, TRUE, now)
      BY <1>3 DEF Migrate
    <2>2. PICK no, yes : no = FALSE /\ yes = TRUE
      OBVIOUS
    <2>3. PICK changes : changes = Compare(SchemaFromGroup(g), target, FALSE)
      OBVIOUS
    <2>4. res = Visit(g, target, changes, AllKinds, no, yes, now)
      BY <2>1, <2>2, <2>3, Zenon
    <2>5. Keeps(g, res.group) /\ res.group.version = g.version
      BY <2>4, VisitKeeps
    <2> QED
      BY <2>5 DEF Keeps
  <1>4. CASE mig.kind = "throws"
    <2>1. res = Thrown(g)
      BY <1>4 DEF Migrate
    <2> QED
      BY <2>1 DEF Thrown
  <1>5. CASE mig.kind \notin {"rename", "delete", "builds", "throws"}
    <2>1. res = Done(g)
      BY <1>5 DEF Migrate
    <2> QED
      BY <2>1 DEF Done, Keeps
  <1> QED
    BY <1>1, <1>2, <1>3, <1>4, <1>5

\* Once nothing is left to change, the types of the schema have tables.
LEMMA NothingLeft ==
    ASSUME NEW g, NEW target, NoChangesRequired(Compare(SchemaFromGroup(g), target, FALSE))
    PROVE  DOMAIN target \subseteq DOMAIN g.tables
  <1> SUFFICES ASSUME NEW ty \in DOMAIN target, ty \notin DOMAIN g.tables PROVE FALSE
    OBVIOUS
  <1>1. PICK c \in Compare(SchemaFromGroup(g), target, FALSE) : c.kind = "AddTable" /\ c.type = ty
    BY CompareAddsTables
  <1> QED
    BY <1>1 DEF NoChangesRequired, OnlyAccepts, Kinds, Silent

\* apply_schema_changes leaves a versioned file, and one with tables if it had some.
LEMMA ApplyOutcome ==
    ASSUME NEW g, NEW version, NEW target, NEW tv, NEW m, NEW changes, NEW mig, NEW fits, NEW now,
           IsGroup(g), tv # NotVersioned,
           version # NotVersioned => g.version # NotVersioned,
           mig.kind = "delete" => DOMAIN target # {},
           NEW res, res = ApplySchemaChanges(g, version, target, tv, m, changes, mig, fits, now), res.ok
    PROVE  Keeps(g, res.group) /\ res.group.version # NotVersioned
  <1> DEFINE Versioned(x) == IF x.ok THEN Done([x.group EXCEPT !.version = tv]) ELSE x
  <1>0. ASSUME NEW x, Versioned(x).ok
        PROVE  /\ x.ok
               /\ IsGroup(x.group) => /\ IsGroup(Versioned(x).group) /\ Versioned(x).group.version = tv
                                      /\ Versioned(x).group.tables = x.group.tables
    <2>1. x.ok
      BY <1>0
    <2>2. Versioned(x).group = [x.group EXCEPT !.version = tv]
      BY <2>1 DEF Done
    <2> QED
      BY <2>1, <2>2 DEF IsGroup
  <1>1. CASE m = "Additive"
    <2>1. PICK x : x = ApplyAdditiveChanges(g, target, changes, now)
      OBVIOUS
    <2>2. res = IF version < tv \/ version = NotVersioned THEN Versioned(x) ELSE x
      BY <1>1, <2>1 DEF ApplySchemaChanges
    <2>3. x.ok
      BY <1>0, <2>2
    <2>a. PICK no, yes, acts : x = Visit(g, target, changes, acts, no, yes, now)
      BY <2>1, Zenon DEF ApplyAdditiveChanges
    <2>4. Keeps(g, x.group) /\ x.group.version = g.version
      BY <2>a, <2>3, VisitKeeps
    <2> HIDE DEF Versioned
    <2> QED
      BY <1>0, <2>2, <2>4 DEF Keeps
  <1>2. CASE m # "Additive" /\ version = NotVersioned
    <2>1. PICK x : x = CreateInitialTables(g, target, changes, fits, now)
      OBVIOUS
    <2>2. res = Versioned(x)
      BY <1>2, <2>1 DEF ApplySchemaChanges
    <2>3. x.ok
      BY <1>0, <2>2
    <2>4. Keeps(g, x.group)
      BY <2>1, <2>3, VisitKeeps DEF CreateInitialTables
    <2> HIDE DEF Versioned
    <2> QED
      BY <1>0, <2>2, <2>4 DEF Keeps
  <1>3. CASE m = "Manual" /\ version # NotVersioned
    <2>1. PICK x : x = Migrate(g, target, mig, now)
      OBVIOUS
    <2>2. res = IF /\ x.ok /\ NoChangesRequired(Compare(SchemaFromGroup(x.group), target, FALSE))
                   /\ fits
                THEN Versioned(x) ELSE Thrown(g)
      BY <1>3, <2>1 DEF ApplySchemaChanges
    <2>3. x.ok /\ NoChangesRequired(Compare(SchemaFromGroup(x.group), target, FALSE)) /\ res = Versioned(x)
      <3>1. res # Thrown(g)
        BY DEF Thrown
      <3> HIDE DEF Versioned
      <3> QED
        BY <2>2, <3>1
    <2>4. IsGroup(x.group) /\ (mig.kind # "delete" => Keeps(g, x.group))
      BY <2>1, <2>3, MigrateOutcome
    <2>5. DOMAIN target \subseteq DOMAIN x.group.tables
      BY <2>3, NothingLeft
    <2> HIDE DEF Versioned
    <2> QED
      BY <1>0, <2>3, <2>4, <2>5 DEF Keeps
  <1>4. CASE m \notin {"Additive", "Manual"} /\ version # NotVersioned /\ version = tv
    <2>1. res = ApplyNonMigrationChanges(g, target, changes, now)
      BY <1>4 DEF ApplySchemaChanges
    <2>2. res # Thrown(g)
      BY DEF Thrown
    <2>a. PICK no, yes, acts : res = Visit(g, target, changes, acts, no, yes, now)
      BY <2>1, <2>2, Zenon DEF ApplyNonMigrationChanges
    <2>3. Keeps(g, res.group) /\ res.group.version = g.version
      BY <2>a, VisitKeeps
    <2> QED
      BY <1>4, <2>3
  <1>5. CASE m \notin {"Additive", "Manual"} /\ version # NotVersioned /\ version # tv
    <2>1. PICK pre : pre = ApplyPreMigrationChanges(g, target, changes, fits, now)
      OBVIOUS
    <2>2. PICK x : x = Migrate(pre.group, target, mig, now)
      OBVIOUS
    <2>3. PICK y : y = ApplyPostMigrationChanges(pre.group, target, changes, EmptySchema, FALSE, fits, now)
      OBVIOUS
    <2>4. PICK reread : reread = Compare(SchemaFromGroup(x.group), target, FALSE)
      OBVIOUS
    <2>5. PICK z : z = ApplyPostMigrationChanges(x.group, target, reread, SchemaFromGroup(g), TRUE, fits, now)
      OBVIOUS
    <2>6. res = IF ~pre.ok THEN pre ELSE IF mig.kind = "absent" THEN Versioned(y)
                ELSE IF ~x.ok THEN x ELSE Versioned(z)
      BY <1>5, <2>1, <2>2, <2>3, <2>4, <2>5 DEF ApplySchemaChanges
    <2>7. pre.ok /\ Keeps(g, pre.group)
      <3>1. pre.ok
        BY <2>6
      <3> QED
        BY <3>1, <2>1, VisitKeeps DEF ApplyPreMigrationChanges
    <2>8. CASE mig.kind = "absent"
      <3>1. res = Versioned(y) /\ y.ok
        BY <1>0, <2>6, <2>7, <2>8
      <3>2. PICK no, acts : y = Visit(pre.group, target, changes, acts, no, fits, now)
        BY <2>3 DEF ApplyPostMigrationChanges
      <3>a. IsGroup(pre.group)
        BY <2>7 DEF Keeps
      <3>3. Keeps(pre.group, y.group)
        BY <3>a, <3>1, <3>2, VisitKeeps
      <3> HIDE DEF Versioned
      <3> QED
        BY <1>0, <2>7, <3>1, <3>3 DEF Keeps
    <2>9. CASE mig.kind # "absent"
      <3>1. res = Versioned(z) /\ z.ok /\ x.ok
        BY <1>0, <2>6, <2>7, <2>9
      <3>2. IsGroup(x.group) /\ (mig.kind # "delete" => Keeps(pre.group, x.group))
        BY <2>2, <2>7, <3>1, MigrateOutcome DEF Keeps
      <3>3. PICK no, acts : "AddTable" \in acts /\ z = Visit(x.group, target, reread, acts, no, fits, now)
        <4> DEFINE acts == {"RemoveProperty", "ChangePrimaryKey", "AddTable", "AddIndex", "RemoveIndex"}
                           \cup (IF TRUE THEN {"AddInitialProperties"} ELSE {})
        <4>1. z # Thrown(x.group)
          BY <3>1 DEF Thrown
        <4>2. z = Visit(x.group, target, reread, acts, FALSE, fits, now)
          BY <2>5, <4>1 DEF ApplyPostMigrationChanges
        <4>3. "AddTable" \in acts
          OBVIOUS
        <4> QED
          BY <4>2, <4>3
      <3>4. Keeps(x.group, z.group)
        BY <3>1, <3>2, <3>3, VisitKeeps
      <3>5. DOMAIN target \subseteq DOMAIN z.group.tables
        <4>0. SUFFICES ASSUME NEW ty \in DOMAIN target, ty \notin DOMAIN z.group.tables PROVE FALSE
          OBVIOUS
        <4>1. DOMAIN x.group.tables \subseteq DOMAIN z.group.tables
          BY <3>1, <3>2, <3>3, VisitKeeps
        <4>2. PICK c \in reread : c.kind = "AddTable" /\ c.type = ty
          BY <2>4, <4>0, <4>1, CompareAddsTables
        <4> QED
          <5>1. \A d \in reread : d.kind = "AddTable" => d.type \in DOMAIN z.group.tables
            BY <3>1, <3>2, <3>3, VisitOutcome
          <5> QED
            BY <4>0, <4>2, <5>1
      <3> HIDE DEF Versioned
      <3> QED
        BY <1>0, <2>7, <3>1, <3>2, <3>4, <3>5 DEF Keeps
    <2> QED
      BY <2>8, <2>9
  <1> QED
    BY <1>1, <1>2, <1>3, <1>4, <1>5

-----------------------------------------------------------------------------
(* A new version of the file.                                              *)

Appends(g) ==
    /\ groups' = Append(groups, g)
    /\ Keeps(groups[Len(groups)], g)
    /\ g.version = NotVersioned => DOMAIN g.tables = {}

\* The sequence of versions with one more.
LEMMA AppendFacts ==
    ASSUME FileInv, NEW g, Appends(g)
    PROVE  /\ Len(groups') = Len(groups) + 1 /\ DOMAIN groups' = 1 .. Len(groups) + 1
           /\ \A i \in 1 .. Len(groups) : groups'[i] = groups[i]
           /\ groups'[Len(groups) + 1] = g
           /\ \E S : groups' \in Seq(S)
  <1>1. PICK S : groups \in Seq(S)
    BY DEF FileInv
  <1>2. groups \in Seq(S \cup {g}) /\ g \in S \cup {g}
    BY <1>1
  <1>3. groups' \in Seq(S \cup {g})
    BY <1>2 DEF Appends
  <1>4. /\ Len(groups') = Len(groups) + 1 /\ DOMAIN groups' = 1 .. Len(groups) + 1
        /\ \A i \in 1 .. Len(groups) : groups'[i] = groups[i]
        /\ groups'[Len(groups) + 1] = g
    BY <1>2 DEF Appends
  <1> QED
    BY <1>3, <1>4

\* The file is as it should be with the new version.
LEMMA AppendKeepsFile ==
    ASSUME FileInv, NEW g, Appends(g)
    PROVE  FileInv'
  <1>1. /\ Len(groups) \in Nat \ {0} /\ DOMAIN groups = 1 .. Len(groups) /\ Len(groups) \in DOMAIN groups
        /\ DOMAIN groups' = 1 .. Len(groups) + 1
        /\ \A i \in 1 .. Len(groups) : groups'[i] = groups[i]
        /\ groups'[Len(groups) + 1] = g
    BY FileFacts, AppendFacts
  <1>2. groups' # <<>> /\ \E S : groups' \in Seq(S)
    BY <1>1, AppendFacts
  <1>3. \A i \in DOMAIN groups' : IsGroup(groups'[i])
    BY <1>1 DEF FileInv, Appends, Keeps
  <1>4. \A i, j \in DOMAIN groups' : i <= j /\ Blank(j)' => Blank(i)'
    <2> SUFFICES ASSUME NEW i \in DOMAIN groups', NEW j \in DOMAIN groups', i <= j, Blank(j)' PROVE Blank(i)'
      OBVIOUS
    <2>1. CASE j <= Len(groups)
      BY <1>1, <2>1 DEF FileInv, Blank
    <2>2. CASE j = Len(groups) + 1
      <3>1. Blank(Len(groups))
        BY <1>1, <2>2 DEF Blank, Appends, Keeps
      <3>2. i \in DOMAIN groups => Blank(i)
        BY <1>1, <3>1 DEF FileInv
      <3> QED
        BY <1>1, <2>2, <3>2 DEF Blank
    <2> QED
      BY <1>1, <2>1, <2>2
  <1>5. \A i, j \in DOMAIN groups' : i <= j /\ Unversioned(j)' => Unversioned(i)'
    <2> SUFFICES ASSUME NEW i \in DOMAIN groups', NEW j \in DOMAIN groups', i <= j, Unversioned(j)' PROVE Unversioned(i)'
      OBVIOUS
    <2>1. CASE j <= Len(groups)
      BY <1>1, <2>1 DEF FileInv, Unversioned
    <2>2. CASE j = Len(groups) + 1
      <3>1. Unversioned(Len(groups))
        BY <1>1, <2>2 DEF Unversioned, Appends, Keeps
      <3>2. i \in DOMAIN groups => Unversioned(i)
        BY <1>1, <3>1 DEF FileInv
      <3> QED
        BY <1>1, <2>2, <3>2 DEF Unversioned
    <2> QED
      BY <1>1, <2>1, <2>2
  <1>6. \A i \in DOMAIN groups' : Unversioned(i)' => Blank(i)'
    BY <1>1 DEF FileInv, Unversioned, Blank, Appends
  <1> QED
    BY <1>2, <1>3, <1>4, <1>5, <1>6 DEF FileInv

\* A new version is outside of the range of the cache.
LEMMA AppendKeepsCache ==
    ASSUME FileInv, NEW g, Appends(g), NEW c, IsCache(c), CacheInv(c)
    PROVE  CacheInv(c)'
  <1>1. /\ Len(groups) \in Nat \ {0} /\ DOMAIN groups = 1 .. Len(groups) /\ Len(groups') = Len(groups) + 1
        /\ \A i \in 1 .. Len(groups) : groups'[i] = groups[i]
        /\ groups'[Len(groups) + 1] = g
    BY FileFacts, AppendFacts
  <1> QED
    BY <1>1 DEF CacheInv, IsCache, Unversioned, LayoutAt, Appends, Keeps

\* Where no version is new, none changes the layout anew.
LEMMA AppendKeepsSteady ==
    ASSUME FileInv, NEW g, Appends(g), NEW a \in Int, NEW b \in Int, b <= Len(groups), Steady(a, b)
    PROVE  Steady(a, b)'
  <1>1. /\ Len(groups) \in Nat \ {0} /\ Len(groups') = Len(groups) + 1
        /\ \A i \in 1 .. Len(groups) : groups'[i] = groups[i]
    BY FileFacts, AppendFacts
  <1> QED
    BY <1>1 DEF Steady, LayoutAt

\* A Realm that is not in the write transaction does not mind a new version.
LEMMA AppendKeepsRealm ==
    ASSUME FileInv, NEW g, Appends(g), NEW q, NEW c, IsCache(c), RealmInv(q, c), q.up.phase # "written"
    PROVE  RealmInv(q, c)'
  <1>1. /\ Len(groups) \in Nat \ {0} /\ Len(groups') = Len(groups) + 1
        /\ \A i \in 1 .. Len(groups) : groups'[i] = groups[i]
        /\ groups'[Len(groups) + 1] = g
        /\ q.txv \in 1 .. Len(groups) /\ q.group \in 0 .. Len(groups) /\ c.max \in Nat
    BY FileFacts, AppendFacts DEF RealmInv, IsCache
  <1>2. q.group # 0 /\ ~q.new.known => q.txv <= q.group /\ Steady(q.txv, q.group)'
    BY <1>1, AppendKeepsSteady DEF RealmInv
  <1>3. q.txv > c.max => Steady(c.max, q.txv)'
    BY <1>1, AppendKeepsSteady DEF RealmInv
  <1>4. q.version = NotVersioned => Blank(q.txv)' /\ (q.group # 0 => Blank(q.group)')
    BY <1>1 DEF RealmInv, Blank
  <1>5. q.version # NotVersioned => ~Unversioned(Len(groups))'
    BY <1>1 DEF RealmInv, Unversioned, Appends, Keeps
  <1> QED
    BY <1>1, <1>2, <1>3, <1>4, <1>5 DEF RealmInv

-----------------------------------------------------------------------------
(* What the steps of one Realm leave to the others.                        *)

\* A step that commits nothing leaves the file as it is.
LEMMA InPlaceKeepsFile ==
    ASSUME FileInv, groups' = groups
    PROVE  FileInv'
  BY DEF FileInv, IsGroup, Blank, Unversioned

\* A Realm takes a step that commits nothing.
LEMMA StepInPlace ==
    ASSUME SchemaInv, NEW r \in SchemaRealms, NEW q, NEW c, NEW w,
           groups' = groups, mode' = mode, writer' = w, w = writer \/ writer = {},
           realms' = [realms EXCEPT ![r] = q], cache' = c,
           IsCache(c), CacheInv(c), c.max >= cache.max,
           PhaseInv(r, q, w), q.open => RealmInv(q, c)
    PROVE  SchemaInv'
  <1>1. FileInv'
    BY InPlaceKeepsFile DEF SchemaInv
  <1>2. IsCache(cache)' /\ CacheInv(cache)'
    BY DEF IsCache, CacheInv, Unversioned, LayoutAt
  <1>3. DOMAIN realms' = SchemaRealms /\ mode' \in SchemaModes
    BY DEF SchemaInv
  <1>4. ASSUME NEW o \in SchemaRealms
        PROVE  PhaseInv(o, realms[o], writer)' /\ (realms[o].open => RealmInv(realms[o], cache))'
    <2>1. PICK p : p = realms'[o]
      OBVIOUS
    <2>2. PhaseInv(o, p, w) /\ (p.open => RealmInv(p, c))
      <3>1. CASE o = r
        BY <2>1, <3>1 DEF SchemaInv
      <3>2. CASE o # r
        <4>1. p = realms[o] /\ PhaseInv(o, p, writer) /\ (p.open => RealmInv(p, cache))
          BY <2>1, <3>2 DEF SchemaInv
        <4>2. PhaseInv(o, p, w)
          BY <4>1 DEF PhaseInv
        <4>3. p.open => RealmInv(p, c)
          BY <4>1, RealmWithGrownCache DEF SchemaInv
        <4> QED
          BY <4>2, <4>3
      <3> QED
        BY <3>1, <3>2
    <2>3. PhaseInv(o, p, w)'
      BY <2>2 DEF PhaseInv, IsRealm, IsGroup, Blank
    <2>4. p.open => RealmInv(p, c)'
      BY <2>2 DEF RealmInv, Steady, LayoutAt, Blank, Unversioned
    <2>5. PhaseInv(o, realms[o], writer)'
      BY <2>1, <2>3 DEF PhaseInv, IsRealm, IsGroup, Blank
    <2>6. (realms[o].open => RealmInv(realms[o], cache))'
      BY <2>1, <2>4 DEF RealmInv, Steady, LayoutAt, Blank, Unversioned
    <2> QED
      BY <2>5, <2>6
  <1> QED
    BY <1>1, <1>2, <1>3, <1>4 DEF SchemaInv

\* A new version is committed.
LEMMA StepAppends ==
    ASSUME SchemaInv, NEW g, Appends(g), mode' = mode, writer' = {}, NEW c, cache' = c,
           IsCache(c), CacheInv(c), c.max >= cache.max, DOMAIN realms' = SchemaRealms,
           \A o \in SchemaRealms :
               \/ realms'[o] = realms[o] /\ realms[o].up.phase # "written"
               \/ /\ PhaseInv(o, realms'[o], {}) /\ realms'[o].up.phase # "written"
                  /\ \A p : p = realms'[o] => RealmInv(p, c)'
    PROVE  SchemaInv'
  <1>1. FileInv' /\ FileInv
    BY AppendKeepsFile DEF SchemaInv
  <1>2. IsCache(cache)' /\ CacheInv(cache)'
    <2>1. CacheInv(c)'
      BY <1>1, AppendKeepsCache
    <2> QED
      BY <2>1 DEF IsCache, CacheInv, Unversioned, LayoutAt
  <1>3. mode' \in SchemaModes
    BY DEF SchemaInv
  <1>4. ASSUME NEW o \in SchemaRealms
        PROVE  PhaseInv(o, realms[o], writer)' /\ (realms[o].open => RealmInv(realms[o], cache))'
    <2>1. PICK p : p = realms'[o]
      OBVIOUS
    <2>2. PhaseInv(o, p, {}) /\ p.up.phase # "written" /\ (p.open => RealmInv(p, c)')
      <3>1. CASE p = realms[o] /\ realms[o].up.phase # "written"
        <4>1. PhaseInv(o, p, writer) /\ (p.open => RealmInv(p, cache)) /\ p.up.phase # "written"
          BY <3>1 DEF SchemaInv
        <4>2. PhaseInv(o, p, {})
          BY <4>1 DEF PhaseInv
        <4>3. p.open => RealmInv(p, c)
          BY <4>1, RealmWithGrownCache DEF SchemaInv
        <4> QED
          BY <1>1, <4>1, <4>2, <4>3, AppendKeepsRealm
      <3>2. CASE /\ PhaseInv(o, p, {}) /\ p.up.phase # "written"
                 /\ \A x : x = p => RealmInv(x, c)'
        BY <3>2
      <3> QED
        BY <2>1, <3>1, <3>2
    <2>3. PhaseInv(o, realms[o], writer)'
      BY <2>1, <2>2 DEF PhaseInv, IsRealm
    <2>4. (realms[o].open => RealmInv(realms[o], cache))'
      BY <2>1, <2>2 DEF RealmInv, Steady, LayoutAt, Blank, Unversioned
    <2> QED
      BY <2>3, <2>4
  <1> QED
    BY <1>1, <1>2, <1>3, <1>4 DEF SchemaInv

\* A Realm that keeps what it knows of the file, and may end its read transaction.
LEMMA RealmVariant ==
    ASSUME NEW q, NEW c, RealmInv(q, c), q.up.phase # "written",
           NEW p, p.txv = q.txv, p.new = q.new, p.version = q.version, p.group \in {q.group, 0}
    PROVE  RealmInv(p, c)
  <1>1. p.group # 0 => p.group = q.group
    OBVIOUS
  <1>2. /\ p.txv \in 1 .. Len(groups)
        /\ p.group \in 0 .. Len(groups)
    BY DEF RealmInv
  <1> QED
    BY <1>1, <1>2 DEF RealmInv

\* What is known of an open Realm before its step.
LEMMA StateFacts ==
    ASSUME SchemaInv, NEW r \in SchemaRealms, realms[r].open, NEW st, st = State(r)
    PROVE  /\ IsState(st) /\ Good(st.realm, st.cache) /\ PhaseInv(r, st.realm, writer)
           /\ st.realm = realms[r] /\ st.cache = cache /\ st.broken = broken /\ FileInv
           /\ IsCache(cache) /\ cache.max \in Nat
  <1>1. IsState(st) /\ st.realm = realms[r] /\ st.cache = cache /\ st.broken = broken
    BY DEF State, IsState
  <1>2. PhaseInv(r, realms[r], writer) /\ RealmInv(realms[r], cache) /\ IsCache(cache) /\ CacheInv(cache) /\ FileInv
    BY DEF SchemaInv
  <1>3. Good(realms[r], cache)
    BY <1>2 DEF Good, PhaseInv
  <1> QED
    BY <1>1, <1>2, <1>3 DEF IsCache

-----------------------------------------------------------------------------
(* The actions.                                                            *)

\* A Realm is opened with the cached schema, or with the one it reads and caches.
LEMMA OpenKeeps ==
    ASSUME SchemaInv, NEW r \in SchemaRealms, Open(r)
    PROVE  SchemaInv'
  <1> DEFINE q == [Closed EXCEPT !.open = TRUE]
             g == groups[Len(groups)]
             got == [q EXCEPT !.schema = cache.schema, !.version = cache.version, !.txv = cache.max]
             read == [q EXCEPT !.schema = SchemaFromGroup(g), !.version = g.version, !.txv = Len(groups)]
  <1>0. /\ FileInv /\ IsCache(cache) /\ CacheInv(cache) /\ cache.max \in Nat
        /\ Len(groups) \in Nat \ {0} /\ DOMAIN groups = 1 .. Len(groups) /\ Len(groups) \in DOMAIN groups
    BY FileFacts DEF SchemaInv, IsCache
  <1>1. groups' = groups /\ mode' = mode /\ writer' = writer
    BY DEF Open
  <1>2. CASE cache.known
    <2>1. PICK p : p = got
      OBVIOUS
    <2>2. /\ IsRealm(p) /\ p.open = TRUE /\ p.version = cache.version /\ p.txv = cache.max
          /\ p.group = 0 /\ p.new = NoSchema /\ p.up = Idle
      BY <2>1 DEF Closed, IsRealm
    <2>3. p.new.known = FALSE /\ p.up.phase = "idle"
      BY <2>2 DEF NoSchema, Idle
    <2>4. realms' = [realms EXCEPT ![r] = p] /\ cache' = cache
      BY <1>2, <2>1 DEF Open, RealmBecomes, State
    <2>5. RealmInv(p, cache)
      <3>1. cache.max \in 1 .. Len(groups) /\ cache.version # NotVersioned /\ ~Unversioned(Len(groups))
        BY <1>0, <1>2 DEF CacheInv, IsCache
      <3> QED
        BY <1>0, <2>2, <2>3, <3>1 DEF RealmInv
    <2>6. PhaseInv(r, p, writer)
      BY <2>2, <2>3 DEF PhaseInv
    <2>7. cache.max >= cache.max
      BY <1>0
    <2> QED
      BY <1>0, <1>1, <2>4, <2>5, <2>6, <2>7, StepInPlace
  <1>3. CASE ~cache.known
    <2>1. PICK p : p = read
      OBVIOUS
    <2>a. PICK c : c = CacheSchema(cache, SchemaFromGroup(g), g.version, Len(groups))
      OBVIOUS
    <2>2. /\ IsRealm(p) /\ p.open = TRUE /\ p.version = g.version /\ p.txv = Len(groups)
          /\ p.group = 0 /\ p.new = NoSchema /\ p.up = Idle /\ p.schema = SchemaFromGroup(g)
      BY <2>1 DEF Closed, IsRealm
    <2>3. p.new.known = FALSE /\ p.up.phase = "idle"
      BY <2>2 DEF NoSchema, Idle
    <2>4. realms' = [realms EXCEPT ![r] = p] /\ cache' = c
      BY <1>3, <2>1, <2>a, <2>2 DEF Open, RealmBecomes, State, LatestGroup
    <2>5. LayoutOf(SchemaFromGroup(g)) = LayoutAt(Len(groups)) /\ (g.version # NotVersioned => ~Unversioned(Len(groups)))
      BY LayoutOfSchema DEF LayoutAt, Unversioned
    <2>6. /\ IsCache(c) /\ CacheInv(c) /\ c.max >= cache.max
          /\ c.max >= Len(groups) \/ Blank(Len(groups)) \/ g.version = NotVersioned
      <3> HIDE DEF g
      <3> QED
        BY <1>0, <2>a, <2>5, CacheSchemaOutcome
    <2>7. g.version = NotVersioned => Blank(Len(groups))
      BY <1>0 DEF FileInv, Unversioned
    <2>8. Len(groups) > c.max => Steady(c.max, Len(groups))
      BY <1>0, <2>6, <2>7, BlankIsSteady DEF IsCache
    <2> HIDE DEF g
    <2>9. RealmInv(p, c)
      BY <1>0, <2>2, <2>3, <2>5, <2>7, <2>8 DEF RealmInv
    <2>10. PhaseInv(r, p, writer)
      BY <2>2, <2>3 DEF PhaseInv
    <2> QED
      BY <1>1, <2>4, <2>6, <2>9, <2>10, StepInPlace
  <1> QED
    BY <1>2, <1>3

\* A Realm that is open and in no write transaction.
LEMMA IdleFacts ==
    ASSUME SchemaInv, NEW r \in SchemaRealms, IsIdle(r)
    PROVE  realms[r].open = TRUE /\ realms[r].up.phase = "idle"
  BY DEF IsIdle, SchemaInv, PhaseInv

\* A Realm that is neither waiting for the write transaction nor in it.
LEMMA PhaseFacts ==
    ASSUME NEW r, NEW w, NEW p, IsRealm(p), p.open = TRUE, p.new.known \in BOOLEAN,
           p.up.phase \in {"idle", "advanced", "committed"}, p.up.phase # "idle" => p.group # 0
    PROVE  PhaseInv(r, p, w)
  BY DEF PhaseInv

\* A Realm is closed.
LEMMA CloseKeeps ==
    ASSUME SchemaInv, NEW r \in SchemaRealms, Close(r)
    PROVE  SchemaInv'
  <1>1. PICK p : p = Closed
    OBVIOUS
  <1>2. IsRealm(p) /\ p.open = FALSE /\ p.new = NoSchema /\ p.up = Idle
    BY <1>1 DEF Closed, IsRealm
  <1>3. p.new.known = FALSE /\ p.up.phase = "idle"
    BY <1>2 DEF NoSchema, Idle
  <1>4. PhaseInv(r, p, writer)
    BY <1>2, <1>3 DEF PhaseInv
  <1>5. IsCache(cache) /\ CacheInv(cache) /\ cache.max >= cache.max
    BY DEF SchemaInv, IsCache
  <1>6. /\ groups' = groups /\ mode' = mode /\ writer' = writer /\ cache' = cache
        /\ realms' = [realms EXCEPT ![r] = p]
    BY <1>1 DEF Close
  <1> QED
    BY <1>2, <1>4, <1>5, <1>6, StepInPlace

\* A Realm ends its read transaction.
LEMMA InvalidateKeeps ==
    ASSUME SchemaInv, NEW r \in SchemaRealms, Invalidate(r)
    PROVE  SchemaInv'
  <1> DEFINE q == realms[r]
  <1>0. q.open = TRUE /\ q.up.phase = "idle"
    BY IdleFacts DEF Invalidate
  <1>1. PICK p : p = [q EXCEPT !.group = 0]
    OBVIOUS
  <1>2. RealmInv(q, cache) /\ IsRealm(q) /\ q.new.known \in BOOLEAN /\ IsCache(cache) /\ CacheInv(cache)
    BY <1>0 DEF SchemaInv, PhaseInv
  <1>3. /\ groups' = groups /\ mode' = mode /\ writer' = writer /\ cache' = cache
        /\ realms' = [realms EXCEPT ![r] = p]
    BY <1>1 DEF Invalidate
  <1> HIDE DEF q
  <1>4. /\ IsRealm(p) /\ p.open = TRUE /\ p.up = q.up /\ p.group = 0
        /\ p.new = q.new /\ p.txv = q.txv /\ p.version = q.version
    BY <1>0, <1>1, <1>2 DEF IsRealm
  <1>5. RealmInv(p, cache)
    BY <1>0, <1>2, <1>4, RealmVariant
  <1>6. PhaseInv(r, p, writer)
    BY <1>0, <1>2, <1>4, PhaseFacts
  <1>7. cache.max >= cache.max
    BY <1>2 DEF IsCache
  <1> QED
    BY <1>2, <1>3, <1>5, <1>6, <1>7, StepInPlace

\* set_schema_subset changes what the Realm sees, not what is cached.
LEMMA SetSchemaSubsetKeeps ==
    ASSUME SchemaInv, NEW r \in SchemaRealms, NEW target, SetSchemaSubset(r, target)
    PROVE  SchemaInv'
  <1> DEFINE q == realms[r]
  <1>0. q.open = TRUE /\ q.up.phase = "idle"
    BY IdleFacts DEF SetSchemaSubset
  <1>1. PICK p : p = SetSchema(q, q.schema, target)
    OBVIOUS
  <1>2. RealmInv(q, cache) /\ IsRealm(q) /\ q.new.known \in BOOLEAN /\ IsCache(cache) /\ CacheInv(cache)
    BY <1>0 DEF SchemaInv, PhaseInv
  <1>3. /\ groups' = groups /\ mode' = mode /\ writer' = writer /\ cache' = cache
        /\ realms' = [realms EXCEPT ![r] = p]
    BY <1>1 DEF SetSchemaSubset
  <1> HIDE DEF q
  <1>4. /\ IsRealm(p) /\ p.open = TRUE /\ p.up = q.up /\ p.group = q.group
        /\ p.new = q.new /\ p.txv = q.txv /\ p.version = q.version
    BY <1>0, <1>1, <1>2 DEF IsRealm, SetSchema
  <1>5. RealmInv(p, cache)
    BY <1>0, <1>2, <1>4, RealmVariant
  <1>6. PhaseInv(r, p, writer)
    BY <1>0, <1>2, <1>4, PhaseFacts
  <1>7. cache.max >= cache.max
    BY <1>2 DEF IsCache
  <1> QED
    BY <1>2, <1>3, <1>5, <1>6, <1>7, StepInPlace

\* refresh, before the new schema is cached.
LEMMA RefreshKeeps ==
    ASSUME SchemaInv, NEW r \in SchemaRealms, RefreshRealm(r), "leftover" \notin broken'
    PROVE  SchemaInv'
  <1>0. realms[r].open = TRUE /\ realms[r].up.phase = "idle"
    BY IdleFacts DEF RefreshRealm
  <1>1. PICK x : x = State(r)
    OBVIOUS
  <1>2. /\ IsState(x) /\ Good(x.realm, x.cache) /\ x.realm = realms[r] /\ x.cache = cache /\ FileInv
        /\ cache.max \in Nat /\ Len(groups) # 0
    BY <1>0, <1>1, StateFacts, FileFacts
  <1>3. PICK st : st = IF realms[r].group = 0 THEN BeginRead(x) ELSE Advance(x)
    OBVIOUS
  <1>4. Good(st.realm, st.cache) /\ Follows(x, st) /\ st.realm.group # 0
    <2>1. CASE realms[r].group = 0
      BY <1>0, <1>2, <1>3, <2>1, BeginReadOutcome
    <2>2. CASE realms[r].group # 0
      BY <1>0, <1>2, <1>3, <2>2, AdvanceOutcome
    <2> QED
      BY <2>1, <2>2
  <1>5. PICK p : p = IF realms[r].group = 0 \/ ~st.ok THEN st.realm ELSE Reached(st.realm, "advanced", TRUE)
    OBVIOUS
  <1>6. /\ groups' = groups /\ mode' = mode /\ writer' = writer /\ cache' = st.cache
        /\ realms' = [realms EXCEPT ![r] = p]
    BY <1>1, <1>3, <1>4, <1>5 DEF RefreshRealm, RealmBecomes, Follows, IsState
  <1>7. /\ IsRealm(p) /\ p.open = TRUE /\ p.group = st.realm.group
        /\ p.new = st.realm.new /\ p.txv = st.realm.txv /\ p.version = st.realm.version
        /\ p.up.phase \in {"idle", "advanced"} /\ st.realm.up.phase = "idle"
    BY <1>0, <1>2, <1>4, <1>5 DEF Good, Follows, Reached, IsRealm
  <1>8. RealmInv(p, st.cache)
    BY <1>4, <1>7, RealmVariant DEF Good
  <1>9. PhaseInv(r, p, writer)
    BY <1>4, <1>7, PhaseFacts DEF Good
  <1> QED
    BY <1>2, <1>4, <1>6, <1>8, <1>9, StepInPlace DEF Good, Follows

\* A write transaction that changes objects only.
LEMMA WriteObjectsKeeps ==
    ASSUME SchemaInv, NEW r \in SchemaRealms, WriteObjects(r), "leftover" \notin broken'
    PROVE  SchemaInv'
  <1>0. realms[r].open = TRUE /\ realms[r].up.phase = "idle" /\ writer = {}
    BY IdleFacts DEF WriteObjects
  <1>1. PICK x : x = State(r)
    OBVIOUS
  <1>2. /\ IsState(x) /\ Good(x.realm, x.cache) /\ x.realm = realms[r] /\ x.cache = cache /\ FileInv
        /\ cache.max \in Nat /\ Len(groups) \in Nat \ {0} /\ DOMAIN groups = 1 .. Len(groups)
    BY <1>0, <1>1, StateFacts, FileFacts
  <1>3. PICK st : st = IF realms[r].group = 0 THEN BeginRead(x) ELSE Advance(x)
    OBVIOUS
  <1>4. Good(st.realm, st.cache) /\ Follows(x, st) /\ st.realm.group # 0 /\ (st.ok => st.realm.group = Len(groups))
    <2>1. CASE realms[r].group = 0
      BY <1>0, <1>2, <1>3, <2>1, BeginReadOutcome
    <2>2. CASE realms[r].group # 0
      BY <1>0, <1>2, <1>3, <2>2, AdvanceOutcome
    <2> QED
      BY <2>1, <2>2
  <1>5. CASE ~st.ok
    <2>1. /\ groups' = groups /\ mode' = mode /\ writer' = writer /\ cache' = st.cache
          /\ realms' = [realms EXCEPT ![r] = st.realm]
      BY <1>1, <1>3, <1>5 DEF WriteObjects, RealmBecomes
    <2>2. st.realm.open = TRUE /\ st.realm.up.phase = "idle"
      BY <1>0, <1>2, <1>4 DEF Follows
    <2>3. PhaseInv(r, st.realm, writer)
      BY <1>4, <2>2, PhaseFacts DEF Good
    <2> QED
      BY <1>2, <1>4, <2>1, <2>3, StepInPlace DEF Good, Follows
  <1>6. CASE st.ok
    <2>1. PICK n : n = CacheNewSchema(st)
      OBVIOUS
    <2>2. PICK p : p = [Reached(n.realm, "committed", TRUE) EXCEPT !.group = Len(groups) + 1]
      OBVIOUS
    <2>a. broken' = [n EXCEPT !.realm = p].broken
      BY <1>1, <1>3, <1>6, <2>1, <2>2 DEF WriteObjects, RealmBecomes, LatestGroup
    <2>b. DOMAIN n = DOMAIN st
      BY <2>1 DEF CacheNewSchema
    <2>c. IsState(n)
      BY <1>4, <2>b DEF Follows, IsState
    <2>3. broken' = n.broken
      BY <2>a, <2>c DEF IsState
    <2>4. /\ Good(n.realm, n.cache) /\ Follows(st, n)
          /\ n.realm.group = Len(groups) /\ n.realm.txv = Len(groups) /\ ~n.realm.new.known
      <3>1. st.realm.up.phase # "written" /\ IsState(st)
        BY <1>0, <1>2, <1>4 DEF Follows
      <3> QED
        BY <1>2, <1>4, <1>6, <2>1, <2>3, <3>1, CacheNewSchemaOutcome
    <2>5. /\ groups' = Append(groups, groups[Len(groups)]) /\ mode' = mode /\ writer' = {} /\ cache' = n.cache
          /\ realms' = [realms EXCEPT ![r] = p]
      BY <1>0, <1>1, <1>3, <1>6, <2>1, <2>2, <2>4 DEF WriteObjects, RealmBecomes, LatestGroup, Follows, IsState
    <2>6. /\ IsRealm(p) /\ p.open = TRUE /\ p.group = Len(groups) + 1
          /\ p.new = n.realm.new /\ p.txv = Len(groups) /\ p.version = n.realm.version
          /\ p.up.phase = "committed"
      BY <1>0, <1>2, <1>4, <2>2, <2>4 DEF Good, Follows, Reached, IsRealm
    <2>7. Appends(groups[Len(groups)])
      BY <1>2, <2>5 DEF Appends, Keeps, FileInv, Unversioned, Blank
    <2>8. /\ Len(groups') = Len(groups) + 1
          /\ \A i \in 1 .. Len(groups) : groups'[i] = groups[i]
          /\ groups'[Len(groups) + 1] = groups[Len(groups)]
      BY <1>2, <2>7, AppendFacts
    <2>c1. PICK c : c = n.cache
      OBVIOUS
    <2>9. RealmInv(p, c)'
      <3>0. PICK l : l = Len(groups)
        OBVIOUS
      <3>1. Steady(l, l + 1)'
        BY <1>2, <2>8, <3>0 DEF Steady, LayoutAt
      <3>2. l > c.max => Steady(c.max, l)'
        <4>1. l > c.max => Steady(c.max, l)
          BY <2>4, <2>c1, <3>0 DEF Good, RealmInv
        <4>2. l \in Int /\ c.max \in Int /\ l <= Len(groups)
          BY <1>2, <2>4, <2>c1, <3>0 DEF Good, IsCache
        <4> QED
          BY <1>2, <2>7, <4>1, <4>2, AppendKeepsSteady
      <3>3. p.version = NotVersioned => Blank(Len(groups))
        BY <1>2, <2>4, <2>6 DEF Good, RealmInv
      <3>4. p.version = NotVersioned => groups'[Len(groups)] = groups[Len(groups)] /\ Blank(p.txv)' /\ Blank(p.group)'
        BY <1>2, <2>6, <2>8, <3>3 DEF Blank
      <3>5. p.version # NotVersioned => ~Unversioned(Len(groups))
        <4>1. n.realm.up.phase # "written"
          BY <1>0, <1>2, <1>4, <2>4 DEF Follows
        <4> QED
          BY <2>4, <2>6, <4>1 DEF Good, RealmInv
      <3>6. p.version # NotVersioned => ~Unversioned(Len(groups))'
        BY <2>8, <3>5 DEF Unversioned
      <3>7. p.txv \in 1 .. Len(groups') /\ p.group \in 0 .. Len(groups') /\ p.txv <= p.group
        BY <1>2, <2>6, <2>8
      <3> QED
        BY <2>6, <2>8, <3>0, <3>1, <3>2, <3>4, <3>6, <3>7 DEF RealmInv
    <2>10. PhaseInv(r, p, {})
      <3>1. p.new.known \in BOOLEAN /\ p.group # 0
        BY <1>2, <2>4, <2>6 DEF Good
      <3> QED
        BY <2>6, <3>1, PhaseFacts
    <2>11. \A o \in SchemaRealms : o # r => realms'[o] = realms[o] /\ realms[o].up.phase # "written"
      BY <1>0, <2>5 DEF SchemaInv, PhaseInv
    <2>12. DOMAIN realms' = SchemaRealms /\ realms'[r] = p
      BY <2>5 DEF SchemaInv
    <2>13. IsCache(c) /\ CacheInv(c) /\ c.max >= cache.max /\ cache' = c
      BY <1>2, <1>4, <2>4, <2>5, <2>c1 DEF Good, Follows, IsCache
    <2>14. \A o \in SchemaRealms :
               \/ realms'[o] = realms[o] /\ realms[o].up.phase # "written"
               \/ /\ PhaseInv(o, realms'[o], {}) /\ realms'[o].up.phase # "written"
                  /\ \A y : y = realms'[o] => RealmInv(y, c)'
      BY <2>6, <2>9, <2>10, <2>11, <2>12
    <2> QED
      BY <2>5, <2>7, <2>12, <2>13, <2>14, StepAppends
  <1> QED
    BY <1>5, <1>6

\* A migration that deletes a type goes with schemas that have a type.
DeletionsKeepATable ==
    \A m \in SchemaModes \cup {"Automatic"}, target \in Targets \cup Foreign :
        \A mig \in Migrations[m] : mig.kind = "delete" => DOMAIN target # {}

\* The other process commits an update.
LEMMA OtherProcessKeeps ==
    ASSUME SchemaInv, NEW target, NEW version, NEW mig, OtherProcessUpdates(target, version, mig),
           version # NotVersioned, mig.kind = "delete" => DOMAIN target # {}
    PROVE  SchemaInv'
  <1> DEFINE g == groups[Len(groups)]
  <1>1. PICK kind, changes, yes, res :
          /\ res = ApplySchemaChanges(g, g.version, target, version, kind, changes, mig, yes, Len(groups) + 1)
          /\ res.ok /\ groups' = Append(groups, res.group)
    <2> DEFINE kind == IF mode \in {"ReadOnly", "Manual"} THEN "Automatic" ELSE mode
               changes == Compare(SchemaFromGroup(g), target, FALSE)
               res == ApplySchemaChanges(g, g.version, target, version, kind, changes, mig, TRUE, Len(groups) + 1)
    <2>1. res.ok /\ groups' = Append(groups, res.group)
      BY DEF OtherProcessUpdates, LatestGroup
    <2> QED
      BY <2>1, Zenon
  <1>2. /\ writer = {} /\ writer' = {} /\ mode' = mode /\ cache' = cache /\ realms' = realms
    BY DEF OtherProcessUpdates
  <1>3. /\ FileInv /\ IsCache(cache) /\ CacheInv(cache) /\ DOMAIN realms = SchemaRealms
        /\ cache.max >= cache.max
    BY DEF SchemaInv, IsCache
  <1>4. IsGroup(g)
    BY <1>3, FileFacts DEF FileInv
  <1>5. Keeps(g, res.group) /\ res.group.version # NotVersioned
    <2> HIDE DEF g
    <2> QED
      BY <1>1, <1>4, ApplyOutcome
  <1>6. Appends(res.group)
    BY <1>1, <1>5 DEF Appends
  <1>7. \A o \in SchemaRealms : realms'[o] = realms[o] /\ realms[o].up.phase # "written"
    BY <1>2 DEF SchemaInv, PhaseInv
  <1>8. PICK c : c = cache
    OBVIOUS
  <1> HIDE DEF g
  <1>9. \A o \in SchemaRealms :
               \/ realms'[o] = realms[o] /\ realms[o].up.phase # "written"
               \/ /\ PhaseInv(o, realms'[o], {}) /\ realms'[o].up.phase # "written"
                  /\ \A p : p = realms'[o] => RealmInv(p, c)'
    BY <1>7
  <1> QED
    BY <1>2, <1>3, <1>6, <1>8, <1>9, StepAppends

\* update_schema commits.
LEMMA UpdateCommitsKeeps ==
    ASSUME SchemaInv, NEW r \in SchemaRealms, UpdateCommits(r)
    PROVE  SchemaInv'
  <1> DEFINE q == realms[r]
  <1>0. /\ FileInv /\ IsCache(cache) /\ CacheInv(cache) /\ DOMAIN realms = SchemaRealms
        /\ cache.max >= cache.max /\ cache.max \in Nat
        /\ Len(groups) \in Nat \ {0} /\ DOMAIN groups = 1 .. Len(groups)
    BY FileFacts DEF SchemaInv, IsCache
  <1>1. /\ q.up.phase = "written" /\ PhaseInv(r, q, writer) /\ (q.open => RealmInv(q, cache))
    BY DEF UpdateCommits, SchemaInv
  <1>2. /\ writer = {r} /\ q.new.known = TRUE /\ IsGroup(q.up.group) /\ IsRealm(q)
        /\ q.version = q.up.group.version /\ q.version # NotVersioned
        /\ DOMAIN q.up.group.tables = {} => Blank(Len(groups))
    BY <1>1 DEF PhaseInv
  <1>3. q.open = TRUE
    BY <1>1 DEF PhaseInv
  <1>4. Appends(q.up.group)
    BY <1>2 DEF Appends, Keeps, UpdateCommits, Blank
  <1>5. PICK p : p = [q EXCEPT !.group = Len(groups) + 1, !.up = [phase |-> "committed", was |-> q.up.was]]
    OBVIOUS
  <1>6. /\ mode' = mode /\ writer' = {} /\ cache' = cache /\ realms' = [realms EXCEPT ![r] = p]
    BY <1>0, <1>2, <1>5 DEF UpdateCommits, LatestGroup, IsRealm
  <1> HIDE DEF q
  <1>7. /\ IsRealm(p) /\ p.open = TRUE /\ p.group = Len(groups) + 1 /\ p.up.phase = "committed"
        /\ p.new = q.new /\ p.txv = q.txv /\ p.version = q.version
    BY <1>2, <1>3, <1>5 DEF IsRealm
  <1>8. p.new.known = TRUE
    BY <1>2, <1>7
  <1>9. PICK c : c = cache
    OBVIOUS
  <1>10. RealmInv(p, c)'
    <2>0. PICK g : g = q.up.group
      OBVIOUS
    <2>1. /\ Len(groups') = Len(groups) + 1 /\ groups'[Len(groups) + 1] = g
      BY <1>0, <1>4, <2>0, AppendFacts
    <2>2. p.txv \in 1 .. Len(groups) /\ c.max \in Nat /\ (p.txv > c.max => Steady(c.max, p.txv))
      BY <1>0, <1>1, <1>3, <1>7, <1>9 DEF RealmInv
    <2>3. p.txv > c.max => Steady(c.max, p.txv)'
      BY <1>0, <1>4, <2>2, AppendKeepsSteady
    <2>4. p.txv \in 1 .. Len(groups') /\ p.group \in 0 .. Len(groups')
      BY <1>0, <1>7, <2>1, <2>2
    <2>5. ~Unversioned(Len(groups))'
      BY <1>2, <2>0, <2>1 DEF Unversioned
    <2> QED
      BY <1>2, <1>7, <1>8, <2>3, <2>4, <2>5 DEF RealmInv
  <1>11. PhaseInv(r, p, {})
    <2>1. p.group # 0
      BY <1>0, <1>7
    <2>2. p.new.known \in BOOLEAN
      BY <1>8
    <2> QED
      BY <1>7, <2>1, <2>2, PhaseFacts
  <1>12. \A o \in SchemaRealms : o # r => realms'[o] = realms[o] /\ realms[o].up.phase # "written"
    BY <1>2, <1>6 DEF SchemaInv, PhaseInv
  <1>13. DOMAIN realms' = SchemaRealms /\ realms'[r] = p
    BY <1>0, <1>6
  <1>14. \A o \in SchemaRealms :
               \/ realms'[o] = realms[o] /\ realms[o].up.phase # "written"
               \/ /\ PhaseInv(o, realms'[o], {}) /\ realms'[o].up.phase # "written"
                  /\ \A y : y = realms'[o] => RealmInv(y, c)'
    BY <1>7, <1>10, <1>11, <1>12, <1>13
  <1> QED
    BY <1>0, <1>4, <1>6, <1>9, <1>13, <1>14, StepAppends

\* The schema of the version reached is cached.
LEMMA CachesNewSchemaKeeps ==
    ASSUME SchemaInv, NEW r \in SchemaRealms, CachesNewSchema(r), "leftover" \notin broken'
    PROVE  SchemaInv'
  <1>0. /\ realms[r].open = TRUE /\ realms[r].up.phase \in {"advanced", "committed"}
        /\ realms[r].group # 0
    BY DEF CachesNewSchema, SchemaInv, PhaseInv
  <1>1. PICK x : x = State(r)
    OBVIOUS
  <1>2. /\ IsState(x) /\ Good(x.realm, x.cache) /\ x.realm = realms[r] /\ x.cache = cache /\ FileInv
        /\ cache.max \in Nat
    BY <1>0, <1>1, StateFacts
  <1>3. PICK n : n = CacheNewSchema(x)
    OBVIOUS
  <1>4. IsState(n)
    BY <1>2, <1>3 DEF CacheNewSchema, IsState
  <1>5. PICK p : p = Ended(n.realm, realms[r].up.was)
    OBVIOUS
  <1>6. /\ groups' = groups /\ mode' = mode /\ writer' = writer /\ cache' = n.cache
        /\ realms' = [realms EXCEPT ![r] = p] /\ broken' = n.broken
    BY <1>1, <1>3, <1>4, <1>5 DEF CachesNewSchema, RealmBecomes, IsState
  <1>7. Good(n.realm, n.cache) /\ Follows(x, n)
    BY <1>0, <1>2, <1>3, <1>6, CacheNewSchemaOutcome
  <1>8. /\ IsRealm(p) /\ p.open = TRUE /\ p.group \in {n.realm.group, 0}
        /\ p.new = n.realm.new /\ p.txv = n.realm.txv /\ p.version = n.realm.version
        /\ p.up = Idle /\ n.realm.up.phase # "written"
    BY <1>0, <1>2, <1>5, <1>7 DEF Good, Follows, Ended, IsRealm
  <1>9. p.up.phase = "idle"
    BY <1>8 DEF Idle
  <1>10. RealmInv(p, n.cache)
    BY <1>7, <1>8, RealmVariant DEF Good
  <1>11. p.new.known \in BOOLEAN
    BY <1>7, <1>8 DEF Good
  <1>12. PhaseInv(r, p, writer)
    BY <1>8, <1>9, <1>11, PhaseFacts
  <1> QED
    BY <1>2, <1>6, <1>7, <1>10, <1>12, StepInPlace DEF Good, Follows

\* do_refresh.
LEMMA DoRefreshOutcome ==
    ASSUME FileInv, NEW st, IsState(st), Good(st.realm, st.cache),
           st.realm.up.phase # "written", NEW n, n = DoRefresh(st), "leftover" \notin n.broken
    PROVE  Good(n.realm, n.cache) /\ Follows(st, n) /\ n.realm.group # 0
  <1>1. CASE st.realm.group = 0
    <2>1. n = BeginRead(st)
      BY <1>1 DEF DoRefresh
    <2> QED
      BY <2>1, BeginReadOutcome, FileFacts
  <1>2. CASE st.realm.group # 0
    <2>1. PICK m : m = Advance(st)
      OBVIOUS
    <2>2. n = IF m.ok THEN CacheNewSchema(m) ELSE m
      BY <1>2, <2>1 DEF DoRefresh
    <2>3. /\ Good(m.realm, m.cache) /\ Follows(st, m) /\ m.realm.group # 0
      BY <1>2, <2>1, AdvanceOutcome
    <2>4. CASE ~m.ok
      BY <2>2, <2>3, <2>4
    <2>5. CASE m.ok
      <3>1. n = CacheNewSchema(m)
        BY <2>2, <2>5
      <3>2. IsState(m) /\ m.realm.up.phase # "written"
        BY <2>3 DEF Follows
      <3>3. Good(n.realm, n.cache) /\ Follows(m, n) /\ n.realm.group # 0
        BY <2>3, <3>1, <3>2, CacheNewSchemaOutcome
      <3>4. n.cache.max \in Nat /\ m.cache.max \in Nat /\ st.cache.max \in Nat
        BY <2>3, <3>3 DEF Good, IsCache
      <3> QED
        BY <2>3, <3>3, <3>4 DEF Follows
    <2> QED
      BY <2>4, <2>5
  <1> QED
    BY <1>1, <1>2

\* The file is begun anew.
LEMMA ResetKeeps ==
    ASSUME SchemaInv, NEW r \in SchemaRealms, Alone(r),
           groups' = <<EmptyGroup>>, mode' = mode, writer' = writer, NEW p, NEW c,
           realms' = [realms EXCEPT ![r] = p], cache' = c,
           IsCache(c), c.known = FALSE,
           PhaseInv(r, p, writer), p.up.phase = "waiting", p.txv = 1, p.group = 1, p.version = NotVersioned
    PROVE  SchemaInv'
  <1>1. /\ Len(groups') = 1 /\ DOMAIN groups' = {1} /\ groups'[1] = EmptyGroup
        /\ groups' # <<>> /\ \E S : groups' \in Seq(S)
    <2>1. groups' \in Seq({EmptyGroup})
      OBVIOUS
    <2>2. Len(groups') = 1 /\ groups'[1] = EmptyGroup
      OBVIOUS
    <2>3. DOMAIN groups' = 1 .. 1
      BY <2>1, <2>2
    <2>4. groups' # <<>>
      BY <2>2
    <2>5. DOMAIN groups' = {1}
      BY <2>3
    <2>6. \E S : groups' \in Seq(S)
      BY <2>1
    <2> QED
      BY <2>2, <2>4, <2>5, <2>6, Zenon
  <1>2. /\ IsGroup(EmptyGroup) /\ EmptyGroup.version = NotVersioned /\ DOMAIN EmptyGroup.tables = {}
    BY DEF EmptyGroup, IsGroup, EmptySchema
  <1>3. FileInv'
    BY <1>1, <1>2 DEF FileInv, IsGroup, Blank, Unversioned
  <1>4. IsCache(cache)' /\ CacheInv(cache)'
    BY DEF IsCache, CacheInv
  <1>5. DOMAIN realms' = SchemaRealms /\ mode' \in SchemaModes /\ realms'[r] = p
    BY DEF SchemaInv
  <1>6. RealmInv(p, c)'
    <2>1. Steady(p.txv, p.group)' /\ Steady(c.max, p.txv)'
      BY <1>1 DEF Steady
    <2>2. Blank(1)'
      BY <1>1, <1>2 DEF Blank
    <2> QED
      BY <1>1, <2>1, <2>2 DEF RealmInv
  <1>7. ASSUME NEW o \in SchemaRealms
        PROVE  PhaseInv(o, realms[o], writer)' /\ (realms[o].open => RealmInv(realms[o], cache))'
    <2>1. PICK q : q = realms'[o]
      OBVIOUS
    <2>2. PhaseInv(o, q, writer) /\ q.up.phase # "written" /\ (q.open => RealmInv(q, c)')
      <3>1. CASE o = r
        BY <1>5, <1>6, <2>1, <3>1
      <3>2. CASE o # r
        <4>1. q = realms[o]
          BY <2>1, <3>2 DEF SchemaInv
        <4>2. PhaseInv(o, q, writer) /\ ~q.open
          BY <3>2, <4>1 DEF SchemaInv, Alone
        <4> QED
          BY <4>2 DEF PhaseInv
      <3> QED
        BY <3>1, <3>2
    <2>3. PhaseInv(o, realms[o], writer)'
      BY <2>1, <2>2 DEF PhaseInv, IsRealm
    <2>4. (realms[o].open => RealmInv(realms[o], cache))'
      BY <2>1, <2>2 DEF RealmInv, Steady, LayoutAt, Blank, Unversioned
    <2> QED
      BY <2>3, <2>4
  <1> QED
    BY <1>3, <1>4, <1>5, <1>7 DEF SchemaInv

\* Only one schema mode deletes the file.
LEMMA OnlyResetFileResets ==
    ASSUME SchemaInv, NEW q, NEW changes, NEW version,
           NeedsWrite(q, changes, version) \notin {"throw", "no", "yes"}
    PROVE  mode = "ResetFile"
  <1>1. mode \in {"Automatic", "ReadOnly", "ResetFile", "Additive", "Manual"}
    BY ModesAssumption DEF SchemaInv
  <1> SUFFICES ASSUME mode # "ResetFile" PROVE FALSE
    OBVIOUS
  <1>2. CASE mode = "Automatic"
    BY <1>2 DEF NeedsWrite
  <1>3. CASE mode = "ReadOnly"
    BY <1>3 DEF NeedsWrite
  <1>4. CASE mode = "Additive"
    BY <1>4 DEF NeedsWrite
  <1>5. CASE mode = "Manual"
    BY <1>5 DEF NeedsWrite
  <1> QED
    BY <1>1, <1>2, <1>3, <1>4, <1>5

\* update_schema up to its decision.
LEMMA UpdateBeginsKeeps ==
    ASSUME SchemaInv, NEW r \in SchemaRealms, NEW target, NEW version, NEW mig,
           UpdateBegins(r, target, version, mig), "leftover" \notin broken',
           version # NotVersioned, mig.kind = "delete" => DOMAIN target # {}
    PROVE  SchemaInv'
  <1>0. realms[r].open = TRUE /\ realms[r].up.phase = "idle"
    BY IdleFacts DEF UpdateBegins
  <1>1. PICK x : x = State(r)
    OBVIOUS
  <1>2. /\ IsState(x) /\ Good(x.realm, x.cache) /\ x.realm = realms[r] /\ x.cache = cache /\ FileInv
        /\ cache.max \in Nat
    BY <1>0, <1>1, StateFacts
  <1>3. PICK st : st = DoRefresh(x)
    OBVIOUS
  <1>4. PICK actual : actual = FullSchema(st)
    OBVIOUS
  <1>5. PICK changes : changes = Compare(actual, target, FALSE)
    OBVIOUS
  <1>6. PICK needs : needs = NeedsWrite(st.realm, changes, version)
    OBVIOUS
  <1>7. PICK reset : reset = ResetFile(st.realm, target)
    OBVIOUS
  <1> DEFINE was == realms[r].group # 0
             Waiting(cs) == [phase |-> "waiting", target |-> target, version |-> version, mig |-> mig,
                             was |-> was, changes |-> cs]
             set == SetSchema(st.realm, actual, target)
  <1>8. /\ mode' = mode /\ writer' = writer /\ (mode = "ResetFile" => Alone(r))
        /\ IF ~st.ok \/ needs = "throw" THEN RealmBecomes(r, st) /\ groups' = groups
           ELSE IF needs = "no"
           THEN /\ RealmBecomes(r, [st EXCEPT !.realm = [set EXCEPT !.group = IF was THEN @ ELSE 0]])
                /\ groups' = groups
           ELSE IF needs = "yes"
           THEN RealmBecomes(r, [st EXCEPT !.realm.up = Waiting(changes)]) /\ groups' = groups
           ELSE /\ groups' = <<EmptyGroup>>
                /\ RealmBecomes(r, [st EXCEPT
                     !.realm = [reset.realm EXCEPT !.up = Waiting(reset.changes)],
                     !.cache = reset.cache])
    BY <1>1, <1>3, <1>4, <1>5, <1>6, <1>7, Zenon DEF UpdateBegins
  <1> HIDE DEF was, Waiting, set
  <1>9. IsState(st)
    BY <1>2, <1>3 DEF DoRefresh, BeginRead, ReadSchemaIfNeeded, Advance, CacheNewSchema, IsState
  <1>10. broken' = st.broken
    BY <1>8, <1>9 DEF RealmBecomes, IsState
  <1>11. Good(st.realm, st.cache) /\ Follows(x, st) /\ st.realm.group # 0
    BY <1>0, <1>2, <1>3, <1>10, DoRefreshOutcome
  <1>12. /\ IsRealm(st.realm) /\ st.realm.open = TRUE /\ st.realm.up.phase = "idle"
         /\ IsCache(st.cache) /\ CacheInv(st.cache) /\ RealmInv(st.realm, st.cache)
         /\ st.cache.max >= cache.max
    BY <1>0, <1>2, <1>11 DEF Good, Follows
  <1>13. st.realm.new.known \in BOOLEAN
    BY <1>11 DEF Good
  <1>14. CASE ~st.ok \/ needs = "throw"
    <2>1. groups' = groups /\ cache' = st.cache /\ realms' = [realms EXCEPT ![r] = st.realm]
      BY <1>8, <1>14 DEF RealmBecomes
    <2>2. PhaseInv(r, st.realm, writer)
      BY <1>12, <1>13, PhaseFacts
    <2> QED
      BY <1>8, <1>12, <2>1, <2>2, StepInPlace
  <1>15. CASE ~(~st.ok \/ needs = "throw") /\ needs = "no"
    <2>1. PICK p : p = [set EXCEPT !.group = IF was THEN @ ELSE 0]
      OBVIOUS
    <2>2. groups' = groups /\ cache' = st.cache /\ realms' = [realms EXCEPT ![r] = p]
      BY <1>8, <1>9, <1>15, <2>1 DEF RealmBecomes, IsState
    <2>3. /\ IsRealm(set) /\ set.open = TRUE /\ set.up = st.realm.up /\ set.group = st.realm.group
          /\ set.new = st.realm.new /\ set.txv = st.realm.txv /\ set.version = st.realm.version
      BY <1>12 DEF IsRealm, SetSchema, set
    <2>4. /\ IsRealm(p) /\ p.open = TRUE /\ p.up = st.realm.up /\ p.group \in {st.realm.group, 0}
          /\ p.new = st.realm.new /\ p.txv = st.realm.txv /\ p.version = st.realm.version
      BY <2>1, <2>3 DEF IsRealm
    <2>5. RealmInv(p, st.cache)
      BY <1>12, <2>4, RealmVariant
    <2>6. PhaseInv(r, p, writer)
      BY <1>12, <1>13, <2>4, PhaseFacts
    <2> QED
      BY <1>8, <1>12, <2>2, <2>5, <2>6, StepInPlace
  <1>16. \A cs : /\ Waiting(cs).phase = "waiting" /\ Waiting(cs).version = version
                 /\ Waiting(cs).mig = mig /\ Waiting(cs).target = target
    BY DEF Waiting
  <1>17. ASSUME NEW p, NEW cs, IsRealm(p), p.open = TRUE, p.new.known \in BOOLEAN, p.group # 0, p.up = Waiting(cs)
         PROVE  PhaseInv(r, p, writer)
    BY <1>16, <1>17 DEF PhaseInv
  <1>18. CASE ~(~st.ok \/ needs = "throw") /\ needs # "no" /\ needs = "yes"
    <2>0. PICK u : u = Waiting(changes)
      OBVIOUS
    <2>1. PICK p : p = [st.realm EXCEPT !.up = u]
      OBVIOUS
    <2>2. groups' = groups /\ cache' = st.cache /\ realms' = [realms EXCEPT ![r] = p]
      BY <1>8, <1>9, <1>18, <2>0, <2>1 DEF RealmBecomes, IsState
    <2>3. /\ IsRealm(p) /\ p.open = TRUE /\ p.up = u /\ p.group = st.realm.group
          /\ p.new = st.realm.new /\ p.txv = st.realm.txv /\ p.version = st.realm.version
      BY <1>12, <2>1 DEF IsRealm
    <2>4. RealmInv(p, st.cache)
      BY <1>12, <2>3, RealmVariant
    <2>5. p.new.known \in BOOLEAN /\ p.group # 0
      BY <1>11, <1>13, <2>3
    <2>6. PhaseInv(r, p, writer)
      BY <1>17, <2>0, <2>3, <2>5
    <2> QED
      BY <1>8, <1>12, <2>2, <2>4, <2>6, StepInPlace
  <1>19. CASE ~(~st.ok \/ needs = "throw") /\ needs # "no" /\ needs # "yes"
    <2>0. PICK u : u = Waiting(reset.changes)
      OBVIOUS
    <2>1. PICK p : p = [reset.realm EXCEPT !.up = u]
      OBVIOUS
    <2>2. PICK c : c = reset.cache
      OBVIOUS
    <2>3. groups' = <<EmptyGroup>> /\ cache' = c /\ realms' = [realms EXCEPT ![r] = p]
      BY <1>8, <1>9, <1>19, <2>0, <2>1, <2>2 DEF RealmBecomes, IsState
    <2>4. /\ reset.realm = [st.realm EXCEPT !.schema = EmptySchema, !.version = NotVersioned,
                                            !.txv = 1, !.group = 1]
          /\ c = ClearCache(cache, NotVersioned)
      BY <1>7, <2>2 DEF ResetFile
    <2>5. /\ IsRealm(p) /\ p.open = TRUE /\ p.up = u /\ p.group = 1
          /\ p.new = st.realm.new /\ p.txv = 1 /\ p.version = NotVersioned
      BY <1>12, <2>1, <2>4 DEF IsRealm
    <2>6. IsCache(c) /\ c.known = FALSE
      BY <2>4 DEF ClearCache, IsCache, SchemaInv
    <2>7. p.new.known \in BOOLEAN /\ p.group # 0
      BY <1>13, <2>5
    <2>8. PhaseInv(r, p, writer) /\ p.up.phase = "waiting"
      BY <1>16, <1>17, <2>0, <2>5, <2>7
    <2>9. Alone(r)
      BY <1>6, <1>8, <1>19, OnlyResetFileResets
    <2> QED
      BY <1>8, <2>3, <2>5, <2>6, <2>8, <2>9, ResetKeeps
  <1> QED
    BY <1>14, <1>15, <1>18, <1>19

\* update_schema in the write transaction, with all of its ends.
LEMMA UpdateWritesKeeps ==
    ASSUME SchemaInv, NEW r \in SchemaRealms, NEW fits, NEW told, UpdateWrites(r, fits, told),
           "leftover" \notin broken'
    PROVE  SchemaInv'
  <1> DEFINE up == realms[r].up
             g == groups[Len(groups)]
  <1>0. realms[r].open = TRUE /\ up.phase = "waiting" /\ writer = {} /\ realms[r].group # 0
    BY DEF UpdateWrites, SchemaInv, PhaseInv
  <1>1. PICK x : x = State(r)
    OBVIOUS
  <1>2. /\ IsState(x) /\ Good(x.realm, x.cache) /\ x.realm = realms[r] /\ x.cache = cache /\ FileInv
        /\ x.broken = broken /\ cache.max \in Nat /\ PhaseInv(r, realms[r], writer) /\ IsCache(cache)
        /\ Len(groups) \in Nat \ {0} /\ DOMAIN groups = 1 .. Len(groups) /\ Len(groups) \in DOMAIN groups
    BY <1>0, <1>1, StateFacts, FileFacts
  <1>3. PICK q : q = Promoted(realms[r])
    OBVIOUS
  <1>4. Good(q, cache) /\ q.group = Len(groups) /\ q.up = up /\ q.open = TRUE
    BY <1>0, <1>2, <1>3, PromotedOutcome
  <1>5. PICK st : st = [x EXCEPT !.realm = q]
    OBVIOUS
  <1>6. IsState(st) /\ st.realm = q /\ st.cache = cache /\ st.broken = broken
    BY <1>2, <1>5 DEF IsState
  <1>7. PICK changes : changes = IF q.new.known THEN Compare(q.new.schema, up.target, FALSE) ELSE up.changes
    OBVIOUS
  <1>8. PICK needs : needs = IF q.new.known THEN NeedsWrite(q, changes, up.version) ELSE "yes"
    OBVIOUS
  <1>9. PICK cached : cached = CacheNewSchema(st)
    OBVIOUS
  <1>10. PICK old : old = IF up.mig.kind = "absent" \/ cached.cache.known THEN cached
                          ELSE [cached EXCEPT !.cache = CacheSchema(@, SchemaFromGroup(g), g.version, Len(groups))]
    OBVIOUS
  <1>11. PICK res : res = ApplySchemaChanges(g, q.version, up.target, up.version, mode, changes,
                                             up.mig, fits, Len(groups) + 1)
    OBVIOUS
  <1>12. PICK set : set = SetSchema(cached.realm, q.new.schema, up.target)
    OBVIOUS
  <1>13. PICK undone : undone = IF told THEN OnSchemaChange(old.realm, g) ELSE old.realm
    OBVIOUS
  <1>14. PICK written : written = [phase |-> "written", was |-> up.was, group |-> res.group]
    OBVIOUS
  <1>15. PICK done : done = [old.realm EXCEPT
                   !.schema = SetSchemaKeys(res.group, up.target),
                   !.new = KnownSchema(SchemaFromGroup(res.group)),
                   !.version = res.group.version,
                   !.dynamic = FALSE,
                   !.doubt = {},
                   !.up = written]
    OBVIOUS
  <1>16. /\ mode' = mode /\ groups' = groups
         /\ IF needs = "throw" THEN RealmBecomes(r, [st EXCEPT !.realm = Threw(q, up.was)]) /\ writer' = writer
            ELSE IF needs = "no"
            THEN RealmBecomes(r, [cached EXCEPT !.realm = Ended(set, up.was)]) /\ writer' = writer
            ELSE IF ~res.ok
            THEN RealmBecomes(r, [old EXCEPT !.realm = Threw(undone, up.was)]) /\ writer' = writer
            ELSE /\ RealmBecomes(r, [old EXCEPT !.realm = done, !.cache = ClearCache(@, up.version)])
                 /\ writer' = {r}
    BY <1>1, <1>3, <1>5, <1>7, <1>8, <1>9, <1>10, <1>11, <1>12, <1>13, <1>14, <1>15, Zenon DEF UpdateWrites, LatestGroup
  <1> HIDE DEF up, g
  <1>17. /\ up.version # NotVersioned /\ (up.mig.kind = "delete" => DOMAIN up.target # {})
    BY <1>0, <1>2 DEF PhaseInv, up
  <1>18. IsState(cached) /\ IsState(old) /\ old.realm = cached.realm /\ old.broken = cached.broken
    BY <1>6, <1>9, <1>10 DEF CacheNewSchema, IsState
  \* A Realm whose update ends without a commit.
  <1>19. ASSUME NEW z, NEW c, Good(z, c), z.open = TRUE, z.up.phase # "written", c.max >= cache.max,
                NEW p, cache' = c, realms' = [realms EXCEPT ![r] = p], writer' = writer,
                p = Ended(z, up.was) \/ p = Threw(z, up.was)
         PROVE  SchemaInv'
    <2>0. IsRealm(z) /\ RealmInv(z, c) /\ IsCache(c) /\ CacheInv(c)
      BY <1>19 DEF Good
    <2>1. PICK e : e = Ended(z, up.was)
      OBVIOUS
    <2>2. /\ IsRealm(e) /\ e.open = TRUE /\ e.up = Idle /\ e.group \in {z.group, 0}
          /\ e.new = z.new /\ e.txv = z.txv /\ e.version = z.version
      BY <1>19, <2>0, <2>1 DEF Ended, IsRealm
    <2>3. /\ IsRealm(p) /\ p.open = TRUE /\ p.up = Idle /\ p.group \in {z.group, 0}
          /\ p.new = z.new /\ p.txv = z.txv /\ p.version = z.version
      BY <1>19, <2>1, <2>2 DEF Threw, IsRealm
    <2>4. RealmInv(p, c)
      BY <1>19, <2>0, <2>3, RealmVariant
    <2>5. p.up.phase = "idle"
      BY <2>3 DEF Idle
    <2>6. p.new.known \in BOOLEAN
      BY <1>19, <2>3 DEF Good
    <2>7. PhaseInv(r, p, writer)
      BY <2>3, <2>5, <2>6, PhaseFacts
    <2> QED
      BY <1>16, <1>19, <2>0, <2>4, <2>7, StepInPlace
  <1>20. q.up.phase = "waiting"
    BY <1>0, <1>4 DEF up
  <1>21. CASE needs = "throw"
    <2>1. PICK p : p = Threw(q, up.was)
      OBVIOUS
    <2>2. PICK c : c = cache
      OBVIOUS
    <2>3. cache' = c /\ realms' = [realms EXCEPT ![r] = p] /\ writer' = writer
      BY <1>6, <1>16, <1>21, <2>1, <2>2 DEF RealmBecomes, IsState
    <2>4. c.max >= cache.max
      BY <1>2, <2>2
    <2>5. Good(q, c)
      BY <1>4, <2>2
    <2> QED
      BY <1>4, <1>19, <1>20, <2>1, <2>3, <2>4, <2>5
  <1>22. CASE needs # "throw"
    <2>1. broken' = cached.broken
      BY <1>16, <1>18, <1>22 DEF RealmBecomes, IsState
    <2>2. /\ Good(cached.realm, cached.cache) /\ Follows(st, cached)
          /\ cached.realm.group = Len(groups) /\ cached.realm.txv = Len(groups)
          /\ cached.realm.version = q.version
      <3>1. st.realm.group # 0 /\ st.realm.up.phase # "written"
        BY <1>2, <1>4, <1>6, <1>20
      <3> QED
        BY <1>2, <1>4, <1>6, <1>9, <2>1, <3>1, CacheNewSchemaOutcome
    <2>3. cached.realm.open = TRUE /\ cached.realm.up.phase = "waiting" /\ cached.cache.max >= cache.max
      BY <1>4, <1>6, <1>20, <2>2 DEF Follows
    <2>4. CASE needs = "no"
      <3>1. PICK p : p = Ended(set, up.was)
        OBVIOUS
      <3>2. PICK c : c = cached.cache
        OBVIOUS
      <3>3. cache' = c /\ realms' = [realms EXCEPT ![r] = p] /\ writer' = writer
        BY <1>16, <1>18, <2>4, <3>1, <3>2 DEF RealmBecomes, IsState
      <3>4. /\ IsRealm(set) /\ set.open = TRUE /\ set.up = cached.realm.up /\ set.group = cached.realm.group
            /\ set.new = cached.realm.new /\ set.txv = cached.realm.txv /\ set.version = cached.realm.version
        BY <1>12, <2>2, <2>3 DEF Good, IsRealm, SetSchema
      <3>5. RealmInv(set, c)
        BY <2>2, <2>3, <3>2, <3>4, RealmVariant DEF Good
      <3>6. set.new.known \in BOOLEAN
        BY <2>2, <3>4 DEF Good
      <3>7. Good(set, c) /\ set.up.phase # "written" /\ c.max >= cache.max
        BY <2>2, <2>3, <3>2, <3>4, <3>5, <3>6 DEF Good
      <3> QED
        BY <1>19, <3>1, <3>3, <3>4, <3>7
    <2>5. PICK c : c = old.cache
      OBVIOUS
    <2>6. /\ IsCache(c) /\ CacheInv(c) /\ c.max >= cached.cache.max
      <3>1. CASE up.mig.kind = "absent" \/ cached.cache.known
        <4>1. c = cached.cache
          BY <1>10, <2>5, <3>1
        <4> QED
          BY <2>2, <4>1 DEF Good, IsCache
      <3>2. CASE ~(up.mig.kind = "absent" \/ cached.cache.known)
        <4>1. c = CacheSchema(cached.cache, SchemaFromGroup(g), g.version, Len(groups))
          BY <1>10, <1>18, <2>5, <3>2 DEF IsState
        <4>2. LayoutOf(SchemaFromGroup(g)) = LayoutAt(Len(groups)) /\ (g.version # NotVersioned => ~Unversioned(Len(groups)))
          BY LayoutOfSchema DEF LayoutAt, Unversioned, g
        <4> QED
          BY <1>2, <2>2, <4>1, <4>2, CacheSchemaOutcome DEF Good
      <3> QED
        BY <3>1, <3>2
    <2>7. c.max >= cache.max /\ Good(old.realm, c)
      <3>1. c.max >= cache.max
        BY <1>2, <2>2, <2>3, <2>6 DEF Good, IsCache
      <3>2. RealmInv(old.realm, c)
        BY <1>2, <1>18, <2>2, <2>6, RealmWithGrownCache DEF Good
      <3> QED
        BY <1>18, <2>2, <2>6, <3>1, <3>2 DEF Good
    <2>8. CASE needs # "no" /\ ~res.ok
      <3>1. PICK p : p = Threw(undone, up.was)
        OBVIOUS
      <3>2. cache' = c /\ realms' = [realms EXCEPT ![r] = p] /\ writer' = writer
        BY <1>16, <1>18, <1>22, <2>5, <2>8, <3>1 DEF RealmBecomes, IsState
      <3>3. Good(undone, c) /\ undone.open = TRUE /\ undone.up.phase # "written"
        <4>1. CASE ~told
          BY <1>13, <1>18, <2>3, <2>7, <4>1
        <4>2. CASE told
          <5>1. undone = OnSchemaChange(old.realm, g) /\ IsRealm(old.realm)
            BY <1>13, <2>7, <4>2 DEF Good
          <5>2. /\ IsRealm(undone)
                /\ undone.open = old.realm.open /\ undone.txv = old.realm.txv
                /\ undone.group = old.realm.group /\ undone.up = old.realm.up
                /\ undone.new = KnownSchema(SchemaFromGroup(g)) /\ undone.version = g.version
            BY <5>1, OnSchemaChangeOutcome
          <5>3. undone.new.known = TRUE
            BY <5>2 DEF KnownSchema
          <5>4. undone.version = groups[Len(groups)].version /\ old.realm.group = Len(groups) /\ old.realm.group # 0
            BY <1>2, <1>18, <2>2, <5>2 DEF g
          <5>5. undone.open = TRUE /\ undone.up.phase # "written" /\ old.realm.up.phase # "written"
            BY <1>18, <2>3, <5>2
          <5>6. Good(undone, c)
            BY <1>2, <2>7, <5>2, <5>3, <5>4, <5>5, MovesToLatest
          <5> QED
            BY <5>5, <5>6
        <4> QED
          BY <4>1, <4>2
      <3> QED
        BY <1>19, <2>7, <3>1, <3>2, <3>3
    <2>9. CASE needs # "no" /\ res.ok
      <3>1. PICK d : d = ClearCache(c, up.version)
        OBVIOUS
      <3>2. cache' = d /\ realms' = [realms EXCEPT ![r] = done] /\ writer' = {r}
        BY <1>16, <1>18, <1>22, <2>5, <2>9, <3>1 DEF RealmBecomes, IsState
      <3>3. IsCache(d) /\ d.known = FALSE /\ d.max = c.max
        BY <2>6, <3>1 DEF ClearCache, IsCache
      <3>4. CacheInv(d) /\ d.max >= cache.max
        BY <2>7, <3>3 DEF CacheInv
      <3>5. Keeps(g, res.group) /\ res.group.version # NotVersioned
        <4>1. IsGroup(g)
          BY <1>2 DEF FileInv, g
        <4>2. q.version # NotVersioned => g.version # NotVersioned
          BY <1>4, <1>20 DEF Good, RealmInv, Unversioned, g
        <4> QED
          BY <1>11, <1>17, <2>9, <4>1, <4>2, ApplyOutcome
      <3>6. /\ IsRealm(done) /\ done.open = TRUE /\ done.txv = Len(groups) /\ done.group = Len(groups)
            /\ done.version = res.group.version /\ done.up = written
            /\ done.new = KnownSchema(SchemaFromGroup(res.group))
        BY <1>15, <1>18, <2>2, <2>3, <2>7 DEF Good, IsRealm
      <3>7. done.new.known = TRUE /\ done.up.phase = "written" /\ done.up.group = res.group
        BY <1>14, <3>6 DEF KnownSchema
      <3>8. RealmInv(done, d)
        <4>1. Len(groups) > c.max => Steady(c.max, Len(groups))
          BY <1>18, <2>2, <2>7 DEF Good, RealmInv
        <4> QED
          BY <1>2, <3>3, <3>5, <3>6, <3>7, <4>1 DEF RealmInv
      <3>9. PhaseInv(r, done, {r})
        <4>1. DOMAIN res.group.tables = {} => Blank(Len(groups))
          BY <3>5 DEF Keeps, Blank, g
        <4>2. IsGroup(done.up.group) /\ done.group # 0
          BY <1>2, <3>5, <3>6, <3>7 DEF Keeps
        <4> QED
          BY <3>5, <3>6, <3>7, <4>1, <4>2 DEF PhaseInv
      <3> QED
        BY <1>0, <1>16, <3>2, <3>3, <3>4, <3>8, <3>9, StepInPlace
    <2> QED
      BY <2>4, <2>8, <2>9
  <1> QED
    BY <1>21, <1>22

-----------------------------------------------------------------------------
(* The theorem.                                                            *)

\* The file that does not exist yet.
LEMMA SchemaInvInit ==
    ASSUME SchemaUpdatesInit
    PROVE  SchemaInv
  <1>1. /\ Len(groups) = 1 /\ DOMAIN groups = {1} /\ groups[1] = EmptyGroup
        /\ groups # <<>> /\ \E S : groups \in Seq(S)
    <2>0. groups = <<EmptyGroup>>
      BY DEF SchemaUpdatesInit
    <2>1. groups \in Seq({EmptyGroup})
      BY <2>0
    <2>2. Len(groups) = 1 /\ groups[1] = EmptyGroup
      BY <2>0
    <2>3. DOMAIN groups = 1 .. 1
      BY <2>1, <2>2
    <2>4. groups # <<>>
      BY <2>2
    <2>5. DOMAIN groups = {1}
      BY <2>3
    <2>6. \E S : groups \in Seq(S)
      BY <2>1
    <2> QED
      BY <2>2, <2>4, <2>5, <2>6, Zenon
  <1>2. IsGroup(EmptyGroup) /\ EmptyGroup.version = NotVersioned /\ DOMAIN EmptyGroup.tables = {}
    BY DEF EmptyGroup, IsGroup, EmptySchema
  <1>3. FileInv
    BY <1>1, <1>2 DEF FileInv, Blank, Unversioned
  <1>4. IsCache(cache) /\ CacheInv(cache)
    BY DEF SchemaUpdatesInit, IsCache, CacheInv
  <1>5. DOMAIN realms = SchemaRealms /\ mode \in SchemaModes
    BY DEF SchemaUpdatesInit
  <1>6. ASSUME NEW r \in SchemaRealms
        PROVE  PhaseInv(r, realms[r], writer) /\ (realms[r].open => RealmInv(realms[r], cache))
    <2>1. PICK p : p = realms[r]
      OBVIOUS
    <2>2. p = Closed
      BY <2>1 DEF SchemaUpdatesInit
    <2>3. IsRealm(p) /\ p.open = FALSE /\ p.new = NoSchema /\ p.up = Idle
      BY <2>2 DEF Closed, IsRealm
    <2>4. p.new.known = FALSE /\ p.up.phase = "idle"
      BY <2>3 DEF NoSchema, Idle
    <2>5. PhaseInv(r, p, writer)
      BY <2>3, <2>4 DEF PhaseInv
    <2> QED
      BY <2>1, <2>3, <2>5
  <1> QED
    BY <1>3, <1>4, <1>5, <1>6 DEF SchemaInv

\* What went wrong is not forgotten.
LEMMA StepsRemember ==
    ASSUME NEW st, IsState(st), NEW n, n \in {BeginRead(st), Advance(st), CacheNewSchema(st)}
    PROVE  IsState(n) /\ st.broken \subseteq n.broken
  <1>1. CASE n = BeginRead(st)
    <2>1. PICK x : x = [st EXCEPT !.realm.group = LatestGroup]
      OBVIOUS
    <2>2. IsState(x) /\ x.broken = st.broken
      BY <2>1 DEF IsState
    <2>3. n = ReadSchemaIfNeeded(x)
      BY <1>1, <2>1 DEF BeginRead
    <2> QED
      BY <2>2, <2>3 DEF ReadSchemaIfNeeded, IsState
  <1>2. CASE n = Advance(st)
    BY <1>2 DEF Advance, IsState
  <1>3. CASE n = CacheNewSchema(st)
    BY <1>3 DEF CacheNewSchema, IsState
  <1> QED
    BY <1>1, <1>2, <1>3

\* What went wrong is not forgotten by do_refresh.
LEMMA RefreshRemembers ==
    ASSUME NEW st, IsState(st), NEW n, n = DoRefresh(st)
    PROVE  IsState(n) /\ st.broken \subseteq n.broken
  <1>1. CASE st.realm.group = 0
    BY <1>1, StepsRemember DEF DoRefresh
  <1>2. CASE st.realm.group # 0
    <2>1. PICK m : m = Advance(st)
      OBVIOUS
    <2>2. n = IF m.ok THEN CacheNewSchema(m) ELSE m
      BY <1>2, <2>1 DEF DoRefresh
    <2>3. IsState(m) /\ st.broken \subseteq m.broken
      BY <2>1, StepsRemember
    <2>4. PICK k : k = CacheNewSchema(m)
      OBVIOUS
    <2>5. IsState(k) /\ m.broken \subseteq k.broken
      BY <2>3, <2>4, StepsRemember
    <2> QED
      BY <2>2, <2>3, <2>4, <2>5
  <1> QED
    BY <1>1, <1>2

\* ... nor by any step.
LEMMA BrokenGrows ==
    ASSUME SchemaUpdatesNext
    PROVE  broken \subseteq broken'
  <1>0. ASSUME NEW r \in SchemaRealms
        PROVE  IsState(State(r)) /\ State(r).broken = broken
    BY DEF State, IsState
  <1>1. ASSUME NEW r \in SchemaRealms, Open(r) PROVE broken \subseteq broken'
    BY <1>0, <1>1 DEF Open, RealmBecomes, IsState
  <1>2. ASSUME NEW r \in SchemaRealms, RefreshRealm(r) PROVE broken \subseteq broken'
    <2>1. PICK x : x = State(r)
      OBVIOUS
    <2>2. PICK st : st = IF realms[r].group = 0 THEN BeginRead(x) ELSE Advance(x)
      OBVIOUS
    <2>3. IsState(st) /\ broken \subseteq st.broken
      BY <1>0, <2>1, <2>2, StepsRemember
    <2> QED
      BY <1>2, <2>1, <2>2, <2>3 DEF RefreshRealm, RealmBecomes, IsState
  <1>3. ASSUME NEW r \in SchemaRealms, WriteObjects(r) PROVE broken \subseteq broken'
    <2>1. PICK x : x = State(r)
      OBVIOUS
    <2>2. PICK st : st = IF realms[r].group = 0 THEN BeginRead(x) ELSE Advance(x)
      OBVIOUS
    <2>3. IsState(st) /\ broken \subseteq st.broken
      BY <1>0, <2>1, <2>2, StepsRemember
    <2>4. PICK k : k = CacheNewSchema(st)
      OBVIOUS
    <2>5. IsState(k) /\ st.broken \subseteq k.broken
      BY <2>3, <2>4, StepsRemember
    <2> QED
      BY <1>3, <2>1, <2>2, <2>3, <2>4, <2>5 DEF WriteObjects, RealmBecomes, IsState
  <1>4. ASSUME NEW r \in SchemaRealms, NEW target, NEW version, NEW mig, UpdateBegins(r, target, version, mig)
        PROVE  broken \subseteq broken'
    <2>1. PICK x : x = State(r)
      OBVIOUS
    <2>2. PICK st : st = DoRefresh(x)
      OBVIOUS
    <2>3. IsState(st) /\ broken \subseteq st.broken
      BY <1>0, <2>1, <2>2, RefreshRemembers
    <2> QED
      BY <1>4, <2>1, <2>2, <2>3 DEF UpdateBegins, RealmBecomes, IsState
  <1>5. ASSUME NEW r \in SchemaRealms, NEW fits, NEW told, UpdateWrites(r, fits, told)
        PROVE  broken \subseteq broken'
    <2>1. PICK st : st = [State(r) EXCEPT !.realm = Promoted(realms[r])]
      OBVIOUS
    <2>2. IsState(st) /\ st.broken = broken
      BY <1>0, <2>1 DEF IsState
    <2>3. PICK k : k = CacheNewSchema(st)
      OBVIOUS
    <2>4. IsState(k) /\ broken \subseteq k.broken
      BY <2>2, <2>3, StepsRemember
    <2> QED
      BY <1>5, <2>1, <2>2, <2>3, <2>4 DEF UpdateWrites, RealmBecomes, IsState
  <1>6. ASSUME NEW r \in SchemaRealms, CachesNewSchema(r) PROVE broken \subseteq broken'
    <2>1. PICK x : x = State(r)
      OBVIOUS
    <2>2. PICK k : k = CacheNewSchema(x)
      OBVIOUS
    <2>3. IsState(k) /\ broken \subseteq k.broken
      BY <1>0, <2>1, <2>2, StepsRemember
    <2> QED
      BY <1>6, <2>1, <2>2, <2>3 DEF CachesNewSchema, RealmBecomes, IsState
  <1>7. ASSUME NEW r \in SchemaRealms,
               Close(r) \/ Invalidate(r) \/ UpdateCommits(r) \/ \E target \in Targets : SetSchemaSubset(r, target)
        PROVE  broken \subseteq broken'
    BY <1>7 DEF Close, Invalidate, UpdateCommits, SetSchemaSubset
  <1>8. ASSUME NEW target, NEW version, NEW mig, OtherProcessUpdates(target, version, mig)
        PROVE  broken \subseteq broken'
    BY <1>8 DEF OtherProcessUpdates
  <1> QED
    BY <1>1, <1>2, <1>3, <1>4, <1>5, <1>6, <1>7, <1>8 DEF SchemaUpdatesNext

\* Every step keeps the invariant as long as no leftover is used.
LEMMA SchemaInvNext ==
    ASSUME DeletionsKeepATable, SchemaInv, [SchemaUpdatesNext]_suVars, "leftover" \notin broken'
    PROVE  SchemaInv'
  <1>1. CASE UNCHANGED suVars
    BY <1>1 DEF suVars, SchemaInv, FileInv, IsGroup, IsCache, CacheInv, PhaseInv, IsRealm, RealmInv, Steady,
                LayoutAt, Blank, Unversioned
  <1>2. ASSUME NEW r \in SchemaRealms, NEW target \in Targets, NEW version \in Numbers,
               NEW mig \in Migrations[mode], UpdateBegins(r, target, version, mig)
        PROVE  SchemaInv'
    <2>1. version # NotVersioned
      BY NumbersAssumption
    <2>2. mig.kind = "delete" => DOMAIN target # {}
      BY DEF DeletionsKeepATable, SchemaInv
    <2> QED
      BY <1>2, <2>1, <2>2, UpdateBeginsKeeps
  <1>3. ASSUME NEW target \in Foreign, NEW version \in Numbers, NEW mig \in Migrations["Automatic"],
               OtherProcessUpdates(target, version, mig)
        PROVE  SchemaInv'
    <2>1. version # NotVersioned
      BY NumbersAssumption
    <2>2. mig.kind = "delete" => DOMAIN target # {}
      BY DEF DeletionsKeepATable
    <2> QED
      BY <1>3, <2>1, <2>2, OtherProcessKeeps
  <1>4. ASSUME NEW r \in SchemaRealms, NEW fits \in BOOLEAN, NEW told \in BOOLEAN, UpdateWrites(r, fits, told)
        PROVE  SchemaInv'
    BY <1>4, UpdateWritesKeeps
  <1>5. ASSUME NEW r \in SchemaRealms,
               \/ Open(r) \/ Close(r) \/ RefreshRealm(r) \/ Invalidate(r) \/ WriteObjects(r)
               \/ \E target \in Targets : SetSchemaSubset(r, target)
               \/ UpdateCommits(r) \/ CachesNewSchema(r)
        PROVE  SchemaInv'
    BY <1>5, OpenKeeps, CloseKeeps, RefreshKeeps, InvalidateKeeps, WriteObjectsKeeps, SetSchemaSubsetKeeps,
       UpdateCommitsKeeps, CachesNewSchemaKeeps
  <1> QED
    BY <1>1, <1>2, <1>3, <1>4, <1>5 DEF SchemaUpdatesNext

\* At every committed version of the range the coordinator's schema cache claims, the
\* file has exactly the tables and columns of the cached schema, unless a Realm used an
\* m_new_schema left by an update that threw: cache_schema, advance_schema_cache and
\* clear_schema_cache_and_set_schema_version keep the range right, whatever the Realms,
\* the other process and a failing update do between the steps of update_schema.  The
\* hypothesis is needed for cache_schema does not cache an empty schema.
THEOREM CacheAppliesToItsRange ==
    ASSUME DeletionsKeepATable
    PROVE  SchemaUpdatesSpec => []CacheAppliesToRange
  <1>1. SchemaUpdatesInit => CacheIInv
    BY SchemaInvInit DEF CacheIInv
  <1>2. CacheIInv /\ [SchemaUpdatesNext]_suVars => CacheIInv'
    <2> SUFFICES ASSUME CacheIInv, [SchemaUpdatesNext]_suVars, "leftover" \notin broken' PROVE SchemaInv'
      BY DEF CacheIInv
    <2>1. broken \subseteq broken'
      BY BrokenGrows DEF suVars
    <2> QED
      BY <2>1, SchemaInvNext DEF CacheIInv
  <1>3. CacheIInv => CacheAppliesToRange
    BY DEF CacheIInv, CacheAppliesToRange, SchemaInv, CacheInv, LayoutAt
  <1> QED
    BY <1>1, <1>2, <1>3, PTL DEF SchemaUpdatesSpec

=============================================================================
