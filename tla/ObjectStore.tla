----------------------------- MODULE ObjectStore -----------------------------
(***************************************************************************)
(* ObjectStore: reading the schema of a file and changing it               *)
(* (object_store.cpp, and ObjectSchema's reading of a table).              *)
(*                                                                         *)
(* A group is [version, tables]; a table is [embedded, pk, cols] and a     *)
(* column is [type, objectType, array, nullable, indexed, key].  A column  *)
(* key is the name and the transaction version with which the column was   *)
(* added: a removed and added column has another key, a renamed one keeps  *)
(* its own.  An operation that can throw returns [ok, group].              *)
(*                                                                         *)
(* Where an operation cannot be carried out by the storage engine (a       *)
(* column name in use, a key that is gone, values that do not fit a        *)
(* primary key or an embedded table) it throws: `fits` is whether the      *)
(* values do.                                                              *)
(***************************************************************************)
EXTENDS Schema

EmptyGroup == [version |-> NotVersioned, tables |-> EmptySchema]

Done(g) == [ok |-> TRUE, group |-> g]
Thrown(g) == [ok |-> FALSE, group |-> g]

-----------------------------------------------------------------------------
(* Reading.                                                                *)

\* from_core_type and the properties ObjectSchema(Group) makes: the primary key counts
\* as indexed.
PropertyOf(table, n) ==
    LET c == table.cols[n]
    IN [type |-> c.type, objectType |-> c.objectType, array |-> c.array,
        nullable |-> c.nullable, indexed |-> c.indexed \/ table.pk = n,
        primary |-> table.pk = n, origin |-> NoName, key |-> c.key]

ObjectSchemaOf(table) ==
    [embedded |-> table.embedded, pk |-> table.pk,
     props |-> [n \in DOMAIN table.cols |-> PropertyOf(table, n)],
     computed |-> EmptySchema]

SchemaFromGroup(g) == [ty \in DOMAIN g.tables |-> ObjectSchemaOf(g.tables[ty])]

\* set_schema_keys: a property without a column gets the null key.
SetSchemaKeys(g, schema) ==
    [ty \in DOMAIN schema |->
       IF ty \notin DOMAIN g.tables THEN schema[ty]
       ELSE [schema[ty] EXCEPT !.props =
               [n \in DOMAIN @ |-> [@[n] EXCEPT !.key =
                                      IF n \in DOMAIN g.tables[ty].cols
                                      THEN g.tables[ty].cols[n].key ELSE NoColumn]]]]

-----------------------------------------------------------------------------
(* Changing.                                                               *)

\* add_column: a link is always nullable and a list of links never; only columns of
\* plain values get the index.
ColumnFor(n, p, now) ==
    [type |-> p.type, objectType |-> p.objectType, array |-> p.array,
     nullable |-> IF p.type = "object" THEN ~p.array ELSE p.nullable,
     indexed |-> p.type # "object" /\ ~p.array /\ RequiresIndex(p),
     key |-> <<n, now>>]

\* create_table: a table with a primary key has its column from the start.
CreateTable(o, now) ==
    [embedded |-> o.embedded /\ o.pk = NoName, pk |-> o.pk,
     cols |-> [n \in {o.pk} \ {NoName} |-> ColumnFor(n, o.props[n], now)]]

\* The changes name the columns by the keys the compared schema had, or by names.
NamesOf(changes, kind, ty) == {c.prop : c \in {d \in changes : d.kind = kind /\ d.type = ty}}

InitialNames(target, changes, ty) ==
    IF NamesOf(changes, "AddInitialProperties", ty) = {} THEN {}
    ELSE DOMAIN target[ty].props \ {target[ty].pk}

BaseTable(g, target, ty, now) ==
    IF ty \in DOMAIN g.tables THEN g.tables[ty] ELSE CreateTable(target[ty], now)

\* A table after the changes.
VisitedTable(g, target, changes, pkBefore, ty, now) ==
    LET Names(kind) == NamesOf(changes, kind, ty)
        base == BaseTable(g, target, ty, now)
        added == InitialNames(target, changes, ty) \cup Names("AddProperty")
        replaced == Names("ChangePropertyType")
        removed == Names("RemoveProperty")
        Column(n) ==
            IF n \in added \cup replaced THEN ColumnFor(n, target[ty].props[n], now)
            ELSE IF n \in Names("MakePropertyRequired")
            THEN ColumnFor(n, [PropertyOf(g.tables[ty], n) EXCEPT !.nullable = FALSE], now)
            ELSE IF n \in Names("MakePropertyNullable")
            THEN [base.cols[n] EXCEPT !.nullable = TRUE, !.key = <<n, now>>]
            ELSE base.cols[n]
        Indexed(n) == IF n \in Names("AddIndex") THEN TRUE
                      ELSE IF n \in Names("RemoveIndex") THEN FALSE
                      ELSE Column(n).indexed
    IN [embedded |-> IF Names("ChangeTableType") # {} THEN target[ty].embedded ELSE base.embedded,
        pk |-> IF Names("ChangePrimaryKey") # {}
               THEN IF pkBefore THEN NoName ELSE target[ty].pk
               ELSE IF base.pk \in removed \cup replaced \cup Names("MakePropertyRequired")
               THEN NoName ELSE base.pk,
        cols |-> [n \in (DOMAIN base.cols \ removed) \cup added |->
                    [Column(n) EXCEPT !.indexed = Indexed(n)]]]

\* Can the storage engine carry out the change?
Carries(g, target, changes, c, pkBefore, fits, now) ==
    CASE c.kind = "AddProperty" -> /\ c.type \in DOMAIN g.tables
                                   /\ c.prop \notin DOMAIN g.tables[c.type].cols
      [] c.kind = "AddInitialProperties" ->
            InitialNames(target, changes, c.type) \cap DOMAIN BaseTable(g, target, c.type, now).cols = {}
      [] c.kind \in {"AddTable", "RemoveTable"} -> TRUE
      [] c.kind = "ChangeTableType" -> /\ c.type \in DOMAIN g.tables
                                       /\ target[c.type].embedded => fits
      [] c.kind = "ChangePrimaryKey" -> /\ c.type \in DOMAIN g.tables
                                        /\ c.prop # NoName /\ ~pkBefore => fits
      [] OTHER -> /\ c.type \in DOMAIN g.tables
                  /\ c.prop \in DOMAIN g.tables[c.type].cols
                  /\ g.tables[c.type].cols[c.prop].key = c.key

\* What the visitors do with the changes whose kinds they act upon.
Visit(g, target, changes, acts, pkBefore, fits, now) ==
    LET done == {c \in changes : c.kind \in acts}
        created == {c.type : c \in {d \in done : d.kind = "AddTable"}}
    IN IF \A c \in done : Carries(g, target, done, c, pkBefore, fits, now)
       THEN Done([g EXCEPT !.tables = [ty \in DOMAIN g.tables \cup created |->
                                         VisitedTable(g, target, done, pkBefore, ty, now)]])
       ELSE Thrown(g)

AllKinds == {"AddTable", "AddInitialProperties", "ChangeTableType", "AddProperty",
             "RemoveProperty", "ChangePropertyType", "MakePropertyNullable",
             "MakePropertyRequired", "ChangePrimaryKey", "AddIndex", "RemoveIndex"}

CreateInitialTables(g, target, changes, fits, now) ==
    Visit(g, target, changes, AllKinds, FALSE, fits, now)

\* The accepted changes are made before the errors of the others are thrown; the
\* caller cancels the transaction.
ApplyNonMigrationChanges(g, target, changes, now) ==
    IF NoMigrationRequired(changes)
    THEN Visit(g, target, changes,
               {"AddTable", "AddInitialProperties", "AddIndex", "RemoveIndex"}, FALSE, TRUE, now)
    ELSE Thrown(g)

ApplyAdditiveChanges(g, target, changes, now) ==
    Visit(g, target, changes,
          {"AddTable", "AddInitialProperties", "AddProperty", "AddIndex", "RemoveIndex"},
          FALSE, TRUE, now)

\* Columns are removed after the migration; the primary key is unset until then.
ApplyPreMigrationChanges(g, target, changes, fits, now) ==
    Visit(g, target, changes, AllKinds \ {"RemoveProperty"}, TRUE, fits, now)

\* A property the migration left under a name neither schema has was renamed in vain.
ApplyPostMigrationChanges(g, target, changes, old, reread, fits, now) ==
    IF /\ reread /\ old # EmptySchema
       /\ \E c \in changes : /\ c.kind = "RemoveProperty"
                             /\ c.type \in DOMAIN old
                             /\ ~HasProperty(old[c.type], c.prop)
    THEN Thrown(g)
    ELSE Visit(g, target, changes,
               {"RemoveProperty", "ChangePrimaryKey", "AddTable", "AddIndex", "RemoveIndex"}
               \cup (IF reread THEN {"AddInitialProperties"} ELSE {}), FALSE, fits, now)

-----------------------------------------------------------------------------
(* What a migration function does to the file.                             *)

\* rename_property: onto a new name, or in place of the column of that name.
RenameProperty(g, target, ty, old, new, now) ==
    IF \/ ty \notin DOMAIN g.tables \/ ty \notin DOMAIN target
       \/ HasProperty(target[ty], old)
       \/ old \notin DOMAIN g.tables[ty].cols
    THEN Thrown(g)
    ELSE LET table == g.tables[ty]
             from == table.cols[old]
             exists == new \in DOMAIN table.cols
             to == table.cols[new]
             refuses == /\ exists
                        /\ \/ from.type # to.type \/ from.objectType # to.objectType
                           \/ from.nullable /\ ~to.nullable
             moved == IF exists /\ to.nullable /\ ~from.nullable
                      THEN [from EXCEPT !.nullable = TRUE, !.key = <<new, now>>] ELSE from
             pk == IF table.pk = old THEN new
                   ELSE IF table.pk = new /\ exists THEN NoName ELSE table.pk
         IN IF refuses THEN Thrown(g)
            ELSE Done([g EXCEPT !.tables[ty] =
                         [table EXCEPT !.pk = pk,
                            !.cols = [n \in (DOMAIN @ \ {old}) \cup {new} |->
                                        IF n = new THEN moved ELSE @[n]]]])

\* delete_data_for_object.
DeleteData(g, ty) ==
    [g EXCEPT !.tables = [t \in DOMAIN @ \ {ty} |-> @[t]]]

\* A migration is [kind, ...]: it does nothing, renames a property, deletes a type,
\* makes the tables of the target itself, or throws.
Migrate(g, target, mig, now) ==
    CASE mig.kind = "rename" -> RenameProperty(g, target, mig.type, mig.old, mig.new, now)
      [] mig.kind = "delete" -> Done(DeleteData(g, mig.type))
      [] mig.kind = "builds" ->
            Visit(g, target, Compare(SchemaFromGroup(g), target, FALSE), AllKinds, FALSE, TRUE, now)
      [] mig.kind = "throws" -> Thrown(g)
      [] OTHER -> Done(g)

\* apply_schema_changes.
ApplySchemaChanges(g, version, target, targetVersion, mode, changes, mig, fits, now) ==
    LET Versioned(res) == IF res.ok THEN Done([res.group EXCEPT !.version = targetVersion]) ELSE res
        migrated(h) == Migrate(h, target, mig, now)
    IN CASE mode = "Additive" ->
              LET res == ApplyAdditiveChanges(g, target, changes, now)
              IN IF version < targetVersion \/ version = NotVersioned THEN Versioned(res) ELSE res
         [] mode # "Additive" /\ version = NotVersioned ->
              Versioned(CreateInitialTables(g, target, changes, fits, now))
         [] mode = "Manual" /\ version # NotVersioned ->
              LET res == migrated(g)
                  left == Compare(SchemaFromGroup(res.group), target, FALSE)
              IN IF res.ok /\ NoChangesRequired(left) /\ fits THEN Versioned(res)
                 ELSE Thrown(g)
         [] mode \notin {"Additive", "Manual"} /\ version # NotVersioned /\ version = targetVersion ->
              ApplyNonMigrationChanges(g, target, changes, now)
         [] OTHER ->
              LET pre == ApplyPreMigrationChanges(g, target, changes, fits, now)
                  res == migrated(pre.group)
                  reread == Compare(SchemaFromGroup(res.group), target, FALSE)
              IN IF ~pre.ok THEN pre
                 ELSE IF mig.kind = "absent"
                 THEN Versioned(ApplyPostMigrationChanges(pre.group, target, changes,
                                                          EmptySchema, FALSE, fits, now))
                 ELSE IF ~res.ok THEN res
                 ELSE Versioned(ApplyPostMigrationChanges(res.group, target, reread,
                                                          SchemaFromGroup(g), TRUE, fits, now))
=============================================================================
