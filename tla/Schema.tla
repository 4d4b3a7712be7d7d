------------------------------- MODULE Schema -------------------------------
(***************************************************************************)
(* Schema, ObjectSchema and Property: validating a schema, comparing two   *)
(* schemas, and the rules that say which differences a mode accepts        *)
(* (schema.cpp, object_schema.cpp, property.hpp and the verifiers of       *)
(* object_store.cpp).                                                      *)
(*                                                                         *)
(* A schema is a function from type names to object schemas                *)
(*   [embedded, pk, props, computed]                                       *)
(* where props and computed map property names to properties               *)
(*   [type, objectType, array, nullable, indexed, primary, origin, key].   *)
(* As functions they hold a name once; public names (aliases) are left     *)
(* out.                                                                    *)
(***************************************************************************)
EXTENDS Naturals, FiniteSets

NoName == ""
NoColumn == <<NoName, 0>>
\* uint64_t(-1): larger than every version.
NotVersioned == 99
EmptySchema == [t \in {} |-> NoName]

Property(type, objectType, array, nullable) ==
    [type |-> type, objectType |-> objectType, array |-> array, nullable |-> nullable,
     indexed |-> FALSE, primary |-> FALSE, origin |-> NoName, key |-> NoColumn]

RequiresIndex(p) == p.indexed /\ ~p.primary

TypeIsIndexable(p) == p.type \in {"int", "bool", "date", "string", "objectId"}

TypeIsNullable(p) == ~(p.array /\ p.type = "object") /\ p.type # "linkingObjects"

-----------------------------------------------------------------------------
(* Validation.                                                             *)

PropertyNamed(o, n) == IF n \in DOMAIN o.props THEN o.props[n] ELSE o.computed[n]

HasProperty(o, n) == n \in DOMAIN o.props \cup DOMAIN o.computed

\* validate_property: what each property has to satisfy by itself.
ValidProperty(schema, ty, p) ==
    /\ p.type = "linkingObjects" => p.array
    /\ p.nullable => TypeIsNullable(p)
    /\ p.type = "object" /\ ~p.array => p.nullable
    /\ p.primary => p.type \in {"int", "string", "objectId"}
    /\ p.indexed => TypeIsIndexable(p)
    /\ (p.type = "linkingObjects") <=> (p.origin # NoName)
    /\ IF p.type \notin {"object", "linkingObjects"} THEN p.objectType = NoName
       ELSE /\ p.objectType \in DOMAIN schema
            /\ p.type = "linkingObjects" =>
                 LET from == schema[p.objectType]
                 IN /\ HasProperty(from, p.origin)
                    /\ PropertyNamed(from, p.origin).type = "object"
                    /\ PropertyNamed(from, p.origin).objectType = ty

ValidObject(schema, ty, forSync) ==
    LET o == schema[ty]
        primaries == {n \in DOMAIN o.props : o.props[n].primary}
    IN /\ \A n \in DOMAIN o.props : ValidProperty(schema, ty, o.props[n])
       /\ \A n \in DOMAIN o.computed : ValidProperty(schema, ty, o.computed[n])
       /\ DOMAIN o.props \cap DOMAIN o.computed = {}
       /\ Cardinality(primaries) <= 1
       /\ o.pk # NoName => ~o.embedded /\ (primaries # {} \/ o.pk \in DOMAIN o.props)
       /\ forSync /\ ~o.embedded => o.pk = "_id"

\* The embedded types the links of o lead to; a link to a top level object ends the path.
EmbeddedTargets(schema, o) ==
    {ty \in DOMAIN schema : /\ schema[ty].embedded
                            /\ \E n \in DOMAIN o.props : /\ o.props[n].type = "object"
                                                         /\ o.props[n].objectType = ty}

\* do_check: the paths <<type, types met before it>> in order of their length, until
\* one of them meets a type again.
HasLoopFrom(schema, start) ==
    LET paths[n \in 0 .. Cardinality(DOMAIN schema) + 1] ==
            IF n = 0 THEN {<<start, {start}>>}
            ELSE UNION {{<<ty, path[2] \cup {path[1]}>> :
                           ty \in EmbeddedTargets(schema, schema[path[1]]) \ path[2]} :
                        path \in paths[n - 1]}
    IN \E n \in DOMAIN paths : \E path \in paths[n] :
          EmbeddedTargets(schema, schema[path[1]]) \cap path[2] # {}

\* Schema::validate: the loops are only looked for in an otherwise valid schema.
Valid(schema, forSync) ==
    /\ \A ty \in DOMAIN schema : ValidObject(schema, ty, forSync)
    /\ \A ty \in DOMAIN schema : schema[ty].embedded => ~HasLoopFrom(schema, ty)

-----------------------------------------------------------------------------
(* Comparing.  A change is [kind, type, prop, key]: the property it is     *)
(* about and the column key the existing schema has for it.                *)

Change(kind, ty, n, key) == [kind |-> kind, type |-> ty, prop |-> n, key |-> key]

\* compare(ObjectSchema): the type is compared without its flags.
CompareObject(ty, existing, target) ==
    LET Kept(n) == n \in DOMAIN target.props
        Retyped(n) == LET p == existing.props[n] q == target.props[n]
                      IN p.type # q.type \/ p.objectType # q.objectType \/ p.array # q.array
        Same == {n \in DOMAIN existing.props : Kept(n) /\ ~Retyped(n)}
        Of(kind, names) == {Change(kind, ty, n, existing.props[n].key) : n \in names}
        Was(n) == existing.props[n]
        Is(n) == target.props[n]
    IN Of("RemoveProperty", {n \in DOMAIN existing.props : ~Kept(n)})
       \cup Of("ChangePropertyType", {n \in DOMAIN existing.props : Kept(n) /\ Retyped(n)})
       \cup Of("MakePropertyRequired", {n \in Same : Was(n).nullable /\ ~Is(n).nullable})
       \cup Of("MakePropertyNullable", {n \in Same : ~Was(n).nullable /\ Is(n).nullable})
       \cup Of("AddIndex", {n \in Same : RequiresIndex(Is(n)) /\ ~Was(n).indexed})
       \cup Of("RemoveIndex", {n \in Same : ~RequiresIndex(Is(n)) /\ RequiresIndex(Was(n))})
       \cup {Change("AddProperty", ty, n, NoColumn) :
               n \in {m \in DOMAIN target.props : ~HasProperty(existing, m)}}
       \cup {Change("ChangePrimaryKey", ty, n, NoColumn) :
               n \in {target.pk} \ {existing.pk}}

\* Schema::compare.
Compare(existing, target, includeTableRemovals) ==
    LET new == DOMAIN target \ DOMAIN existing
        both == DOMAIN target \cap DOMAIN existing
        Of(kind, types) == {Change(kind, ty, NoName, NoColumn) : ty \in types}
    IN Of("AddTable", new) \cup Of("AddInitialProperties", new)
       \cup Of("RemoveTable", IF includeTableRemovals
                              THEN DOMAIN existing \ DOMAIN target ELSE {})
       \cup Of("ChangeTableType", {ty \in both : existing[ty].embedded # target[ty].embedded})
       \cup UNION {CompareObject(ty, existing[ty], target[ty]) : ty \in both}

\* Schema::copy_keys_from: only the types and properties both have get the other's keys.
CopyKeysFrom(schema, other) ==
    [ty \in DOMAIN schema |->
       IF ty \notin DOMAIN other THEN schema[ty]
       ELSE [schema[ty] EXCEPT !.props =
               [n \in DOMAIN @ |-> IF n \in DOMAIN other[ty].props
                                   THEN [@[n] EXCEPT !.key = other[ty].props[n].key]
                                   ELSE @[n]]]]

-----------------------------------------------------------------------------
(* What each mode accepts.  SchemaDifferenceExplainer has an error for     *)
(* every change but RemoveTable and AddInitialProperties; a verifier names *)
(* the changes it lets pass.                                               *)

Kinds(changes) == {c.kind : c \in changes}

Silent == {"RemoveTable", "AddInitialProperties"}

OnlyAccepts(changes, kinds) == Kinds(changes) \subseteq Silent \cup kinds

NeedsMigration(changes) ==
    Kinds(changes) \cap {"AddProperty", "ChangeTableType", "ChangePrimaryKey",
                         "ChangePropertyType", "MakePropertyNullable",
                         "MakePropertyRequired", "RemoveProperty"} # {}

NoChangesRequired(changes) == OnlyAccepts(changes, {})

NoMigrationRequired(changes) == OnlyAccepts(changes, {"AddTable", "AddIndex", "RemoveIndex"})

ValidAdditiveChanges(changes) ==
    OnlyAccepts(changes, {"AddTable", "AddProperty", "RemoveProperty", "AddIndex", "RemoveIndex"})

\* What verify_valid_additive_changes returns.
AdditiveWrites(changes, updateIndexes) ==
    \/ Kinds(changes) \cap {"AddTable", "AddInitialProperties", "AddProperty"} # {}
    \/ updateIndexes /\ Kinds(changes) \cap {"AddIndex", "RemoveIndex"} # {}

\* Deleting tables is not okay here.
ValidExternalChanges(changes) ==
    /\ OnlyAccepts(changes, {"AddTable", "AddProperty", "AddIndex", "RemoveIndex"})
    /\ "RemoveTable" \notin Kinds(changes)

CompatibleForReadOnly(changes) ==
    OnlyAccepts(changes, {"AddTable", "ChangeTableType", "RemoveProperty",
                          "AddIndex", "RemoveIndex"})
=============================================================================
