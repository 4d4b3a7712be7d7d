------------------------------- MODULE MCSchema -------------------------------
(***************************************************************************)
(* Schemas and migrations for SchemaUpdates.                               *)
(***************************************************************************)
EXTENDS SchemaUpdates, TLC

IntColumn == Property("int", "", FALSE, FALSE)
ObjectType(embedded, pk, props) ==
    [embedded |-> embedded, pk |-> pk, props |-> props, computed |-> EmptySchema]

\* One type with a property.
PlainSchema == "A" :> ObjectType(FALSE, "", "x" :> IntColumn)

\* The property may be null, and there is a second one with an index.
NullableSchema ==
    "A" :> ObjectType(FALSE, "",
               "x" :> Property("int", "", FALSE, TRUE)
               @@ "y" :> [Property("string", "", FALSE, FALSE) EXCEPT !.indexed = TRUE])

\* The property is renamed and the primary key; a link to an embedded type.
EmbeddedSchema ==
    "A" :> ObjectType(FALSE, "z",
               "z" :> [IntColumn EXCEPT !.primary = TRUE]
               @@ "b" :> Property("object", "B", FALSE, TRUE))
    @@ "B" :> ObjectType(TRUE, "", "x" :> IntColumn)

MCTargets == {NullableSchema, EmbeddedSchema}
MCForeign == {PlainSchema}

NoMigration == {[kind |-> "absent"]}
Rename == [kind |-> "rename", type |-> "A", old |-> "x", new |-> "z"]
MCMigrations ==
    [Automatic |-> NoMigration \cup {Rename},
     Manual |-> {[kind |-> "builds"], [kind |-> "throws"]},
     Additive |-> NoMigration, ReadOnly |-> NoMigration, ResetFile |-> NoMigration]
\* The Realms are alike.
MCRealms == Permutations(SchemaRealms)
===============================================================================
