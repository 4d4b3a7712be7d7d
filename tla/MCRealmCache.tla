---------------------------- MODULE MCRealmCache ----------------------------
(* An instance of RealmCache: configs that agree, and ones that do not, in   *)
(* settings and schema, for cached Realms, and a Realm that is not cached.   *)
EXTENDS RealmCache, TLC

CONSTANTS t1, t2

Config(settings, schema, cache) == [settings |-> settings, schema |-> schema, cache |-> cache]
MCConfigs == {Config("a", NoSchemaGiven, TRUE), Config("a", "s", TRUE), Config("b", NoSchemaGiven, FALSE)}
MCPrograms == {{"open", "frozen"}, {"open", "async"}}
MCThreads == Permutations(Threads)
=============================================================================
