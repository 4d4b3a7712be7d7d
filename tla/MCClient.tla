------------------------------- MODULE MCClient -------------------------------
(***************************************************************************)
(* One instance for the parts around a session and a Realm: the users of   *)
(* an app, the pending actions on the file of a Realm, the schema of a     *)
(* Realm, the connection and progress callbacks of a session, and the      *)
(* cache of the Realms of a file. They share no state: a behaviour takes   *)
(* steps of one part only and the others rest in an initial state.         *)
(***************************************************************************)
EXTENDS MCUsers, FileActions, MCSchema, ConnectionNotifier, ProgressNotifier, MCRealmCache

VARIABLE part     \* the part this behaviour is about

\* ProgressNotifier: an upload that is measured once and a download that is followed.
MCWatches == {[id |-> 1, download |-> FALSE, streaming |-> FALSE],
              [id |-> 2, download |-> TRUE, streaming |-> TRUE]}

\* The Realms of the schema are alike, and so are the threads of the cache. No behaviour
\* has steps of both.
MCAlike == MCRealms \cup MCThreads

ClientInit ==
    /\ part \in {"users", "files", "schema", "connection", "progress", "cache"}
    /\ Init
    /\ FileInit
    /\ part # "files" => \A l \in Locations : files[l] = 0
    /\ SchemaUpdatesInit
    /\ part # "schema" => mode = "Additive"
    /\ ConnectionNotifierInit
    /\ ProgressNotifierInit
    /\ RealmCacheInit
    /\ part # "cache" => program = {"open", "frozen"} /\ fileSchema = NoSchemaGiven

ClientNext ==
    \/ part = "users" /\ Next /\ UNCHANGED <<part, fileVars, suVars, cnVars, pnVars, rcVars>>
    \/ part = "files" /\ FileNext /\ UNCHANGED <<part, appVars, suVars, cnVars, pnVars, rcVars>>
    \/ /\ part = "schema"
       /\ SchemaUpdatesNext
       /\ UNCHANGED <<part, appVars, fileVars, cnVars, pnVars, rcVars>>
    \/ /\ part = "connection"
       /\ ConnectionNotifierNext
       /\ UNCHANGED <<part, appVars, fileVars, suVars, pnVars, rcVars>>
    \/ /\ part = "progress"
       /\ ProgressNotifierNext
       /\ UNCHANGED <<part, appVars, fileVars, suVars, cnVars, rcVars>>
    \/ /\ part = "cache"
       /\ RealmCacheNext
       /\ UNCHANGED <<part, appVars, fileVars, suVars, cnVars, pnVars>>

ClientSpec ==
    ClientInit /\ [][ClientNext]_<<part, appVars, fileVars, suVars, cnVars, pnVars, rcVars>>
===============================================================================
