----------------------------- MODULE RealmCache -----------------------------
(***************************************************************************)
(* The weak cache of the Realms of one file: the coordinators made for its *)
(* path, the Realms each of them has registered, and the threads that open *)
(* Realms, live and frozen, hand one over unbound, close and drop them, or *)
(* wait for an AsyncOpenTask.                                              *)
(*                                                                         *)
(* A thread's scheduler is the thread itself; all frozen Realms are of one *)
(* version and share Frozen. A step is one critical section, except that   *)
(* a lookup in the cache holds m_realm_mutex and a strong reference of its *)
(* own while the other threads run. What set_config compares is one value, *)
(* the settings; the schema version given is always the same.              *)
(***************************************************************************)
EXTENDS Integers, Sequences, SequencesExt

CONSTANTS
    Threads,          \* the threads of the application
    Client,           \* the thread of the sync client
    Configs,          \* [settings, schema, cache] used to open the file
    Programs,         \* sets of the operations the application uses together
    NoSchemaGiven,    \* no schema given; a schema_version() of NotVersioned
    MaxRealms, MaxCoordinators,
    MaxOpens,         \* calls that open a Realm
    MaxWaits          \* calls of AsyncOpenTask::start()

ASSUME ClientIsNoThread == Client \notin Threads

Frozen == "frozen"       \* the FrozenScheduler of the version
Unbound == "unbound"     \* m_scheduler is null
Reference == "reference" \* a ThreadSafeReference holds the Realm

VARIABLES
    program,      \* the operations used
    began,        \* calls that opened a Realm so far
    fileSchema,   \* the schema the file has, or NoSchemaGiven
    registry,     \* s_coordinators_per_path of the path: a coordinator or 0
    coords,       \* coordinators [config, db, entries, locked, gone]
    instances,    \* Realms [coord, settings, schema, cache, frozen, group, refs]
    inCall,       \* what a thread does [at, op, c, cfg, r, found]
    task,         \* the AsyncOpenTask [made, session, coordinator, waits]
    \* history
    answered,     \* calls of the callback of the task
    cancelled,    \* has a cancel() of the task come first?
    violated      \* assertions of the code that failed

rcVars == <<program, began, fileSchema, registry, coords, instances, inCall, task,
            answered, cancelled, violated>>
taskVars == <<task, answered, cancelled>>

AllThreads == Threads \cup {Client}
NoCall == [at |-> "idle", op |-> "none", c |-> 0, r |-> 0, found |-> 0,
           cfg |-> [settings |-> "none", schema |-> NoSchemaGiven, cache |-> FALSE]]
NoTask == [made |-> FALSE, session |-> FALSE, coordinator |-> 0, waits |-> 0]
NewCoordinator ==
    [config |-> NoCall.cfg, db |-> "closed", entries |-> <<>>, locked |-> FALSE, gone |-> FALSE]

NoRealm == [coord |-> 0, settings |-> "none", schema |-> NoSchemaGiven, cache |-> FALSE,
            frozen |-> FALSE, group |-> FALSE, refs |-> {}]

RealmCacheInit ==
    /\ program \in Programs
    /\ began = 0
    /\ fileSchema \in {NoSchemaGiven, "file"}
    /\ registry = 0
    /\ coords = <<>>
    /\ instances = <<>>
    /\ inCall = [t \in AllThreads |-> NoCall]
    /\ task = NoTask
    /\ answered = 0
    /\ cancelled = FALSE
    /\ violated = {}

Lookups(r) == {t \in AllThreads : inCall[t].found = r}
\* Has the last strong reference to the Realm gone? Its destructor may still have to run.
Expired(r) == instances[r].refs = {} /\ Lookups(r) = {}
\* Who holds a coordinator: open Realms, calls under way and the task.
Held(c) ==
    \/ \E r \in DOMAIN instances : instances[r].coord = c
    \/ \E t \in AllThreads : inCall[t].c = c
    \/ task.coordinator = c
Goes(t, call) == inCall' = [inCall EXCEPT ![t] = call]
ThreadIdle(t) == inCall[t].at = "idle"

-----------------------------------------------------------------------------
(* Coordinators.                                                           *)

\* get_coordinator(path) of a thread that goes on with `call`.
GetCoordinator(t, call) ==
    IF registry # 0 /\ Held(registry)
    THEN Goes(t, [call EXCEPT !.c = registry]) /\ UNCHANGED <<registry, coords>>
    ELSE /\ Len(coords) < MaxCoordinators
         /\ coords' = Append(coords, NewCoordinator)
         /\ registry' = Len(coords) + 1
         /\ Goes(t, [call EXCEPT !.c = Len(coords) + 1])

\* ~RealmCoordinator erases what has expired.
EraseExpired == IF registry # 0 /\ ~Held(registry) THEN 0 ELSE registry

\* ~RealmCoordinator, on the thread that let it go.
DestroyCoordinator(c) ==
    /\ ~Held(c) /\ ~coords[c].gone
    /\ coords' = [coords EXCEPT ![c].gone = TRUE, ![c].db = "closed"]
    /\ registry' = EraseExpired
    /\ UNCHANGED <<fileSchema, instances, inCall, violated, taskVars>>

\* Variant for the mutation check: one Realm that is going is enough to start anew.
NoExistingRealmButOne(c) ==
    LET es == coords[c].entries IN es = <<>> \/ \E i \in DOMAIN es : Expired(es[i].realm)
NoExistingRealm(c) == \A i \in DOMAIN coords[c].entries : Expired(coords[c].entries[i].realm)

\* set_config() throws if the settings do not agree with those of the open Realms.
ConfigAgrees(c, cfg) == NoExistingRealm(c) \/ coords[c].config.settings = cfg.settings
SetConfig(c, cfg) ==
    IF NoExistingRealm(c) THEN [coords[c] EXCEPT !.config = cfg]
    ELSE [coords[c] EXCEPT !.config.cache = cfg.cache]

\* open_db() does nothing if the file is open.
OpenDb(co) == [co EXCEPT !.db = IF @ = "closed" THEN co.config.settings ELSE @]

-----------------------------------------------------------------------------
(* Realms.                                                                 *)

\* WeakRealmNotifier: made for a Realm that has a scheduler or not, bound later if not.
NewEntry(r, scheduler, cache) == [realm |-> r, scheduler |-> scheduler, cache |-> cache]
BindToScheduler(e, scheduler) == [e EXCEPT !.scheduler = scheduler]
IsCachedForScheduler(e, scheduler) == e.cache /\ e.scheduler = scheduler

\* The Realm do_get_cached_realm() takes a strong reference to, or 0.
DoGetCachedRealm(c, cfg, scheduler) ==
    LET es == coords[c].entries
        fit == {i \in DOMAIN es : IsCachedForScheduler(es[i], scheduler) /\ ~Expired(es[i].realm)}
    IN  IF ~cfg.cache \/ fit = {} THEN 0
        ELSE es[CHOOSE i \in fit : \A j \in fit : i <= j].realm

NewRealm(c, cfg, frozen, owner) ==
    [coord |-> c, settings |-> cfg.settings, schema |-> fileSchema, cache |-> cfg.cache,
     frozen |-> frozen, group |-> FALSE, refs |-> {owner}]

\* do_get_realm() with coordinator `co`, up to the release of its lock. The file may not
\* open: then it throws.
DoGetRealm(t, co, cfg, scheduler) ==
    LET c == inCall[t].c
        r == Len(instances) + 1
    IN  \/ /\ r <= MaxRealms
           /\ coords' = [coords EXCEPT ![c] = [OpenDb(co) EXCEPT
                             !.entries = Append(@, NewEntry(r, scheduler, cfg.cache))]]
           /\ instances' = Append(instances, NewRealm(c, cfg, scheduler = Frozen, t))
           /\ Goes(t, [inCall[t] EXCEPT !.at = "updating", !.cfg = cfg, !.r = r, !.found = 0])
        \/ /\ co.db = "closed"
           /\ coords' = [coords EXCEPT ![c] = co]
           /\ Goes(t, [inCall[t] EXCEPT !.at = "failed", !.found = 0])
           /\ UNCHANGED instances

\* The owner's reference to Realm r goes and the call ends, if it was the last one with
\* the destructor.
Drops(t, r, owner) ==
    /\ instances' = [instances EXCEPT ![r].refs = @ \ {owner}]
    /\ Goes(t, IF instances[r].refs = {owner} /\ Lookups(r) \subseteq {t}
               THEN [NoCall EXCEPT !.at = "destructor", !.r = r] ELSE NoCall)

-----------------------------------------------------------------------------
(* Opening.                                                                *)

\* get_shared_realm(), get_frozen_realm() and get_synchronized_realm() of a config, and
\* get_shared_realm() of a reference to the unbound Realm r.
Begin(t, op, cfg) ==
    /\ ThreadIdle(t)
    /\ op = "async" => ~task.made
    /\ began < MaxOpens
    /\ began' = began + 1
    /\ GetCoordinator(t, [NoCall EXCEPT !.at = "coordinator", !.op = op, !.cfg = cfg])
    /\ UNCHANGED <<fileSchema, instances, violated, taskVars>>

Resolve(t, r) ==
    /\ ThreadIdle(t)
    /\ Reference \in instances[r].refs
    /\ instances' = [instances EXCEPT ![r].refs = (@ \ {Reference}) \cup {t}]
    /\ GetCoordinator(t, [NoCall EXCEPT !.at = "coordinator", !.op = "resolve", !.r = r,
                              !.cfg = [settings |-> instances[r].settings, schema |-> NoSchemaGiven,
                                       cache |-> instances[r].cache]])
    /\ UNCHANGED <<fileSchema, violated, taskVars>>

SchedulerOf(t) == IF inCall[t].op = "frozen" THEN Frozen ELSE t
\* The call is at `at` and its coordinator's m_realm_mutex is free.
CanLock(t, at, ops) == inCall[t].at = at /\ inCall[t].op \in ops /\ ~coords[inCall[t].c].locked

Mismatched(t) ==
    /\ CanLock(t, "coordinator", {"open", "frozen", "async"})
    /\ ~ConfigAgrees(inCall[t].c, inCall[t].cfg)
    /\ Goes(t, NoCall)
    /\ UNCHANGED <<fileSchema, registry, coords, instances, violated, taskVars>>

\* get_synchronized_realm(): the task has the coordinator and its session.
MakeTask(t) ==
    LET k == inCall[t] IN
    /\ CanLock(t, "coordinator", {"async"})
    /\ ConfigAgrees(k.c, k.cfg)
    /\ ~task.made
    /\ coords' = [coords EXCEPT ![k.c] = SetConfig(k.c, k.cfg)]
    /\ task' = [made |-> TRUE, session |-> TRUE, coordinator |-> k.c, waits |-> 0]
    /\ Goes(t, NoCall)
    /\ UNCHANGED <<fileSchema, registry, instances, violated, answered, cancelled>>

\* get_realm() and get_cached_realm() find no Realm in the cache ...
NotCached(t) ==
    LET k == inCall[t] IN
    /\ \/ /\ CanLock(t, "coordinator", {"open", "frozen"})
          /\ ConfigAgrees(k.c, k.cfg)
          /\ DoGetCachedRealm(k.c, k.cfg, SchedulerOf(t)) = 0
          /\ DoGetRealm(t, SetConfig(k.c, k.cfg), k.cfg, SchedulerOf(t))
       \/ /\ CanLock(t, "coordinator", {"resolve"})
          /\ DoGetCachedRealm(k.c, k.cfg, t) = 0
          /\ Goes(t, [k EXCEPT !.at = "binding"])
          /\ UNCHANGED <<coords, instances>>
    /\ UNCHANGED <<fileSchema, registry, violated, taskVars>>

\* ... or take a strong reference to it, still holding the lock.
FindCached(t) ==
    LET k == inCall[t] IN
    /\ CanLock(t, "coordinator", {"open", "frozen", "resolve"})
    /\ k.op # "resolve" => ConfigAgrees(k.c, k.cfg)
    /\ DoGetCachedRealm(k.c, k.cfg, SchedulerOf(t)) # 0
    /\ coords' = [coords EXCEPT ![k.c] = [(IF k.op = "resolve" THEN @ ELSE SetConfig(k.c, k.cfg))
                                             EXCEPT !.locked = TRUE]]
    /\ Goes(t, [k EXCEPT !.at = "found", !.found = DoGetCachedRealm(k.c, k.cfg, SchedulerOf(t))])
    /\ UNCHANGED <<fileSchema, registry, instances, violated, taskVars>>

Versioned(r) == instances[r].schema # NoSchemaGiven
SchemaAgrees(k) == k.cfg.schema \in {NoSchemaGiven, instances[k.found].schema}
Unlocked(c) == [coords EXCEPT ![c].locked = FALSE]

\* The cached Realm is returned; of a frozen one get_realm() asserts the version it reads.
\* The unbound Realm of a reference goes.
ReturnCached(t) ==
    LET k == inCall[t] IN
    /\ k.at = "found"
    /\ Versioned(k.found) /\ SchemaAgrees(k)
    /\ coords' = Unlocked(k.c)
    /\ instances' = [r \in DOMAIN instances |->
                     [instances[r] EXCEPT !.refs = IF r = k.found THEN @ \cup {t}
                                                ELSE IF r = k.r THEN @ \ {t} ELSE @]]
    /\ Goes(t, IF k.op = "resolve" THEN [NoCall EXCEPT !.at = "destructor", !.r = k.r] ELSE NoCall)
    /\ violated' = IF k.op = "frozen" /\ ~instances[k.found].group THEN violated \cup {"version"} ELSE violated
    /\ UNCHANGED <<fileSchema, registry, taskVars>>

\* Otherwise the lookup drops its reference with m_realm_mutex held. If it has become the
\* last one the destructor wants to lock the mutex again.
LastUnderLock(t) == instances[inCall[t].found].refs = {} /\ Lookups(inCall[t].found) = {t}

Stuck(t) ==
    LET k == inCall[t] IN
    /\ k.at = "found"
    /\ ~(Versioned(k.found) /\ SchemaAgrees(k))
    /\ LastUnderLock(t)
    /\ Goes(t, [k EXCEPT !.at = "stuck", !.found = 0])
    /\ UNCHANGED <<fileSchema, registry, coords, instances, violated, taskVars>>

SchemaMismatch(t) ==
    LET k == inCall[t] IN
    /\ k.at = "found"
    /\ Versioned(k.found) /\ ~SchemaAgrees(k)
    /\ ~LastUnderLock(t)
    /\ coords' = Unlocked(k.c)
    /\ Goes(t, NoCall)
    /\ UNCHANGED <<fileSchema, registry, instances, violated, taskVars>>

\* A Realm that is not versioned is passed over.
PassOver(t) ==
    LET k == inCall[t] IN
    /\ k.at = "found"
    /\ ~Versioned(k.found)
    /\ ~LastUnderLock(t)
    /\ IF k.op = "resolve"
       THEN coords' = Unlocked(k.c) /\ Goes(t, [k EXCEPT !.at = "binding", !.found = 0]) /\ UNCHANGED instances
       ELSE DoGetRealm(t, Unlocked(k.c)[k.c], k.cfg, SchedulerOf(t))
    /\ UNCHANGED <<fileSchema, registry, violated, taskVars>>

-----------------------------------------------------------------------------
(* The call goes on without the lock.                                      *)

\* unregister_realm()
UnregisterRealm(r, entries) == SelectSeq(entries, LAMBDA e : ~Expired(e.realm) /\ e.realm # r)

\* What becomes of a Realm's and the file's schema in update_schema(); a frozen Realm
\* cannot give the file one.
UpdateSchema(t) ==
    LET k == inCall[t] IN
    /\ k.at = "updating"
    /\ IF k.cfg.schema = NoSchemaGiven THEN UNCHANGED <<fileSchema, instances>>
       ELSE /\ instances[k.r].frozen => Versioned(k.r)
            /\ instances' = [instances EXCEPT ![k.r].schema = k.cfg.schema]
            /\ fileSchema' = IF fileSchema = NoSchemaGiven THEN k.cfg.schema ELSE fileSchema
    /\ Goes(t, IF t = Client THEN [k EXCEPT !.at = "answer"] ELSE NoCall)
    /\ UNCHANGED <<registry, coords, violated, taskVars>>

\* update_schema() throws, and the only reference of the call goes.
UpdateSchemaThrows(t) ==
    LET k == inCall[t] IN
    /\ k.at = "updating"
    /\ k.cfg.schema # NoSchemaGiven
    /\ IF t # Client THEN Drops(t, k.r, t)
       ELSE /\ instances' = [instances EXCEPT ![k.r].refs = {}]
            /\ Goes(t, [k EXCEPT !.at = "destructor"])
    /\ UNCHANGED <<fileSchema, registry, coords, violated, taskVars>>

OpeningFailed(t) ==
    /\ inCall[t].at = "failed" /\ t # Client
    /\ Goes(t, NoCall)
    /\ UNCHANGED <<fileSchema, registry, coords, instances, violated, taskVars>>

\* Variant for the mutation check: only cached Realms are looked at.
EntriesOfCached(es, r) == {i \in DOMAIN es : es[i].cache /\ es[i].realm = r}
\* WeakRealmNotifier::is_for_realm()
EntriesOf(es, r) == {i \in DOMAIN es : es[i].realm = r}

\* bind_to_context() looks for the Realm in the coordinator of its path, or terminates.
BindToContext(t) ==
    LET k == inCall[t]
        es == coords[k.c].entries
        mine == EntriesOf(es, k.r)
    IN  /\ CanLock(t, "binding", {"resolve"})
        /\ coords' = [coords EXCEPT ![k.c].entries =
                         [i \in DOMAIN es |-> IF i \in mine THEN BindToScheduler(es[i], t) ELSE es[i]]]
        /\ violated' = IF mine = {} THEN violated \cup {"bind"} ELSE violated
        /\ Goes(t, NoCall)
        /\ UNCHANGED <<fileSchema, registry, instances, taskVars>>

-----------------------------------------------------------------------------
(* Using, closing and dropping a Realm.                                    *)

\* read_group(): a Realm that was given no schema sees the one the file has. Whether it
\* has an m_group is only asked of a frozen one.
ReadGroup(t, r) ==
    /\ ThreadIdle(t) /\ t \in instances[r].refs
    /\ instances[r].coord # 0
    /\ instances' = [instances EXCEPT ![r].group = instances[r].frozen,
                                ![r].schema = IF @ = NoSchemaGiven /\ ~instances[r].frozen THEN fileSchema ELSE @]
    /\ UNCHANGED <<fileSchema, registry, coords, inCall, violated, taskVars>>

CloseRealm(t, r) ==
    LET c == instances[r].coord IN
    /\ ThreadIdle(t) /\ t \in instances[r].refs
    /\ c # 0
    /\ ~coords[c].locked
    /\ coords' = [coords EXCEPT ![c].entries = UnregisterRealm(r, @)]
    /\ instances' = [instances EXCEPT ![r].coord = 0, ![r].group = FALSE]
    /\ UNCHANGED <<fileSchema, registry, inCall, violated, taskVars>>

Drop(t, r) ==
    /\ ThreadIdle(t) /\ t \in instances[r].refs
    /\ Drops(t, r, t)
    /\ UNCHANGED <<fileSchema, registry, coords, violated, taskVars>>

\* A reference is dropped without being resolved.
DropReference(t, r) ==
    /\ ThreadIdle(t) /\ Reference \in instances[r].refs
    /\ Drops(t, r, Reference)
    /\ UNCHANGED <<fileSchema, registry, coords, violated, taskVars>>

\* ~Realm, unless it was closed.
Destructor(t) ==
    LET k == inCall[t] c == instances[k.r].coord IN
    /\ k.at = "destructor"
    /\ IF c = 0 THEN UNCHANGED coords
       ELSE /\ ~coords[c].locked
            /\ coords' = [coords EXCEPT ![c].entries = UnregisterRealm(k.r, @)]
    /\ instances' = [instances EXCEPT ![k.r] = NoRealm]
    /\ Goes(t, IF t = Client THEN [k EXCEPT !.at = "failed"] ELSE NoCall)
    /\ UNCHANGED <<fileSchema, registry, violated, taskVars>>

-----------------------------------------------------------------------------
(* AsyncOpenTask.                                                          *)

StartTask ==
    /\ task.session
    /\ task.waits < MaxWaits
    /\ task' = [task EXCEPT !.waits = @ + 1]
    /\ UNCHANGED <<fileSchema, registry, coords, instances, inCall, violated, answered, cancelled>>

\* cancel() takes the session, and then gives up the coordinator.
Cancel(t) ==
    /\ ThreadIdle(t) /\ task.session
    /\ task' = [task EXCEPT !.session = FALSE]
    /\ cancelled' = TRUE
    /\ Goes(t, [NoCall EXCEPT !.at = "cancelling"])
    /\ UNCHANGED <<fileSchema, registry, coords, instances, violated, answered>>

CancelReleases(t) ==
    /\ inCall[t].at = "cancelling"
    /\ task' = [task EXCEPT !.coordinator = 0]
    /\ Goes(t, NoCall)
    /\ UNCHANGED <<fileSchema, registry, coords, instances, violated, answered, cancelled>>

\* Variant for the mutation check: the session is looked at but not taken.
TakeSessionLooking == task.session
TakeSession == FALSE

\* The wait for the download ends on the client's thread.
DownloadCompleted(error) ==
    /\ ThreadIdle(Client) /\ task.waits > 0
    /\ IF ~task.session THEN task' = [task EXCEPT !.waits = @ - 1] /\ UNCHANGED <<inCall, violated>>
       ELSE /\ task' = [task EXCEPT !.session = TakeSession, !.coordinator = 0, !.waits = @ - 1]
            /\ violated' = IF task.coordinator = 0 THEN violated \cup {"coordinator"} ELSE violated
            /\ Goes(Client, [NoCall EXCEPT !.at = IF error \/ task.coordinator = 0 THEN "failed" ELSE "coordinator",
                                           !.op = "unbound", !.c = task.coordinator])
    /\ UNCHANGED <<fileSchema, registry, coords, instances, answered, cancelled>>

\* get_unbound_realm(): with the config the coordinator has.
GetUnboundRealm ==
    LET c == inCall[Client].c IN
    /\ CanLock(Client, "coordinator", {"unbound"})
    /\ DoGetRealm(Client, coords[c], coords[c].config, Unbound)
    /\ UNCHANGED <<fileSchema, registry, violated, taskVars>>

\* The callback gets a reference to the Realm or an error; then the coordinator is let go.
Answer ==
    LET k == inCall[Client] IN
    /\ k.at \in {"answer", "failed"}
    /\ answered' = answered + 1
    /\ instances' = IF k.at = "failed" THEN instances ELSE [instances EXCEPT ![k.r].refs = {Reference}]
    /\ Goes(Client, NoCall)
    /\ UNCHANGED <<fileSchema, registry, coords, violated, task, cancelled>>

-----------------------------------------------------------------------------
\* The steps of the application that open no Realm by a config.
Step(t) ==
    \/ \E r \in DOMAIN instances :
          Resolve(t, r) \/ ReadGroup(t, r) \/ CloseRealm(t, r) \/ Drop(t, r) \/ DropReference(t, r)
    \/ Mismatched(t) \/ MakeTask(t) \/ NotCached(t)
    \/ FindCached(t) \/ ReturnCached(t) \/ Stuck(t) \/ SchemaMismatch(t) \/ PassOver(t)
    \/ OpeningFailed(t) \/ BindToContext(t)
    \/ Cancel(t) \/ CancelReleases(t)

RealmCacheNext ==
    \/ \E t \in Threads, op \in program, cfg \in Configs : Begin(t, op, cfg) /\ UNCHANGED program
    \/ /\ \/ \E t \in Threads : Step(t)
          \/ \E c \in DOMAIN coords : DestroyCoordinator(c)
          \/ \E t \in AllThreads : UpdateSchema(t) \/ UpdateSchemaThrows(t) \/ Destructor(t)
          \/ StartTask \/ (\E error \in BOOLEAN : DownloadCompleted(error)) \/ GetUnboundRealm \/ Answer
       /\ UNCHANGED <<program, began>>

RealmCacheSpec == RealmCacheInit /\ [][RealmCacheNext]_rcVars

-----------------------------------------------------------------------------
(* Properties.                                                             *)

\* All Realms of a coordinator that are open have its settings, although Realms come and
\* go while others are in their destructor (realm_coordinator.cpp:154): set_config() may
\* not take a new config for the first one as long as a Realm lives.
SettingsAgree ==
    \A r \in DOMAIN instances : instances[r].coord # 0 /\ ~Expired(r) =>
        instances[r].settings = coords[instances[r].coord].config.settings

\* An unbound Realm can be bound where its reference is resolved: the coordinator of its
\* path still has it (realm_coordinator.cpp:335 terminates the process otherwise).
ReferenceBinds == "bind" \notin violated

\* The callback of an AsyncOpenTask is called at most once, however often the task was
\* started, and never if a cancel() came first, and it never finds the coordinator given
\* up by another thread (async_open_task.cpp:42, 66).
AnsweredOnce == answered <= (IF cancelled THEN 0 ELSE 1) /\ "coordinator" \notin violated

=============================================================================
