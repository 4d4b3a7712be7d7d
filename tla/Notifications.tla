--------------------------- MODULE Notifications ---------------------------
(***************************************************************************)
(* Change notifications of the Realms of one file (RealmCoordinator,       *)
(* CollectionNotifier, ResultsNotifier and the transactions of Realm).     *)
(*                                                                         *)
(* Each Realm belongs to a thread of its own.  The notifiers of all of     *)
(* them are run by one worker thread, which pulls them to a newer version, *)
(* works out what has changed and hands the result over; a Realm's thread  *)
(* then packages it and calls the callbacks as it advances.  A critical    *)
(* section of m_notifier_mutex is one action.  Between those, the worker   *)
(* is at wpc and the thread of Realm r at rpc[r].                          *)
(*                                                                         *)
(* A change set is the set of versions whose changes it describes: every   *)
(* commit is assumed to change every observed collection.  A notifier has  *)
(* at most one callback here; NotifierCallbacks has the list of them.      *)
(***************************************************************************)
EXTENDS Integers, FiniteSets

CONSTANTS
    Realms,     \* the open Realm instances
    Notifiers,  \* the collections that may be observed
    NoRealm,    \* "nobody is in a write transaction"
    Programs,   \* what an application may do: [calls, owner]
    MaxVersion  \* bound on the versions of the file

\* The calls an application may make.
Calls == {"prepare_async", "add_callback", "remove_callback", "unregister", "write",
          "suppress_next", "cancel", "refresh", "other_commit"}

ASSUME ProgramsAssumption ==
    Programs \subseteq [calls : [Realms \cup {NoRealm} -> SUBSET Calls],
                        owner : [Notifiers -> Realms]]
ASSUME RealmsAssumption == NoRealm \notin Realms
ASSUME VersionAssumption == MaxVersion \in Nat \ {0}

VARIABLES
    \* the application
    calls,      \* the calls it makes on each Realm, and of others (NoRealm)
    owner,      \* the Realm whose collection a notifier observes
    \* the file
    latest,     \* its latest version
    writer,     \* the Realm that holds the write lock
    \* the Realms
    rpc,        \* where the thread of each one is
    readVer,    \* its read version
    adding,     \* the notifiers add_notification_callback() is about to add to
    want,       \* the version its refresh() waits for
    posted,     \* is a notify() queued on its scheduler?
    \* the coordinator, guarded by m_notifier_mutex
    place,      \* the vector a notifier is in: m_new_notifiers or m_notifiers
    notifierSg, \* version of m_notifier_sg, 0 if null
    advancerSg, \* version of m_advancer_sg, 0 if null
    skipVersion,\* m_notifier_skip_version
    woken,      \* has notify_others() been called since the last on_change()?
    \* the notifiers
    live,       \* is m_realm set?
    sgVersion,  \* m_sg_version
    hasRun,     \* m_has_run
    rows,       \* the version m_previous_rows are from
    change,     \* m_change
    \* their callbacks
    callback,   \* is there one?
    accumulated,\* accumulated_changes
    initial,    \* initial_delivered
    skipNext,   \* skip_next
    \* the worker's local variables
    wpc, batch, fresh, target, skipTo,
    \* history
    since,      \* the version of the initial notification
    reported,   \* the versions reported after it
    skipped,    \* the versions it was asked not to report
    asked,      \* was suppress_next() called in this write transaction?
    bare,       \* did it run while it had no callback?
    failed      \* the assertion that stopped the process

program == <<calls, owner>>
file == <<latest, writer>>
realms == <<rpc, adding, readVer, want, posted>>
coordinator == <<place, notifierSg, advancerSg, skipVersion, woken>>
results == <<live, sgVersion, hasRun, rows, change>>
callbacks == <<callback, accumulated, initial, skipNext>>
worker == <<wpc, batch, fresh, target, skipTo>>
history == <<since, reported, skipped, asked, bare>>
vars == <<program, file, realms, coordinator, results, callbacks, worker, history,
          failed>>

Versions == 1..MaxVersion
Stages == {"idle", "adding", "begin", "writing", "refresh", "ready", "async"}

\* Every variable has the type of what it stands for.
TypeOK ==
    /\ [calls |-> calls, owner |-> owner] \in Programs
    /\ latest \in Versions /\ writer \in Realms \cup {NoRealm}
    /\ rpc \in [Realms -> Stages]
    /\ adding \subseteq Notifiers
    /\ readVer \in [Realms -> Versions]
    /\ want \in [Realms -> Versions]
    /\ posted \in [Realms -> BOOLEAN]
    /\ place \in [Notifiers -> {"none", "new", "main", "gone"}]
    /\ {notifierSg, advancerSg, skipVersion} \subseteq 0..MaxVersion
    /\ woken \in BOOLEAN
    /\ live \in [Notifiers -> BOOLEAN] /\ hasRun \in [Notifiers -> BOOLEAN]
    /\ sgVersion \in [Notifiers -> 0..MaxVersion]
    /\ rows \in [Notifiers -> 0..MaxVersion]
    /\ change \in [Notifiers -> SUBSET Versions]
    /\ callback \in [Notifiers -> BOOLEAN] /\ initial \in [Notifiers -> BOOLEAN]
    /\ accumulated \in [Notifiers -> SUBSET Versions]
    /\ skipNext \in [Notifiers -> BOOLEAN] /\ asked \in [Notifiers -> BOOLEAN]
    /\ bare \subseteq Notifiers
    /\ wpc \in {"idle", "skip", "skipped", "run", "ran"}
    /\ batch \subseteq Notifiers /\ fresh \subseteq Notifiers
    /\ target \in 0..MaxVersion /\ skipTo \in 0..MaxVersion
    /\ since \in [Notifiers -> 0..MaxVersion]
    /\ reported \in [Notifiers -> SUBSET Versions]
    /\ skipped \in [Notifiers -> SUBSET Versions]
    /\ failed \in {"no", "advancer", "spurious", "skip"}

Set(f, N, Val(_)) == [n \in DOMAIN f |-> IF n \in N THEN Val(n) ELSE f[n]]
At(r, stage) == rpc[r] = stage /\ failed = "no"
Goto(r, stage) == rpc' = [rpc EXCEPT ![r] = stage]
MayCall(r, op) == op \in calls[r] /\ At(r, "idle")
MayAlsoWriting(r, op) == MayCall(r, op) \/ (op \in calls[r] /\ At(r, "writing"))

\* notifiers_for_realm()
NotifiersForRealm(r) ==
    {n \in Notifiers : owner[n] = r /\ live[n] /\ place[n] \in {"new", "main"}}

-----------------------------------------------------------------------------
(* Notifiers and callbacks come and go, on the Realm's thread *)

\* RealmCoordinator::register_notifier() and pin_version().
RegisterNotifier(n) ==
    /\ place[n] = "none"
    /\ place' = [place EXCEPT ![n] = "new"]
    /\ live' = [live EXCEPT ![n] = TRUE]
    /\ sgVersion' = [sgVersion EXCEPT ![n] = readVer[owner[n]]]
    /\ advancerSg' = IF advancerSg = 0 \/ readVer[owner[n]] < advancerSg
                     THEN readVer[owner[n]] ELSE advancerSg
    /\ UNCHANGED <<program, file, readVer, want, posted, notifierSg, skipVersion,
                   woken, hasRun, rows, change, callbacks, worker, history, failed>>

\* Results::prepare_async() for implicit background updates: no callback.
PrepareAsync(n) ==
    /\ MayCall(owner[n], "prepare_async")
    /\ RegisterNotifier(n)
    /\ UNCHANGED <<rpc, adding>>

\* Results::add_notification_callback(), until it calls add_callback().
AddNotificationCallback(n) ==
    /\ MayCall(owner[n], "add_callback")
    /\ RegisterNotifier(n)
    /\ Goto(owner[n], "adding")
    /\ adding' = adding \cup {n}

\* CollectionNotifier::add_callback()
AddCallback(n) ==
    /\ \/ At(owner[n], "adding") /\ n \in adding /\ Goto(owner[n], "idle")
       \/ MayAlsoWriting(owner[n], "add_callback") /\ UNCHANGED rpc
    /\ live[n] /\ ~callback[n]
    /\ callback' = [callback EXCEPT ![n] = TRUE]
    /\ woken' = TRUE
    /\ adding' = adding \ {n}
    /\ UNCHANGED <<program, file, readVer, want, posted, place, notifierSg, advancerSg,
                   skipVersion, results, accumulated, initial, skipNext, worker,
                   history, failed>>

\* NotificationToken goes away: CollectionNotifier::remove_callback().
RemoveCallback(n) ==
    /\ MayAlsoWriting(owner[n], "remove_callback")
    /\ callback[n]
    /\ callback' = [callback EXCEPT ![n] = FALSE]
    /\ accumulated' = [accumulated EXCEPT ![n] = {}]
    /\ initial' = [initial EXCEPT ![n] = FALSE]
    /\ skipNext' = [skipNext EXCEPT ![n] = FALSE]
    /\ since' = [since EXCEPT ![n] = 0]
    /\ reported' = [reported EXCEPT ![n] = {}]
    /\ skipped' = [skipped EXCEPT ![n] = {}]
    /\ asked' = [asked EXCEPT ![n] = FALSE]
    /\ UNCHANGED <<program, file, realms, coordinator, results, worker, bare, failed>>

\* The Results goes away: CollectionNotifier::unregister().
Unregister(n) ==
    /\ MayAlsoWriting(owner[n], "unregister")
    /\ live[n]
    /\ live' = [live EXCEPT ![n] = FALSE]
    /\ UNCHANGED <<program, file, realms, coordinator, sgVersion, hasRun, rows, change,
                   callbacks, worker, history, failed>>

-----------------------------------------------------------------------------
(* The worker thread: RealmCoordinator::on_change() *)

(***************************************************************************)
(* clean_up_dead_notifiers(): each vector loses its dead notifiers, and a  *)
(* vector emptied that way its transaction.                                *)
(***************************************************************************)
Dead(p) == {n \in Notifiers : place[n] = p /\ ~live[n]}
Alive(p) == {n \in Notifiers : place[n] = p /\ live[n]}
Emptied(p) == Dead(p) # {} /\ Alive(p) = {}
CleanSg(sg) == IF Emptied("main") THEN 0 ELSE sg
SkipVersionStays == skipVersion \* mutant: it is not reset
CleanSkipVersion == IF Emptied("main") THEN 0 ELSE skipVersion
CleanAdvancerSg == IF Emptied("new") THEN 0 ELSE advancerSg

\* The call is over: m_notifier_cv.notify_all(), and notify() for each Realm.
OnChangeSilent == \* mutant: the Realms are not told
    /\ wpc' = "idle" /\ batch' = {} /\ fresh' = {} /\ target' = 0 /\ skipTo' = 0
    /\ UNCHANGED posted
OnChangeEnds ==
    /\ wpc' = "idle" /\ batch' = {} /\ fresh' = {} /\ target' = 0 /\ skipTo' = 0
    /\ posted' = [r \in Realms |-> calls[r] # {}] \* an unused Realm is not open

WorkerFails(what) ==
    /\ failed' = what
    /\ UNCHANGED <<program, file, realms, coordinator, results, callbacks, worker,
                   history>>

\* There is nothing to run, or nothing has happened since the last run.
NothingToRun(sg) ==
    \/ Alive("main") \cup Alive("new") = {}
    \/ Alive("new") = {} /\ sg = latest

\* The notifiers to rerun: all of them, unless the version has not changed.
BatchIfNoneNew(sg) == \* mutant: new notifiers are run by themselves
    IF latest # sg /\ Alive("new") = {} THEN Alive("main") ELSE {}
Batch(sg) == IF latest # sg THEN Alive("main") ELSE {}

(***************************************************************************)
(* The first critical section of run_async_notifiers(): choose the version *)
(* to go to, take the skip version and copy the vectors.                   *)
(***************************************************************************)
RunAsyncNotifiers ==
    LET none == Alive("main") \cup Alive("new") = {}
        sg == IF ~none /\ CleanSg(notifierSg) = 0 THEN latest
                                                   ELSE CleanSg(notifierSg)
        skip == CleanSkipVersion
        new == Alive("new")
    IN
    /\ wpc = "idle" /\ woken /\ failed = "no"
    /\ IF new # {} /\ (\/ CleanAdvancerSg = 0
                       \/ \E n \in new : CleanAdvancerSg > sgVersion[n])
       THEN WorkerFails("advancer")
       ELSE IF ~none /\ NothingToRun(sg) /\ skip # 0
       THEN WorkerFails("spurious")
       ELSE IF ~NothingToRun(sg) /\ skip # 0 /\ (Batch(sg) = {} \/ skip \notin sg..latest)
       THEN WorkerFails("skip")
       ELSE
         /\ woken' = FALSE
         /\ notifierSg' = sg
         /\ advancerSg' = IF none THEN CleanAdvancerSg ELSE 0
         /\ skipVersion' = IF none THEN skip ELSE 0
         /\ place' = [n \in Notifiers |->
                        IF n \in Dead("main") \cup Dead("new") THEN "gone"
                        ELSE IF n \in new THEN "main" ELSE place[n]]
         /\ IF NothingToRun(sg)
            THEN OnChangeEnds
            ELSE /\ batch' = Batch(sg)
                 /\ fresh' = new
                 /\ target' = latest
                 /\ skipTo' = skip
                 /\ wpc' = IF skip # 0 THEN "skip" ELSE "run"
                 /\ UNCHANGED posted
         /\ UNCHANGED <<program, file, rpc, adding, readVer, want, results, callbacks,
                        history, failed>>

(***************************************************************************)
(* ResultsNotifier::run() of the notifiers N, now at version v, no lock    *)
(* held.  A notifier without a callback only runs if its results are being *)
(* used, which is up to the application.                                   *)
(***************************************************************************)
ChangesInclusive(n, v) == rows[n] .. v \* mutant: off by one
Changes(n, v) == rows[n] + 1 .. v
Run(N, v) ==
    /\ \E unused \in SUBSET {n \in N : ~callback[n]} :
         LET running == {n \in N \ unused : live[n]}
         IN  /\ change' = Set(change, {n \in running : hasRun[n] /\ callback[n]},
                              LAMBDA n : Changes(n, v))
             /\ rows' = Set(rows, running, LAMBDA n : v)
    /\ bare' = bare \cup {n \in N : ~callback[n]}
    /\ UNCHANGED <<since, reported, skipped, asked>>

(***************************************************************************)
(* prepare_handover() of the notifiers N, and add_changes() for their      *)
(* callbacks.                                                              *)
(***************************************************************************)
Handover(N, v) ==
    LET told == {n \in N : callback[n]}
    IN  /\ sgVersion' = Set(sgVersion, N, LAMBDA n : v)
        /\ hasRun' = Set(hasRun, N, LAMBDA n : TRUE)
        /\ change' = Set(change, N, LAMBDA n : {})
        /\ accumulated' = Set(accumulated, {n \in told : ~skipNext[n]},
                              LAMBDA n : accumulated[n] \cup change[n])
        /\ skipNext' = Set(skipNext, told, LAMBDA n : FALSE)

\* Up to the version to skip first ...
RunSkipped ==
    /\ wpc = "skip" /\ failed = "no"
    /\ Run(batch, skipTo)
    /\ notifierSg' = skipTo
    /\ wpc' = "skipped"
    /\ UNCHANGED <<program, file, realms, place, advancerSg, skipVersion, woken, live,
                   sgVersion, hasRun, callbacks, batch, fresh, target, skipTo,
                   failed>>

\* ... and hand that over by itself.
HandoverSkipped ==
    /\ wpc = "skipped" /\ failed = "no"
    /\ Handover(batch, skipTo)
    /\ wpc' = "run"
    /\ UNCHANGED <<program, file, realms, coordinator, live, rows, callback, initial,
                   batch, fresh, target, skipTo, history, failed>>

\* The new notifiers, and the others for the rest of the way.
RunNotifiers ==
    /\ wpc = "run" /\ failed = "no"
    /\ Run(batch \cup fresh, target)
    /\ notifierSg' = target
    /\ wpc' = "ran"
    /\ UNCHANGED <<program, file, realms, place, advancerSg, skipVersion, woken, live,
                   sgVersion, hasRun, callbacks, batch, fresh, target, skipTo,
                   failed>>

\* The last critical section, and the end of on_change().
HandoverNotifiers ==
    /\ wpc = "ran" /\ failed = "no"
    /\ Handover(batch \cup fresh, target)
    /\ place' = [n \in Notifiers |->
                   IF n \in Dead("main") \cup Dead("new") THEN "gone" ELSE place[n]]
    /\ notifierSg' = CleanSg(notifierSg)
    /\ skipVersion' = CleanSkipVersion
    /\ advancerSg' = CleanAdvancerSg
    /\ OnChangeEnds
    /\ UNCHANGED <<program, file, rpc, adding, readVer, want, woken, live, rows,
                   callback, initial, history, failed>>

-----------------------------------------------------------------------------
(* Delivery, on the Realm's thread *)

\* What package_for_delivery() leaves of the accumulated changes.
RemainingCopied(n) == accumulated[n] \* mutant: they are copied, not moved
Remaining(n) == {}

\* package_for_delivery() of the notifiers P, which are not delivered.
Discard(P) ==
    /\ accumulated' = Set(accumulated, P, Remaining)
    /\ UNCHANGED <<callback, initial, skipNext, history>>

\* package_for_delivery() and after_advance() of the notifiers P at version v.
Deliver(P, v) ==
    LET told == {n \in P : callback[n]}
    IN  /\ accumulated' = Set(accumulated, P, Remaining)
        /\ initial' = Set(initial, told, LAMBDA n : TRUE)
        /\ since' = Set(since, {n \in told : ~initial[n]}, LAMBDA n : v)
        /\ reported' = Set(reported, {n \in told : initial[n]},
                           LAMBDA n : reported[n] \cup accumulated[n])
        /\ UNCHANGED <<callback, skipNext, skipped, asked, bare>>

\* The notifiers that package_and_wait() keeps.
Packaged(r) == {n \in NotifiersForRealm(r) : hasRun[n]}

\* What package_and_wait(v) waits for.
ReadyAfter(r, v) == \* mutant: a later version is asked for
    \A n \in NotifiersForRealm(r) : callback[n] => hasRun[n] /\ sgVersion[n] > v
Ready(r, v) ==
    \A n \in NotifiersForRealm(r) : callback[n] => hasRun[n] /\ sgVersion[n] >= v

(***************************************************************************)
(* The package that was waited for at version v is delivered as the Realm  *)
(* advances to the package's version or, without one, to the latest.       *)
(***************************************************************************)
DeliverPackage(r, v) ==
    \/ /\ Packaged(r) = {}
       /\ readVer' = [readVer EXCEPT ![r] = latest]
       /\ UNCHANGED <<callbacks, history>>
    \/ \E n \in Packaged(r) : \* the last one gives the version
         IF sgVersion[n] < v
         THEN /\ readVer' = [readVer EXCEPT ![r] = latest]
              /\ Discard(Packaged(r))
         ELSE /\ readVer' = [readVer EXCEPT ![r] = sgVersion[n]]
              /\ Deliver(Packaged(r), sgVersion[n])

\* wait_for_notifiers() wakes the worker up when it has to wait.
WakeUpUnless(ready) == woken' = (woken \/ ~ready)

\* Realm::begin_transaction(): promote_to_write() has got the write lock ...
BeginTransaction(r) ==
    /\ MayCall(r, "write")
    /\ writer = NoRealm
    /\ latest < MaxVersion
    /\ writer' = r
    /\ WakeUpUnless(Ready(r, latest))
    /\ Goto(r, "begin")
    /\ UNCHANGED <<program, latest, adding, readVer, want, posted, place, notifierSg,
                   advancerSg, skipVersion, results, callbacks, worker, history, failed>>

\* ... and the notifiers have caught up.
PromoteToWrite(r) ==
    /\ At(r, "begin")
    /\ Ready(r, latest)
    /\ DeliverPackage(r, latest)
    /\ Goto(r, "writing")
    /\ UNCHANGED <<program, file, adding, want, posted, coordinator, results, worker,
                   failed>>

\* CollectionNotifier::suppress_next_notification()
SuppressNext(n) ==
    /\ "suppress_next" \in calls[owner[n]]
    /\ At(owner[n], "writing")
    /\ live[n] /\ callback[n] /\ ~asked[n]
    /\ skipNext' = [skipNext EXCEPT ![n] = TRUE]
    /\ asked' = [asked EXCEPT ![n] = TRUE]
    /\ UNCHANGED <<program, file, realms, coordinator, results, callback, accumulated,
                   initial, worker, since, reported, skipped, bare,
                   failed>>

\* The version to hand over by itself, if this Realm has notifiers that run.
SkipVersionKept(r) == skipVersion \* mutant: it is never set
SkipVersionFor(r) ==
    IF \E n \in Alive("main") : owner[n] = r THEN latest + 1 ELSE skipVersion

\* RealmCoordinator::commit_write()
CommitWrite(r) ==
    /\ At(r, "writing")
    /\ latest' = latest + 1
    /\ writer' = NoRealm
    /\ readVer' = [readVer EXCEPT ![r] = latest + 1]
    /\ skipVersion' = SkipVersionFor(r)
    /\ woken' = TRUE
    /\ skipped' = Set(skipped, {n \in Notifiers : asked[n] /\ owner[n] = r},
                      LAMBDA n : skipped[n] \cup {latest + 1})
    /\ asked' = Set(asked, {n \in Notifiers : owner[n] = r}, LAMBDA n : FALSE)
    /\ Goto(r, "idle")
    /\ UNCHANGED <<program, adding, want, posted, place, notifierSg, advancerSg,
                   results, callbacks, worker, since, reported, bare, failed>>

\* Realm::cancel_transaction() leaves skip_next as it is.
CancelTransaction(r) ==
    /\ "cancel" \in calls[r]
    /\ At(r, "writing")
    /\ writer' = NoRealm
    /\ asked' = Set(asked, {n \in Notifiers : owner[n] = r}, LAMBDA n : FALSE)
    /\ Goto(r, "idle")
    /\ UNCHANGED <<program, latest, adding, readVer, want, posted, coordinator, results,
                   callbacks, worker, since, reported, skipped, bare,
                   failed>>

\* Somebody else commits to the file (another process, or the sync client).
OtherCommit ==
    /\ "other_commit" \in calls[NoRealm] /\ failed = "no"
    /\ writer = NoRealm
    /\ latest < MaxVersion
    /\ latest' = latest + 1
    /\ woken' = TRUE
    /\ UNCHANGED <<program, writer, realms, place, notifierSg, advancerSg, skipVersion,
                   results, callbacks, worker, history, failed>>

\* Realm::refresh(): advance_to_latest() waits for the latest version ...
Refresh(r) ==
    /\ MayCall(r, "refresh")
    /\ want' = [want EXCEPT ![r] = latest]
    /\ WakeUpUnless(Ready(r, latest))
    /\ Goto(r, "refresh")
    /\ UNCHANGED <<program, file, adding, readVer, posted, place, notifierSg, advancerSg,
                   skipVersion, results, callbacks, worker, history, failed>>

\* ... and goes at least as far.
AdvanceToLatest(r) ==
    /\ At(r, "refresh")
    /\ Ready(r, want[r])
    /\ DeliverPackage(r, want[r])
    /\ want' = [want EXCEPT ![r] = 1]
    /\ Goto(r, "idle")
    /\ UNCHANGED <<program, file, adding, posted, coordinator, results, worker, failed>>

\* Realm::notify(), called by the scheduler; a Realm that is writing ignores it.
Notify(r) ==
    /\ posted[r]
    /\ \/ At(r, "idle") /\ Goto(r, IF readVer[r] = latest THEN "async" ELSE "ready")
       \/ At(r, "writing") /\ UNCHANGED rpc
    /\ posted' = [posted EXCEPT ![r] = FALSE]
    /\ UNCHANGED <<program, file, adding, readVer, want, coordinator, results, callbacks,
                   worker, history, failed>>

\* process_available_async(): the Realm is at the latest version already.
ProcessAvailableAsync(r) ==
    /\ At(r, "async")
    /\ Deliver({n \in Packaged(r) : sgVersion[n] = readVer[r]}, readVer[r])
    /\ Goto(r, "idle")
    /\ UNCHANGED <<program, file, adding, readVer, want, posted, coordinator, results,
                   worker, failed>>

\* advance_to_ready(): go where the notifiers are.
AdvanceToReady(r) ==
    /\ At(r, "ready")
    /\ \/ /\ Packaged(r) = {}
          /\ readVer' = [readVer EXCEPT ![r] = latest]
          /\ UNCHANGED <<callbacks, history>>
       \/ \E n \in Packaged(r) :
            IF sgVersion[n] < readVer[r]
            THEN UNCHANGED readVer /\ Discard(Packaged(r))
            ELSE /\ readVer' = [readVer EXCEPT ![r] = sgVersion[n]]
                 /\ Deliver(Packaged(r), sgVersion[n])
    /\ Goto(r, "idle")
    /\ UNCHANGED <<program, file, adding, want, posted, coordinator, results, worker,
                   failed>>

-----------------------------------------------------------------------------
Init ==
    /\ \E p \in Programs : calls = p.calls /\ owner = p.owner
    /\ latest = 1 /\ writer = NoRealm
    /\ rpc = [r \in Realms |-> "idle"] /\ adding = {}
    /\ readVer = [r \in Realms |-> 1]
    /\ want = [r \in Realms |-> 1]
    /\ posted = [r \in Realms |-> FALSE]
    /\ place = [n \in Notifiers |-> "none"]
    /\ notifierSg = 0 /\ advancerSg = 0 /\ skipVersion = 0 /\ woken = FALSE
    /\ live = [n \in Notifiers |-> FALSE] /\ hasRun = [n \in Notifiers |-> FALSE]
    /\ sgVersion = [n \in Notifiers |-> 0] /\ rows = [n \in Notifiers |-> 0]
    /\ change = [n \in Notifiers |-> {}]
    /\ callback = [n \in Notifiers |-> FALSE]
    /\ accumulated = [n \in Notifiers |-> {}]
    /\ initial = [n \in Notifiers |-> FALSE]
    /\ skipNext = [n \in Notifiers |-> FALSE]
    /\ wpc = "idle" /\ batch = {} /\ fresh = {} /\ target = 0 /\ skipTo = 0
    /\ since = [n \in Notifiers |-> 0]
    /\ reported = [n \in Notifiers |-> {}]
    /\ skipped = [n \in Notifiers |-> {}]
    /\ asked = [n \in Notifiers |-> FALSE] /\ bare = {}
    /\ failed = "no"

Worker == RunAsyncNotifiers \/ RunSkipped \/ HandoverSkipped \/ RunNotifiers
              \/ HandoverNotifiers

\* What a Realm's thread has begun, or its scheduler has queued.
Proceed(r) ==
    \/ PromoteToWrite(r) \/ AdvanceToLatest(r) \/ Notify(r)
    \/ ProcessAvailableAsync(r) \/ AdvanceToReady(r)
    \/ \E n \in adding : owner[n] = r /\ AddCallback(n)
EndWrite(r) == CommitWrite(r) \/ CancelTransaction(r)

Next ==
    \/ \E n \in Notifiers :
         \/ PrepareAsync(n) \/ AddNotificationCallback(n) \/ AddCallback(n)
         \/ RemoveCallback(n) \/ Unregister(n) \/ SuppressNext(n)
    \/ Worker
    \/ \E r \in Realms :
         Proceed(r) \/ BeginTransaction(r) \/ EndWrite(r) \/ Refresh(r)
    \/ OtherCommit

Spec == Init /\ [][Next]_vars

(***************************************************************************)
(* The worker and the Realms' schedulers run, and the application ends the *)
(* write transactions it begins.                                           *)
(***************************************************************************)
FairSpec ==
    /\ Spec
    /\ WF_vars(Worker)
    /\ \A r \in Realms : WF_vars(Proceed(r)) /\ WF_vars(EndWrite(r))

-----------------------------------------------------------------------------
(* What the notifications promise *)

\* None of the assertions of run_async_notifiers() fails,
\* whatever is registered, removed and committed while the worker runs.
AssertionsHold == failed = "no"

\* The notifiers of one Realm that have run are at one version whenever
\* m_notifier_mutex is free: a package has a version (NotifierPackage keeps
\* the one of its last notifier only).
PackageHasOneVersion ==
    \A r \in Realms : \A m, n \in Packaged(r) : sgVersion[m] = sgVersion[n]

\* Once a callback has been called, every later change that was handed over
\* is waiting for it or was reported, unless it asked not to be told.  (A
\* notifier that ran before it had a callback may leave out a change that it
\* has already passed over, see README.)
NothingMissed ==
    \A n \in Notifiers \ bare : live[n] /\ callback[n] /\ initial[n] =>
        since[n] + 1 .. sgVersion[n] \subseteq
            accumulated[n] \cup reported[n] \cup skipped[n]

\* Nothing is waiting to be reported when add_changes() is to drop a change on
\* behalf of suppress_next(), as it asserts: the write transaction that asked
\* for it delivered everything before it began.
SkipFindsNothing ==
    \A n \in Notifiers \ bare :
        callback[n] /\ skipNext[n] => accumulated[n] = {}

\* A change waiting to be reported is news: it was not reported before.
ReportedOnce ==
    \A n \in Notifiers : callback[n] => accumulated[n] \cap reported[n] = {}

\* begin_transaction() and refresh() do not wait for the notifiers forever.
WaitsEnd ==
    \A r \in Realms :
        rpc[r] \in {"begin", "refresh"} ~> (rpc[r] \notin {"begin", "refresh"})

\* What is committed is reported in the end.
ChangesReported ==
    \A n \in Notifiers : \A v \in Versions :
        (live[n] /\ callback[n] /\ initial[n] /\ latest = v /\ v > since[n])
            ~> \/ v \in reported[n] \cup skipped[n]
               \/ ~callback[n] \/ ~live[n] \/ n \in bare

-----------------------------------------------------------------------------
(* What a test says, and an interleaving breaks *)

\* A callback is never told of a commit it asked not to be told of.
SkipHonoured ==
    \A n \in Notifiers : callback[n] => skipped[n] \cap reported[n] = {}
=============================================================================
