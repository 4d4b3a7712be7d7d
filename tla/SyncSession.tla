---------------------------- MODULE SyncSession ----------------------------
(***************************************************************************)
(* One SyncSession object (sync/sync_session.cpp): its Active / Dying /    *)
(* Inactive state machine, the wait-for-completion callbacks it owns, its  *)
(* entry in SyncManager::m_sessions and its external reference.            *)
(*                                                                         *)
(* Application threads call into the session, the sync client calls back   *)
(* on its own event loop thread.  A critical section of m_state_mutex is   *)
(* one atomic action.  The object releases that mutex in the middle of     *)
(* advance_state(inactive), so what is left of a call after the release is *)
(* kept as a program counter per thread: pc[t] is the next section of t    *)
(* and then[t] the one that follows the tail of advance_state(inactive).   *)
(***************************************************************************)
EXTENDS Integers, FiniteSets

CONSTANTS
    Threads,        \* application threads
    Creator,        \* the one whose get_session() created the object
    SyncThread,     \* the event loop thread of the sync client
    Nobody,         \* "m_session_mutex is free"
    UploadWaits,    \* callbacks given to wait_for_upload_completion()
    DownloadWaits,  \* callbacks given to wait_for_download_completion()
    StopPolicy,     \* m_config.stop_policy
    ResyncMode,     \* m_config.client_resync_mode
    CancelWaitsOnNonfatalError, \* m_config.cancel_waits_on_nonfatal_error
    Calls,          \* the operations the application uses
    Changes,        \* the connection states the listener may report
    Errors,         \* the errors it may report: <<kind, is_fatal>>
    UrlRejected,    \* may create_sync_session() throw BadServerUrl?
    MaxSessions, MaxDeaths, MaxCommits \* bounds, used in guards only

Waits == UploadWaits \cup DownloadWaits
All == Threads \cup {SyncThread}

Policies == {"immediately", "live_indefinitely", "after_changes_uploaded"}
Modes == {"recover", "discard_local", "manual"}
ErrorKinds == {"ignored", "plain", "token_expired", "bad_authentication",
               "permission_denied", "client_reset", "client_file", "refresh"}

(***************************************************************************)
(* What the sync client may tell the connection state listener: a new      *)
(* connection state, or a disconnect with the error that caused it.        *)
(***************************************************************************)
Connections == {"disconnected", "connecting", "connected"}
Change(c) == [conn |-> c, kind |-> "none", fatal |-> FALSE]
ErrorEvent(e) == [conn |-> "disconnected", kind |-> e[1], fatal |-> e[2]]
Events == {Change(c) : c \in Changes} \cup {ErrorEvent(e) : e \in Errors}

ASSUME ThreadsAssumption == /\ Creator \in Threads
                            /\ SyncThread \notin Threads
                            /\ Nobody \notin All
ASSUME WaitsAssumption == UploadWaits \cap DownloadWaits = {}
ASSUME ConfigAssumption == /\ StopPolicy \in Policies
                           /\ ResyncMode \in Modes
                           /\ CancelWaitsOnNonfatalError \in BOOLEAN
                           /\ UrlRejected \in BOOLEAN
                           /\ Changes \subseteq Connections
                           /\ Errors \subseteq ErrorKinds \X BOOLEAN
ASSUME BoundsAssumption == {MaxSessions, MaxDeaths, MaxCommits} \subseteq Nat

VARIABLES
    \* members of SyncSession, guarded by m_state_mutex
    state,      \* m_state
    session,    \* which sync::Session m_session points to, 0 for null
    made,       \* how many sync::Sessions were made so far
    conn,       \* m_connection_state
    deaths,     \* m_death_count
    callbacks,  \* m_completion_callbacks: the id a wait is stored under, or 0
    counter,    \* m_completion_request_counter
    forced,     \* m_force_client_resync
    \* who keeps the object
    extRef,     \* is m_external_reference alive?
    registered, \* does SyncManager::m_sessions hold the object?
    registryLock, \* who holds SyncManager::m_session_mutex
    \* the sync client (external)
    waiters,    \* completion handlers given to sync::Sessions
    committed,  \* local versions the sync client was told of
    uploaded,   \* versions the server has acknowledged
    \* the threads
    pc, then, fire, result,
    event,      \* what the connection listener is handling
    saved,      \* handle_error()'s local `callbacks`
    refreshing, \* is a token refresh under way?
    fileAction, \* last action recorded in the metadata Realm for the file
    \* history
    asked,      \* version a wait was asked at, -1 before
    calls,      \* how often the callback was called
    outcome,    \* the result it was last called with
    failed      \* the assertion that stopped the process

members == <<state, session, made, conn, deaths, callbacks, counter, forced>>
registry == <<extRef, registered, registryLock>>
client == <<waiters, committed, uploaded>>
control == <<pc, then, fire, result>>
handling == <<event, saved, refreshing, fileAction>>
history == <<asked, calls, outcome>>
vars == <<members, registry, client, control, handling, history, failed>>

Locations == {"idle", "create", "link", "dropped", "unregister", "complete",
              "terminations", "update", "revive", "refreshed", "token", "listener",
              "error", "classify", "restore", "final", "next", "advance"}

\* Mutant: the map is copied, not swapped with an empty one.
CallbacksKept == callbacks
NoCallbacks == [w \in Waits |-> 0]

\* Mutant: only the waits for an upload are considered.
QueuedUploads == {w \in UploadWaits : callbacks[w] # 0}
Queued == {w \in Waits : callbacks[w] # 0}

\* A completion handler held by the sync client (and two mutants that capture
\* the number before it is incremented): `n` is the id captured for a
\* wait, or the death count captured by Dying::enter_state().
CompletionOldId(s, w, n, v) ==
    [session |-> s, kind |-> "wait", wait |-> w, n |-> n - 1, target |-> v]
Completion(s, w, n, v) ==
    [session |-> s, kind |-> "wait", wait |-> w, n |-> n, target |-> v]
DeathCountBefore(s, n, v) ==
    [session |-> s, kind |-> "death", wait |-> Nobody, n |-> n - 1, target |-> v]
Death(s, n, v) ==
    [session |-> s, kind |-> "death", wait |-> Nobody, n |-> n, target |-> v]

Handlers ==
    [session : Nat, kind : {"wait"}, wait : Waits, n : Nat \ {0}, target : Nat] \cup
    [session : Nat, kind : {"death"}, wait : {Nobody}, n : Nat, target : Nat]

MembersOK ==
    /\ state \in {"active", "dying", "inactive"}
    /\ session \in Nat /\ made \in Nat
    /\ conn \in Connections
    /\ deaths \in Nat
    /\ callbacks \in [Waits -> Nat]
    /\ counter \in Nat
RegistryOK == registryLock \in Threads \cup {Nobody}
FlagsOK == /\ forced \in BOOLEAN /\ refreshing \in BOOLEAN
           /\ extRef \in BOOLEAN /\ registered \in BOOLEAN
ClientOK ==
    /\ waiters \subseteq Handlers
    /\ committed \in Nat
    /\ uploaded \in 0..committed
ControlOK ==
    /\ pc \in [All -> Locations]
    /\ then \in [All -> Locations]
    /\ fire \in [All -> SUBSET Waits]
    /\ result \in [All -> {"ok", "cancelled"}]
HandlingOK ==
    /\ event \in [conn : Connections, kind : ErrorKinds \cup {"none"},
                  fatal : BOOLEAN]
    /\ saved \in [Waits -> Nat]
    /\ fileAction \in {"none", "delete", "backup"}
HistoryOK ==
    /\ asked \in [Waits -> Nat \cup {-1}]
    /\ calls \in [Waits -> Nat]
    /\ outcome \in [Waits -> {"none", "ok", "cancelled"}]
    /\ failed \in {"no", "advance_state", "unregister_session",
                   "null_session", "token_expired"}

\* Every variable has the type of the member, lock or queue it stands for.
TypeOK == /\ MembersOK /\ RegistryOK /\ FlagsOK /\ ClientOK
          /\ ControlOK /\ HandlingOK /\ HistoryOK

(***************************************************************************)
(* The object exists while something owns it: the registry, the external   *)
(* reference, a call in progress or the completion block of a refresh.     *)
(***************************************************************************)
Alive == registered \/ extRef \/ refreshing \/ \E t \in All : pc[t] # "idle"

Idle(t) == pc[t] = "idle" /\ failed = "no" /\ Alive
At(t, l) == pc[t] = l /\ failed = "no"
\* Nobody else has a pointer to the object before get_session() has made it.
MayCall(t, op) ==
    t \in Threads /\ op \in Calls /\ Idle(t) /\ pc[Creator] # "create"

Goto(t, l) == pc' = [pc EXCEPT ![t] = l] /\ UNCHANGED <<then, fire, result>>

\* t goes on at l, will call `waits` with r, and then continues at cont.
CallWith(t, waits, r, l, cont) ==
    /\ pc' = [pc EXCEPT ![t] = l]
    /\ then' = [then EXCEPT ![t] = cont]
    /\ fire' = [fire EXCEPT ![t] = waits]
    /\ result' = [result EXCEPT ![t] = r]

\* t goes on behind the call that took the waits out of the map.
Return(t) ==
    /\ pc' = [pc EXCEPT ![t] = then[t]]
    /\ then' = [then EXCEPT ![t] = "idle"]
    /\ fire' = [fire EXCEPT ![t] = {}]
    /\ result' = [result EXCEPT ![t] = "ok"]

\* A REALM_ASSERT does not hold: the process stops.
Fail(what) ==
    /\ failed' = what
    /\ UNCHANGED <<members, registry, client, control, handling, history>>

-----------------------------------------------------------------------------
(* The states *)

\* The version an upload waiter waits for; a download has none.
TargetDownload(w) == 0 \* mutant: the directions are mixed up
Target(w) == IF w \in UploadWaits THEN committed ELSE 0

(***************************************************************************)
(* add_completion_callback() for each wait of W, against sync::Session s.  *)
(* The ids come from a counter and are only compared for equality; one     *)
(* batch takes one number here because a wait occurs in a batch only once. *)
(***************************************************************************)
AddCompletionCallbacks(W, s) ==
    /\ counter' = counter + 1
    /\ callbacks' = [w \in Waits |-> IF w \in W THEN counter + 1
                                                ELSE callbacks[w]]
    /\ waiters' = waiters \cup
         IF s = 0 THEN {}
         ELSE {Completion(s, w, counter + 1, Target(w)) : w \in W}

\* create_sync_session() returns at once if there is a sync::Session.
SessionToUse == IF session = 0 THEN made + 1 ELSE session

(***************************************************************************)
(* advance_state(active) and Active::enter_state(): create a sync::Session *)
(* unless the Dying one is still bound, and give it every queued wait.     *)
(* create_sync_session() may throw, with m_state already changed.          *)
(***************************************************************************)
Activate ==
    /\ SessionToUse <= MaxSessions
    /\ state' = "active"
    /\ session' = SessionToUse
    /\ made' = IF session = 0 THEN made + 1 ELSE made
    /\ AddCompletionCallbacks(Queued, SessionToUse)
    /\ UNCHANGED <<conn, deaths, forced, committed, uploaded>>

ActivateThrows ==
    /\ UrlRejected
    /\ session = 0
    /\ state' = "active"
    /\ UNCHANGED <<session, made, conn, deaths, callbacks, counter, forced,
                   client>>

(***************************************************************************)
(* advance_state(inactive) and the part of Inactive::enter_state() before  *)
(* unregister() unlocks: the waits are taken out of the map, to be called  *)
(* with operation_aborted at the end.                                      *)
(***************************************************************************)
Deactivate(t, cont, waits) ==
    IF state = "inactive"
    THEN Fail("advance_state")
    ELSE /\ state' = "inactive"
         /\ conn' = "disconnected"
         /\ callbacks' = NoCallbacks
         /\ session' = 0
         /\ CallWith(t, waits, "cancelled", "unregister", cont)
         /\ UNCHANGED <<made, deaths, counter, registry, history, failed>>

\* advance_state(dying) and Dying::enter_state().
Die(t) ==
    IF session = 0
    THEN /\ Deactivate(t, "idle", Queued)
         /\ UNCHANGED <<forced, client, handling>>
    ELSE /\ deaths < MaxDeaths
         /\ state' = "dying"
         /\ deaths' = deaths + 1
         /\ waiters' = waiters \cup {Death(session, deaths + 1, committed)}
         /\ Goto(t, "idle")
         /\ UNCHANGED <<session, made, conn, callbacks, counter, forced,
                        registry, committed, uploaded, handling, history, failed>>

\* State::close(); Dying and LiveIndefinitely ignore it.
Close(t) ==
    \/ /\ state = "active"
       /\ StopPolicy = "after_changes_uploaded"
       /\ Die(t)
    \/ /\ state = "active"
       /\ StopPolicy = "immediately"
       /\ Deactivate(t, "idle", Queued)
       /\ UNCHANGED <<forced, client, handling>>
    \/ /\ state = "inactive"
       /\ CallWith(t, {}, "cancelled", "unregister", "idle")
       /\ UNCHANGED <<members, registry, client, handling, history, failed>>
    \/ /\ \/ state = "dying"
          \/ state = "active" /\ StopPolicy = "live_indefinitely"
       /\ Goto(t, "idle")
       /\ UNCHANGED <<members, registry, client, handling, history, failed>>

\* cancel_pending_waits(): the callbacks are called, with r, after the unlock.
CancelPendingWaits(t, r, cont) ==
    /\ callbacks' = NoCallbacks
    /\ IF Queued = {} THEN Goto(t, cont) ELSE CallWith(t, Queued, r, "complete", cont)
    /\ UNCHANGED <<state, session, made, conn, deaths, counter, forced,
                   registry, client, history, failed>>

-----------------------------------------------------------------------------
(* The tail of Inactive::enter_state(), on whichever thread runs it *)

(***************************************************************************)
(* SyncManager::unregister_session(): an externally referenced session     *)
(* stays registered.                                                       *)
(***************************************************************************)
UnregisterSession(t) ==
    /\ At(t, "unregister")
    /\ registryLock = Nobody
    /\ IF ~registered
       THEN Fail("unregister_session")
       ELSE /\ registered' = extRef
            /\ IF fire[t] = {} THEN Return(t) ELSE Goto(t, "complete")
            /\ UNCHANGED <<members, extRef, registryLock, client, handling, history, failed>>

\* The user's callbacks are called, no lock held.
CompleteWaits(t) ==
    /\ At(t, "complete")
    /\ calls' = [w \in Waits |-> IF w \in fire[t] THEN calls[w] + 1 ELSE calls[w]]
    /\ outcome' = [w \in Waits |-> IF w \in fire[t] THEN result[t] ELSE outcome[w]]
    /\ Return(t)
    /\ UNCHANGED <<members, registry, client, handling, asked, failed>>

-----------------------------------------------------------------------------
(* Reviving, and the external reference *)

\* The locked section of revive_if_needed(), after which t goes on at l.
ReviveIfNeeded(t, l) ==
    /\ \/ state = "active" /\ UNCHANGED <<members, client>>
       \/ state # "active" /\ Activate
    /\ Goto(t, l)
    /\ UNCHANGED <<handling, history, failed>>

\* The same when create_sync_session() throws.
ReviveThrows(t, l) ==
    /\ state = "inactive"
    /\ ActivateThrows
    /\ Goto(t, l)
    /\ UNCHANGED <<handling, history, failed>>

\* SyncUser::register_session() does nothing for a user who is logged out.
UserLoggedOut(t, l) ==
    /\ "log_out" \in Calls
    /\ Goto(t, l)
    /\ UNCHANGED <<members, client, handling, history, failed>>

(***************************************************************************)
(* The end of the get_session() that made the object, m_session_mutex      *)
(* held throughout.  An exception drops the external reference first and   *)
(* would release the mutex afterwards.                                     *)
(***************************************************************************)
CreateSession(t) ==
    /\ At(t, "create")
    /\ \/ /\ ReviveIfNeeded(t, "idle") \/ UserLoggedOut(t, "idle")
          /\ registryLock' = Nobody
          /\ UNCHANGED <<extRef, registered>>
       \/ /\ ReviveThrows(t, "dropped")
          /\ extRef' = FALSE
          /\ UNCHANGED <<registered, registryLock>>

\* SyncManager::get_session() that finds the object in the registry.
GetSession(t) ==
    /\ MayCall(t, "get_session")
    /\ registered
    /\ registryLock = Nobody
    /\ \/ /\ ReviveIfNeeded(t, "link") \/ UserLoggedOut(t, "link")
          /\ registryLock' = t
       \/ ReviveThrows(t, "idle") /\ UNCHANGED registryLock
    /\ UNCHANGED <<extRef, registered>>

\* Its last statement: external_reference(), then m_session_mutex is released.
ExternalReference(t) ==
    /\ At(t, "link")
    /\ extRef' = TRUE
    /\ registryLock' = Nobody
    /\ Goto(t, "idle")
    /\ UNCHANGED <<members, registered, client, handling, history, failed>>

\* SyncManager::get_existing_session() does not revive.
GetExistingSession(t) ==
    /\ MayCall(t, "get_existing_session")
    /\ registered
    /\ registryLock = Nobody
    /\ extRef' = TRUE
    /\ UNCHANGED <<members, registered, registryLock, client, control, handling,
                   history, failed>>

\* The last owner lets go of the ExternalReference; its destructor goes on.
DropExternalReference(t) ==
    /\ MayCall(t, "drop")
    /\ extRef
    /\ extRef' = FALSE
    /\ Goto(t, "dropped")
    /\ UNCHANGED <<members, registered, registryLock, client, handling, history,
                   failed>>

DidDropExternalReference(t) ==
    /\ At(t, "dropped")
    /\ \/ extRef /\ Goto(t, "idle")
          /\ UNCHANGED <<members, registry, client, handling, history, failed>>
       \/ ~extRef /\ Close(t)

-----------------------------------------------------------------------------
(* Calls of the application *)

Revive(t) ==
    /\ MayCall(t, "revive")
    /\ ReviveIfNeeded(t, "idle") \/ ReviveThrows(t, "idle")
    /\ UNCHANGED registry

LogOut(t) ==
    /\ MayCall(t, "log_out")
    /\ state # "inactive"
    /\ Deactivate(t, "idle", Queued)
    /\ UNCHANGED <<forced, client, handling>>

CloseSession(t) == MayCall(t, "close") /\ Close(t)

ShutdownAndWait(t) ==
    /\ MayCall(t, "shutdown_and_wait")
    /\ \/ /\ state # "inactive"
          /\ Deactivate(t, "terminations", Queued)
          /\ UNCHANGED <<forced, client, handling>>
       \/ /\ state = "inactive"
          /\ Goto(t, "terminations")
          /\ UNCHANGED <<members, registry, client, handling, history, failed>>

\* wait_for_session_terminations(): no handler of an old session is left.
WaitForTerminations(t) ==
    /\ At(t, "terminations")
    /\ \A x \in waiters : x.session = session
    /\ Goto(t, "idle")
    /\ UNCHANGED <<members, registry, client, handling, history, failed>>

(***************************************************************************)
(* update_configuration(): keep making the session inactive until it is    *)
(* found inactive, then revive it.                                         *)
(***************************************************************************)
UpdateConfiguration(t) ==
    /\ MayCall(t, "update_configuration") \/ At(t, "update")
    /\ \/ /\ state # "inactive"
          /\ Deactivate(t, "update", Queued)
          /\ UNCHANGED <<forced, client, handling>>
       \/ /\ state = "inactive"
          /\ Goto(t, "revive")
          /\ UNCHANGED <<members, registry, client, handling, history, failed>>

ReviveUpdated(t) ==
    /\ At(t, "revive")
    /\ ReviveIfNeeded(t, "idle") \/ ReviveThrows(t, "idle")
    /\ UNCHANGED registry

\* wait_for_upload_completion() and wait_for_download_completion().
WaitForCompletion(t, w) ==
    /\ MayCall(t, "wait")
    /\ asked[w] = -1
    /\ IF state # "inactive" /\ session = 0
       THEN Fail("null_session")
       ELSE /\ AddCompletionCallbacks({w}, session)
            /\ asked' = [asked EXCEPT ![w] = committed]
            /\ UNCHANGED <<state, session, made, conn, deaths, forced, registry,
                           committed, uploaded, control, handling, calls, outcome,
                           failed>>

(***************************************************************************)
(* nonsync_transact_notify() after a local commit.  Only the Active state  *)
(* passes it on; the committing Realm keeps an external reference.         *)
(***************************************************************************)
NonsyncTransactNotify(t) ==
    /\ MayCall(t, "commit")
    /\ extRef
    /\ state = "active"
    /\ committed < MaxCommits
    /\ IF session = 0
       THEN Fail("null_session")
       ELSE /\ committed' = committed + 1
            /\ UNCHANGED <<members, registry, waiters, uploaded, control, handling,
                           history, failed>>

(***************************************************************************)
(* The completion block of handle_refresh(), on the thread of the network  *)
(* transport.  After an error it waits and asks again, which changes       *)
(* nothing here.  An expired user's waits are called with the error of the *)
(* refresh, which is no error at all when the refresh succeeded.  m_session*)
(* is read without the mutex.                                              *)
(***************************************************************************)
HandleRefresh(t) ==
    /\ t \in Threads /\ Idle(t)
    /\ refreshing
    /\ refreshing' = FALSE
    /\ \/ \E r \in {"ok", "cancelled"} :
             CancelPendingWaits(t, r, "idle")
       \/ /\ Goto(t, IF session = 0 THEN "refreshed" ELSE "token")
          /\ UNCHANGED <<members, registry, client, history, failed>>
    /\ UNCHANGED <<event, saved, fileAction>>

\* advance_state(active) of handle_refresh().
ActivateRefreshed(t) ==
    /\ At(t, "refreshed")
    /\ \/ state = "active" /\ Fail("advance_state")
       \/ /\ state # "active"
          /\ ReviveIfNeeded(t, "idle") \/ ReviveThrows(t, "idle")
          /\ UNCHANGED registry

\* m_session->refresh() of handle_refresh().
RefreshToken(t) ==
    /\ At(t, "token")
    /\ IF session = 0
       THEN Fail("null_session")
       ELSE /\ Goto(t, "idle")
            /\ UNCHANGED <<members, registry, client, handling, history, failed>>

-----------------------------------------------------------------------------
(* The event loop thread: the connection state listener and handle_error() *)

\* The sync client calls the listener, which has yet to take m_state_mutex.
CallListener(e) ==
    /\ Idle(SyncThread)
    /\ session # 0
    /\ e \in Events
    /\ event' = e
    /\ Goto(SyncThread, "listener")
    /\ UNCHANGED <<members, registry, client, saved, refreshing, fileAction,
                   history, failed>>

ConnectionStateChanged ==
    /\ At(SyncThread, "listener")
    /\ conn' = event.conn
    /\ Goto(SyncThread, IF event.kind = "none" THEN "idle" ELSE "error")
    /\ UNCHANGED <<state, session, made, deaths, callbacks, counter, forced,
                   registry, client, handling, history, failed>>

\* The first block of handle_error(): Dying reacts to a fatal error itself.
HandleErrorInState ==
    /\ At(SyncThread, "error")
    /\ IF state = "dying" /\ event.fatal
       THEN /\ Deactivate(SyncThread, "classify", Queued)
            /\ UNCHANGED <<forced, client, handling>>
       ELSE /\ Goto(SyncThread, "classify")
            /\ UNCHANGED <<members, registry, client, handling, history, failed>>

\* is_client_reset_requested() in a mode that resyncs by itself.
Resyncs == event.kind = "client_reset" /\ ResyncMode # "manual"

(***************************************************************************)
(* Automatic client resync: the waits are moved aside while the session    *)
(* goes through Inactive ...                                               *)
(***************************************************************************)
HandleErrorResync ==
    /\ At(SyncThread, "classify")
    /\ Resyncs
    /\ IF state = "inactive"
       THEN Fail("advance_state")
       ELSE /\ forced' = TRUE
            /\ saved' = callbacks
            /\ Deactivate(SyncThread, "restore", {})
            /\ UNCHANGED <<client, event, refreshing, fileAction>>

\* ... and swapped back.  advance_state() left the mutex unlocked.
RestoreCallbacks ==
    /\ At(SyncThread, "restore")
    /\ callbacks' = saved
    /\ saved' = NoCallbacks
    /\ Goto(SyncThread, "revive")
    /\ UNCHANGED <<state, session, made, conn, deaths, counter, forced, registry,
                   client, event, refreshing, fileAction, history, failed>>

\* The switches over error_code.
HandleErrorCode ==
    /\ At(SyncThread, "classify")
    /\ ~Resyncs
    /\ \/ /\ event.kind = "ignored"
          /\ Goto(SyncThread, "idle")
          /\ UNCHANGED <<members, registry, client, handling, history, failed>>
       \/ event.kind = "token_expired" /\ Fail("token_expired")
       \/ /\ event.kind = "refresh"
          /\ refreshing' = TRUE
          /\ Goto(SyncThread, "idle")
          /\ UNCHANGED <<members, registry, client, event, saved, fileAction,
                         history, failed>>
       \/ /\ event.kind = "plain"
          /\ Goto(SyncThread, "final")
          /\ UNCHANGED <<members, registry, client, handling, history, failed>>
       \/ /\ event.kind = "bad_authentication"
          /\ CancelPendingWaits(SyncThread, "cancelled", "final")
          /\ UNCHANGED handling
       \/ /\ event.kind \in {"permission_denied", "client_reset", "client_file"}
          /\ fileAction' = IF event.kind = "permission_denied" THEN "delete"
                                                               ELSE "backup"
          /\ Goto(SyncThread, "final")
          /\ UNCHANGED <<members, registry, client, event, saved, refreshing,
                         history, failed>>

\* m_state is read without the mutex.
HandleErrorFinal ==
    /\ At(SyncThread, "final")
    /\ Goto(SyncThread, IF state = "inactive" THEN "idle" ELSE "next")
    /\ UNCHANGED <<members, registry, client, handling, history, failed>>

NextStateAfterError ==
    CASE event.kind = "bad_authentication" -> "none"
      [] event.kind \in {"permission_denied", "client_reset", "client_file"}
            -> "inactive"
      [] OTHER -> IF event.fatal THEN "error" ELSE "none"

\* The switch over next_state; the user's error handler ends the call.
HandleErrorNext ==
    /\ At(SyncThread, "next")
    /\ \/ /\ \/ NextStateAfterError = "error"
             \/ NextStateAfterError = "none" /\ CancelWaitsOnNonfatalError
          /\ CancelPendingWaits(SyncThread, "cancelled", "idle")
          /\ UNCHANGED handling
       \/ /\ NextStateAfterError = "inactive"
          /\ event.kind = "client_reset"
          /\ CancelPendingWaits(SyncThread, "cancelled", "advance")
          /\ UNCHANGED handling
       \/ /\ NextStateAfterError = "inactive"
          /\ event.kind # "client_reset"
          /\ Goto(SyncThread, "advance")
          /\ UNCHANGED <<members, registry, client, handling, history, failed>>
       \/ /\ NextStateAfterError = "none" /\ ~CancelWaitsOnNonfatalError
          /\ Goto(SyncThread, "idle")
          /\ UNCHANGED <<members, registry, client, handling, history, failed>>

HandleErrorAdvance ==
    /\ At(SyncThread, "advance")
    /\ Deactivate(SyncThread, "idle", Queued)
    /\ UNCHANGED <<forced, client, handling>>

-----------------------------------------------------------------------------
(* The sync client *)

Live(x) == x.session = session
\* A handler is due when its work is done, or when its session was destroyed.
Due(x) == Live(x) => (x.target <= uploaded)

\* The lambda of add_completion_callback(): extract(id), unlock, call.
CompletionHandler(x) ==
    /\ Idle(SyncThread)
    /\ x \in waiters /\ x.kind = "wait" /\ Due(x)
    /\ waiters' = waiters \ {x}
    /\ IF callbacks[x.wait] = x.n
       THEN /\ callbacks' = [callbacks EXCEPT ![x.wait] = 0]
            /\ CallWith(SyncThread, {x.wait}, IF Live(x) THEN "ok" ELSE "cancelled",
                        "complete", "idle")
       ELSE UNCHANGED <<callbacks, control>>
    /\ UNCHANGED <<state, session, made, conn, deaths, counter, forced, registry,
                   committed, uploaded, handling, history, failed>>

\* Mutant: the captured death count is not compared.
DeathIsAny(x) == state = "dying"

\* Is this handler the one of the current death?
DeathIsCurrent(x) == state = "dying" /\ deaths = x.n

\* The lambda of Dying::enter_state().
DeathHandler(x) ==
    /\ Idle(SyncThread)
    /\ x \in waiters /\ x.kind = "death" /\ Due(x)
    /\ IF DeathIsCurrent(x)
       THEN Deactivate(SyncThread, "idle", Queued) /\ UNCHANGED forced
       ELSE UNCHANGED <<members, registry, control, history, failed>>
    /\ waiters' = waiters \ {x}
    /\ UNCHANGED <<committed, uploaded, handling>>

MayUpload == uploaded < committed
Upload ==
    /\ failed = "no" /\ Alive
    /\ session # 0
    /\ MayUpload
    /\ uploaded' = uploaded + 1
    /\ UNCHANGED <<members, registry, waiters, committed, control, handling,
                   history, failed>>

-----------------------------------------------------------------------------
Init ==
    /\ state = "inactive"
    /\ session = 0 /\ made = 0
    /\ conn = "disconnected"
    /\ deaths = 0
    /\ callbacks = [w \in Waits |-> 0] /\ counter = 0
    /\ forced = FALSE
    /\ extRef = TRUE /\ registered = TRUE /\ registryLock = Creator
    /\ waiters = {} /\ committed = 0 /\ uploaded = 0
    /\ pc = [t \in All |-> IF t = Creator THEN "create" ELSE "idle"]
    /\ then = [t \in All |-> "idle"]
    /\ fire = [t \in All |-> {}]
    /\ result = [t \in All |-> "ok"]
    /\ event = Change("disconnected")
    /\ saved = [w \in Waits |-> 0]
    /\ refreshing = FALSE /\ fileAction = "none"
    /\ asked = [w \in Waits |-> -1]
    /\ calls = [w \in Waits |-> 0]
    /\ outcome = [w \in Waits |-> "none"]
    /\ failed = "no"

\* What a thread has begun, it goes on with.
Continue(t) ==
    \/ CreateSession(t) \/ ExternalReference(t) \/ DidDropExternalReference(t)
    \/ UnregisterSession(t) \/ CompleteWaits(t) \/ WaitForTerminations(t)
    \/ ReviveUpdated(t) \/ ActivateRefreshed(t) \/ RefreshToken(t)

Call(t) ==
    \/ GetSession(t) \/ GetExistingSession(t) \/ DropExternalReference(t)
    \/ Revive(t) \/ LogOut(t) \/ CloseSession(t) \/ ShutdownAndWait(t)
    \/ UpdateConfiguration(t) \/ NonsyncTransactNotify(t) \/ HandleRefresh(t)
    \/ \E w \in Waits : WaitForCompletion(t, w)

HandleEvent ==
    \/ ConnectionStateChanged \/ HandleErrorInState \/ HandleErrorResync
    \/ RestoreCallbacks \/ HandleErrorCode \/ HandleErrorFinal
    \/ HandleErrorNext \/ HandleErrorAdvance

Handler == \E x \in waiters : CompletionHandler(x) \/ DeathHandler(x)

Next ==
    \/ \E t \in All : Continue(t)
    \/ \E t \in Threads : Call(t)
    \/ \E e \in Events : CallListener(e)
    \/ HandleEvent
    \/ Handler
    \/ Upload

Spec == Init /\ [][Next]_vars

(***************************************************************************)
(* A thread in the middle of a call goes on, and gets m_session_mutex even  *)
(* if others keep taking it; the network lets changes through; the event   *)
(* loop gets to every handler that is due (it is a queue: a stream of      *)
(* other events may only delay it).                                        *)
(***************************************************************************)
FairSpec ==
    /\ Spec
    /\ \A t \in All : /\ WF_vars(Continue(t))
                      /\ SF_vars(UnregisterSession(t))
    /\ WF_vars(HandleEvent)
    /\ WF_vars(Upload)
    /\ SF_vars(Handler)

-----------------------------------------------------------------------------
(* What the session promises *)

\* Active and Dying have a sync::Session and Inactive has none, in every
\* interleaving of the critical sections (m_session is dereferenced unchecked
\* in Active, and shutdown_and_wait() relies on Inactive having dropped it).
SessionMatchesState == ~UrlRejected => (state = "inactive" <=> session = 0)

\* No callback given to wait_for_*_completion() is called twice, though waits
\* are handed from session to session and cancelled from several threads.
WaitCalledAtMostOnce == \A w \in Waits : calls[w] <= 1

\* Until it is called, a callback stays in the map or in the hands of a thread
\* that is about to call it (or, while resyncing, to put it back).
WaitNotLost ==
    \A w \in Waits : asked[w] # -1 /\ calls[w] = 0 =>
        \/ callbacks[w] # 0 \/ saved[w] # 0 \/ \E t \in All : w \in fire[t]

\* Every callback in the map of a running session has a handler of the current
\* sync::Session that will find it under its current id.
WaitsArmed ==
    session # 0 => \A w \in Queued : \E x \in waiters :
        Live(x) /\ x.kind = "wait" /\ x.wait = w /\ x.n = callbacks[w]

\* A dying session has the handler that will end it: reviving and dying again
\* never leaves it with handlers of earlier deaths only.
DyingHasHandler ==
    state = "dying" => \E x \in waiters :
        Live(x) /\ x.kind = "death" /\ x.n = deaths

\* A session closed under AfterChangesUploaded only stops by itself once all
\* the changes made before it was closed for the last time are uploaded.
UploadedBeforeStop ==
    [][state = "dying" /\ state' = "inactive"
         /\ pc[SyncThread] = "idle" /\ pc'[SyncThread] = "unregister"
         => uploaded = committed]_vars

\* An upload wait is only told of success when all that was committed before
\* it was asked for has been uploaded.
UploadWaitHonest ==
    \A w \in UploadWaits : outcome[w] = "ok" => uploaded >= asked[w]

\* A dying session does not stay dying.
DyingEnds == state = "dying" ~> (state # "dying" \/ failed # "no" \/ ~Alive)

\* A wait on a running session is answered.
WaitAnswered ==
    \A w \in Waits : (callbacks[w] # 0 /\ state # "inactive")
                        ~> (calls[w] > 0 \/ failed # "no" \/ ~Alive)

-----------------------------------------------------------------------------
(* What a comment of the code says, and its interleavings break *)

\* "If the session is being resurrected we should not close the session": once
\* the calls that fetch and drop references have returned, a session that has
\* an external reference is active.
ReferencedSessionActive ==
    (\A t \in All : pc[t] = "idle") /\ extRef => state = "active"
=============================================================================
