------------------------- MODULE SyncSessionProofs -------------------------
(***************************************************************************)
(* Proofs about SyncSession, for any number of threads and waits, any      *)
(* configuration, any set of calls and errors and any bounds.              *)
(***************************************************************************)
EXTENDS SyncSession, TLAPS

USE ThreadsAssumption, WaitsAssumption, ConfigAssumption

-----------------------------------------------------------------------------
(* Types *)

\* What add_completion_callback() stores is well typed.
LEMMA AddCompletionCallbacksType ==
    ASSUME TypeOK, NEW W \in SUBSET Waits, NEW s \in Nat,
           AddCompletionCallbacks(W, s)
    PROVE  /\ counter' \in Nat
           /\ callbacks' \in [Waits -> Nat]
           /\ waiters' \subseteq Handlers
  BY DEF TypeOK, MembersOK, ClientOK, Handlers, AddCompletionCallbacks,
         Completion, Target

\* The waits in the map are waits.
LEMMA QueuedType == Queued \in SUBSET Waits
  BY DEF Queued

\* A step of revive_if_needed(), with or without an exception.
LEMMA ReviveType ==
    ASSUME TypeOK, NEW t \in All, NEW l \in Locations,
           ReviveIfNeeded(t, l) \/ ReviveThrows(t, l)
    PROVE  /\ MembersOK' /\ ClientOK' /\ ControlOK' /\ HandlingOK' /\ HistoryOK'
           /\ forced' = forced /\ refreshing' = refreshing
<1>1. CASE state # "active" /\ Activate /\ Goto(t, l)
           /\ UNCHANGED <<handling, history, failed>>
  <2>1. SessionToUse \in Nat /\ AddCompletionCallbacks(Queued, SessionToUse)
    BY <1>1 DEF Activate, SessionToUse, TypeOK, MembersOK
  <2>2. /\ counter' \in Nat
        /\ callbacks' \in [Waits -> Nat]
        /\ waiters' \subseteq Handlers
    BY <2>1, AddCompletionCallbacksType, QueuedType
  <2> QED
    BY <1>1, <2>1, <2>2 DEF Activate, Goto, TypeOK, MembersOK, ClientOK, ControlOK,
       HandlingOK, HistoryOK, handling, history
<1>2. CASE UNCHANGED <<members, client, handling, history, failed>> /\ Goto(t, l)
  BY <1>2 DEF Goto, TypeOK, MembersOK, ClientOK, ControlOK, HandlingOK, HistoryOK,
     members, client, handling, history
<1>3. CASE ReviveThrows(t, l)
  BY <1>3 DEF ReviveThrows, ActivateThrows, Goto, TypeOK, MembersOK, ClientOK,
     ControlOK, HandlingOK, HistoryOK, client, handling, history
<1> QED
  BY <1>1, <1>2, <1>3 DEF ReviveIfNeeded

\* advance_state(inactive).
LEMMA DeactivateType ==
    ASSUME TypeOK, NEW t \in All, NEW l \in Locations,
           NEW W \in SUBSET Waits, Deactivate(t, l, W)
    PROVE  /\ MembersOK' /\ RegistryOK' /\ ControlOK' /\ HistoryOK'
           /\ extRef' = extRef /\ registered' = registered
  BY DEF Deactivate, CallWith, Fail, NoCallbacks, TypeOK, MembersOK, RegistryOK,
     ControlOK, HistoryOK, members, registry, client, control, handling, history,
     Connections, Locations

\* cancel_pending_waits().
LEMMA CancelPendingWaitsType ==
    ASSUME TypeOK, NEW t \in All, NEW l \in Locations,
           NEW r \in {"ok", "cancelled"}, CancelPendingWaits(t, r, l)
    PROVE  /\ MembersOK' /\ RegistryOK' /\ ClientOK' /\ ControlOK' /\ HistoryOK'
           /\ extRef' = extRef /\ registered' = registered /\ forced' = forced
  BY QueuedType DEF CancelPendingWaits, CallWith, Goto, NoCallbacks, TypeOK,
     MembersOK, RegistryOK, ClientOK, ControlOK, HistoryOK, registry, client, history,
     Locations

\* State::close().
LEMMA CloseType ==
    ASSUME TypeOK, NEW t \in All, Close(t)
    PROVE  TypeOK'
<1>1. CASE Deactivate(t, "idle", Queued) /\ UNCHANGED <<forced, client, handling>>
  <2>1. "idle" \in Locations
    BY DEF Locations
  <2> QED
    BY <1>1, <2>1, DeactivateType, QueuedType
       DEF TypeOK, FlagsOK, ClientOK, HandlingOK, client, handling
<1>2. CASE session # 0 /\ Die(t)
  BY <1>2 DEF Die, Death, Goto, TypeOK, MembersOK, RegistryOK, FlagsOK, ClientOK,
     ControlOK, HandlingOK, HistoryOK, Handlers, registry, handling, history, Locations
<1>3. CASE /\ CallWith(t, {}, "cancelled", "unregister", "idle") \/ Goto(t, "idle")
           /\ UNCHANGED <<members, registry, client, handling, history, failed>>
  BY <1>3 DEF CallWith, Goto, TypeOK, MembersOK, RegistryOK, FlagsOK, ClientOK,
     ControlOK, HandlingOK, HistoryOK, members, registry, client, handling, history,
     Locations
<1> QED
  BY <1>1, <1>2, <1>3 DEF Close, Die

\* Every critical section keeps the types, whichever thread runs it.
LEMMA TypeStep == TypeOK /\ [Next]_vars => TypeOK'
<1> SUFFICES ASSUME TypeOK, [Next]_vars PROVE TypeOK'
  OBVIOUS
<1>0. /\ {"idle", "link", "dropped", "terminations", "update", "classify", "restore",
          "final", "advance"} \subseteq Locations
      /\ SyncThread \in All /\ Threads \subseteq All
      /\ {} \in SUBSET Waits
  BY DEF Locations, All
<1>1. ASSUME NEW t \in All, CreateSession(t) PROVE TypeOK'
  <2>1. /\ \/ ReviveIfNeeded(t, "idle") \/ ReviveThrows(t, "dropped")
           \/ UserLoggedOut(t, "idle")
        /\ extRef' \in BOOLEAN /\ registered' \in BOOLEAN
        /\ registryLock' \in Threads \cup {Nobody}
    BY <1>1 DEF CreateSession, TypeOK, RegistryOK, FlagsOK
  <2>2. CASE UserLoggedOut(t, "idle")
    BY <2>1, <2>2 DEF UserLoggedOut, Goto, TypeOK, MembersOK, RegistryOK, FlagsOK,
       ClientOK, ControlOK, HandlingOK, HistoryOK, members, client, handling, history,
       Locations
  <2> QED
    BY <1>0, <2>1, <2>2, ReviveType DEF TypeOK, RegistryOK, FlagsOK
<1>2. ASSUME NEW t \in All, ExternalReference(t) PROVE TypeOK'
  BY <1>2 DEF ExternalReference, Goto,
     TypeOK, MembersOK, RegistryOK, FlagsOK, ClientOK, ControlOK,
     HandlingOK, HistoryOK, members, registry, client, control, handling, history,
     Locations
<1>3. ASSUME NEW t \in All, DidDropExternalReference(t) PROVE TypeOK'
  <2>1. CASE Close(t)
    BY <2>1, CloseType
  <2>2. CASE Goto(t, "idle") /\ UNCHANGED <<members, registry, client, handling,
                                            history, failed>>
    BY <2>2 DEF Goto, TypeOK, MembersOK, RegistryOK, FlagsOK, ClientOK, ControlOK,
     HandlingOK, HistoryOK, members, registry, client, control, handling, history,
     Locations
  <2> QED
    BY <1>3, <2>1, <2>2 DEF DidDropExternalReference
<1>4. ASSUME NEW t \in All, UnregisterSession(t) PROVE TypeOK'
  BY <1>4 DEF UnregisterSession, Return, Goto, Fail,
     TypeOK, MembersOK, RegistryOK, FlagsOK, ClientOK, ControlOK,
     HandlingOK, HistoryOK, members, registry, client, control, handling, history,
     Locations
<1>5. ASSUME NEW t \in All, CompleteWaits(t) PROVE TypeOK'
  BY <1>5 DEF CompleteWaits, Return,
     TypeOK, MembersOK, RegistryOK, FlagsOK, ClientOK, ControlOK,
     HandlingOK, HistoryOK, members, registry, client, control, handling, history,
     Locations
<1>6. ASSUME NEW t \in All, WaitForTerminations(t) PROVE TypeOK'
  BY <1>6 DEF WaitForTerminations, Goto,
     TypeOK, MembersOK, RegistryOK, FlagsOK, ClientOK, ControlOK,
     HandlingOK, HistoryOK, members, registry, client, control, handling, history,
     Locations
<1>7. ASSUME NEW t \in All, ReviveUpdated(t) PROVE TypeOK'
  BY <1>0, <1>7, ReviveType DEF ReviveUpdated, TypeOK, RegistryOK, FlagsOK, registry
<1>8. ASSUME NEW t \in All, ActivateRefreshed(t) PROVE TypeOK'
  <2>1. CASE Fail("advance_state")
    BY <2>1 DEF Fail, TypeOK, MembersOK, RegistryOK, FlagsOK, ClientOK, ControlOK,
     HandlingOK, HistoryOK, members, registry, client, control, handling, history,
     Locations
  <2> QED
    BY <1>0, <1>8, <2>1, ReviveType
       DEF ActivateRefreshed, TypeOK, RegistryOK, FlagsOK, registry
<1>9. ASSUME NEW t \in All, RefreshToken(t) PROVE TypeOK'
  BY <1>9 DEF RefreshToken, Goto, Fail,
     TypeOK, MembersOK, RegistryOK, FlagsOK, ClientOK, ControlOK,
     HandlingOK, HistoryOK, members, registry, client, control, handling, history,
     Locations
<1>10. ASSUME NEW t \in Threads, GetSession(t) PROVE TypeOK'
  <2>1. /\ \/ ReviveIfNeeded(t, "link") \/ ReviveThrows(t, "idle")
           \/ UserLoggedOut(t, "link")
        /\ registryLock' \in Threads \cup {Nobody}
        /\ UNCHANGED <<extRef, registered>>
    BY <1>10 DEF GetSession, TypeOK, RegistryOK
  <2>2. CASE UserLoggedOut(t, "link")
    BY <1>0, <2>1, <2>2 DEF UserLoggedOut, Goto, TypeOK, MembersOK, RegistryOK, FlagsOK,
       ClientOK, ControlOK, HandlingOK, HistoryOK, members, client, handling, history,
       Locations
  <2> QED
    BY <1>0, <2>1, <2>2, ReviveType DEF TypeOK, RegistryOK, FlagsOK
<1>11. ASSUME NEW t \in Threads, GetExistingSession(t) PROVE TypeOK'
  BY <1>11 DEF GetExistingSession,
     TypeOK, MembersOK, RegistryOK, FlagsOK, ClientOK, ControlOK,
     HandlingOK, HistoryOK, members, registry, client, control, handling, history,
     Locations
<1>12. ASSUME NEW t \in Threads, DropExternalReference(t) PROVE TypeOK'
  <2>1. extRef' \in BOOLEAN
    BY <1>12 DEF DropExternalReference
  <2> QED
    BY <1>0, <2>1, <1>12 DEF DropExternalReference, Goto, TypeOK, MembersOK, RegistryOK, FlagsOK, ClientOK, ControlOK,
     HandlingOK, HistoryOK, members, registry, client, control, handling, history,
     Locations
<1>13. ASSUME NEW t \in Threads, Revive(t) PROVE TypeOK'
  BY <1>0, <1>13, ReviveType DEF Revive, TypeOK, RegistryOK, FlagsOK, registry
<1>14. ASSUME NEW t \in Threads, LogOut(t) PROVE TypeOK'
  BY <1>0, <1>14, DeactivateType, QueuedType
     DEF LogOut, TypeOK, FlagsOK, ClientOK, HandlingOK, client, handling
<1>15. ASSUME NEW t \in Threads, CloseSession(t) PROVE TypeOK'
  BY <1>0, <1>15, CloseType DEF CloseSession
<1>16. ASSUME NEW t \in Threads, ShutdownAndWait(t) PROVE TypeOK'
  <2>1. CASE Deactivate(t, "terminations", Queued) /\ UNCHANGED <<forced, client, handling>>
    BY <1>0, <2>1, DeactivateType, QueuedType
       DEF TypeOK, FlagsOK, ClientOK, HandlingOK, client, handling
  <2>2. CASE Goto(t, "terminations") /\ UNCHANGED <<members, registry, client, handling,
                                         history, failed>>
    BY <1>0, <2>2 DEF Goto, TypeOK, MembersOK, RegistryOK, FlagsOK, ClientOK, ControlOK,
     HandlingOK, HistoryOK, members, registry, client, control, handling, history,
     Locations
  <2> QED
    BY <1>16, <2>1, <2>2 DEF ShutdownAndWait
<1>17. ASSUME NEW t \in Threads, UpdateConfiguration(t) PROVE TypeOK'
  <2>1. CASE Deactivate(t, "update", Queued) /\ UNCHANGED <<forced, client, handling>>
    BY <1>0, <2>1, DeactivateType, QueuedType
       DEF TypeOK, FlagsOK, ClientOK, HandlingOK, client, handling
  <2>2. CASE Goto(t, "revive") /\ UNCHANGED <<members, registry, client, handling,
                                         history, failed>>
    BY <1>0, <2>2 DEF Goto, TypeOK, MembersOK, RegistryOK, FlagsOK, ClientOK, ControlOK,
     HandlingOK, HistoryOK, members, registry, client, control, handling, history,
     Locations
  <2> QED
    BY <1>17, <2>1, <2>2 DEF UpdateConfiguration
<1>18. ASSUME NEW t \in Threads, NonsyncTransactNotify(t) PROVE TypeOK'
  <2>1. CASE Fail("null_session")
    BY <2>1 DEF Fail, TypeOK, MembersOK, RegistryOK, FlagsOK, ClientOK, ControlOK,
     HandlingOK, HistoryOK, members, registry, client, control, handling, history,
     Locations
  <2>2. CASE session # 0
    <3>1. committed' \in Nat /\ uploaded' \in 0..committed'
      BY <1>18, <2>2 DEF NonsyncTransactNotify, TypeOK, ClientOK
    <3> QED
    BY <1>18, <2>2, <3>1 DEF NonsyncTransactNotify, Fail, TypeOK, MembersOK, RegistryOK, FlagsOK, ClientOK, ControlOK,
     HandlingOK, HistoryOK, members, registry, client, control, handling, history,
     Locations
  <2> QED
    BY <1>18, <2>1, <2>2 DEF NonsyncTransactNotify
<1>19. ASSUME NEW t \in Threads, HandleRefresh(t) PROVE TypeOK'
  <2>1. refreshing' \in BOOLEAN /\ UNCHANGED <<event, saved, fileAction>>
    BY <1>19 DEF HandleRefresh
  <2>2. ASSUME NEW r \in {"ok", "cancelled"}, CancelPendingWaits(t, r, "idle")
        PROVE  TypeOK'
    BY <1>0, <2>1, <2>2, CancelPendingWaitsType DEF TypeOK, FlagsOK, HandlingOK
  <2>3. CASE /\ Goto(t, IF session = 0 THEN "refreshed" ELSE "token")
             /\ UNCHANGED <<members, registry, client, history, failed>>
    BY <1>0, <2>1, <2>3 DEF Goto, TypeOK, MembersOK, RegistryOK, FlagsOK, ClientOK, ControlOK,
     HandlingOK, HistoryOK, members, registry, client, control, handling, history,
     Locations
  <2> QED
    BY <1>19, <2>2, <2>3 DEF HandleRefresh
<1>20. ASSUME NEW t \in Threads, NEW w \in Waits, WaitForCompletion(t, w) PROVE TypeOK'
  <2>1. CASE Fail("null_session")
    BY <2>1 DEF Fail, TypeOK, MembersOK, RegistryOK, FlagsOK, ClientOK, ControlOK,
     HandlingOK, HistoryOK, members, registry, client, control, handling, history,
     Locations
  <2>2. CASE AddCompletionCallbacks({w}, session)
    <3>1. /\ counter' \in Nat
          /\ callbacks' \in [Waits -> Nat]
          /\ waiters' \subseteq Handlers
      BY <2>2, AddCompletionCallbacksType DEF TypeOK, MembersOK
    <3> QED
      BY <1>20, <3>1, <2>1 DEF WaitForCompletion, TypeOK, MembersOK, RegistryOK, FlagsOK, ClientOK, ControlOK,
     HandlingOK, HistoryOK, members, registry, client, control, handling, history,
     Locations
  <2> QED
    BY <1>20, <2>1, <2>2 DEF WaitForCompletion
<1>21. ASSUME NEW e \in Events, CallListener(e) PROVE TypeOK'
  <2>1. e \in [conn : Connections, kind : ErrorKinds \cup {"none"}, fatal : BOOLEAN]
    <3>1. ASSUME NEW c \in Changes, e = Change(c) PROVE e \in [conn : Connections, kind : ErrorKinds \cup {"none"}, fatal : BOOLEAN]
      BY <3>1 DEF Change
    <3>2. ASSUME NEW p \in Errors, e = ErrorEvent(p) PROVE e \in [conn : Connections, kind : ErrorKinds \cup {"none"}, fatal : BOOLEAN]
      BY <3>2 DEF ErrorEvent, Connections
    <3> QED
      BY <3>1, <3>2 DEF Events
  <2> QED
    BY <1>0, <2>1, <1>21 DEF CallListener, Goto, TypeOK, MembersOK, RegistryOK, FlagsOK, ClientOK, ControlOK,
     HandlingOK, HistoryOK, members, registry, client, control, handling, history,
     Locations
<1>22. CASE ConnectionStateChanged
  BY <1>22 DEF ConnectionStateChanged, Goto, All,
     TypeOK, MembersOK, RegistryOK, FlagsOK, ClientOK, ControlOK,
     HandlingOK, HistoryOK, members, registry, client, control, handling, history,
     Locations
<1>23. CASE HandleErrorInState
  <2>1. CASE Deactivate(SyncThread, "classify", Queued) /\ UNCHANGED <<forced, client, handling>>
    BY <1>0, <2>1, DeactivateType, QueuedType
       DEF TypeOK, FlagsOK, ClientOK, HandlingOK, client, handling
  <2>2. CASE Goto(SyncThread, "classify") /\ UNCHANGED <<members, registry, client, handling,
                                         history, failed>>
    BY <2>2 DEF Goto, All, TypeOK, MembersOK, RegistryOK, FlagsOK, ClientOK, ControlOK,
     HandlingOK, HistoryOK, members, registry, client, control, handling, history,
     Locations
  <2> QED
    BY <1>23, <2>1, <2>2 DEF HandleErrorInState
<1>24. CASE HandleErrorResync
  <2>1. CASE Fail("advance_state")
    BY <2>1 DEF Fail, TypeOK, MembersOK, RegistryOK, FlagsOK, ClientOK, ControlOK,
     HandlingOK, HistoryOK, members, registry, client, control, handling, history,
     Locations
  <2>2. CASE /\ Deactivate(SyncThread, "restore", {}) /\ saved' = callbacks
             /\ forced' = TRUE /\ UNCHANGED <<client, event, refreshing, fileAction>>
    <3>1. forced' \in BOOLEAN
      BY <2>2
    <3> QED
      BY <1>0, <2>2, <3>1, DeactivateType
         DEF TypeOK, MembersOK, FlagsOK, ClientOK, HandlingOK, client
  <2> QED
    BY <1>24, <2>1, <2>2 DEF HandleErrorResync
<1>25. CASE RestoreCallbacks
  BY <1>25 DEF RestoreCallbacks, NoCallbacks, Goto, All,
     TypeOK, MembersOK, RegistryOK, FlagsOK, ClientOK, ControlOK,
     HandlingOK, HistoryOK, members, registry, client, control, handling, history,
     Locations
<1>26. CASE HandleErrorCode
  <2>1. CASE CancelPendingWaits(SyncThread, "cancelled", "final") /\ UNCHANGED handling
    BY <1>0, <2>1, CancelPendingWaitsType DEF TypeOK, FlagsOK, HandlingOK, handling
  <2>2. CASE Fail("token_expired")
    BY <2>2 DEF Fail, TypeOK, MembersOK, RegistryOK, FlagsOK, ClientOK, ControlOK,
     HandlingOK, HistoryOK, members, registry, client, control, handling, history,
     Locations
  <2>3. CASE /\ \E l \in {"idle", "final"} : Goto(SyncThread, l)
             /\ refreshing' \in BOOLEAN
             /\ fileAction' \in {"none", "delete", "backup"}
             /\ UNCHANGED <<members, registry, client, event, saved, history, failed>>
    BY <1>0, <2>3 DEF Goto, TypeOK, MembersOK, RegistryOK, FlagsOK, ClientOK, ControlOK,
     HandlingOK, HistoryOK, members, registry, client, control, handling, history,
     Locations
  <2>4. refreshing \in BOOLEAN /\ fileAction \in {"none", "delete", "backup"}
    BY DEF TypeOK, FlagsOK, HandlingOK
  <2> QED
    BY <1>26, <2>1, <2>2, <2>3, <2>4 DEF HandleErrorCode, handling
<1>27. CASE HandleErrorFinal
  BY <1>27 DEF HandleErrorFinal, Goto, All,
     TypeOK, MembersOK, RegistryOK, FlagsOK, ClientOK, ControlOK,
     HandlingOK, HistoryOK, members, registry, client, control, handling, history,
     Locations
<1>28. CASE HandleErrorNext
  <2>1. CASE /\ \E l \in {"idle", "advance"} :
                    CancelPendingWaits(SyncThread, "cancelled", l)
             /\ UNCHANGED handling
    BY <1>0, <2>1, CancelPendingWaitsType DEF TypeOK, FlagsOK, HandlingOK, handling
  <2>2. CASE /\ \E l \in {"idle", "advance"} : Goto(SyncThread, l)
             /\ UNCHANGED <<members, registry, client, handling, history, failed>>
    BY <1>0, <2>2 DEF Goto, TypeOK, MembersOK, RegistryOK, FlagsOK, ClientOK, ControlOK,
     HandlingOK, HistoryOK, members, registry, client, control, handling, history,
     Locations
  <2> QED
    BY <1>28, <2>1, <2>2 DEF HandleErrorNext
<1>29. CASE HandleErrorAdvance
  BY <1>0, <1>29, DeactivateType, QueuedType
     DEF HandleErrorAdvance, TypeOK, FlagsOK, ClientOK, HandlingOK, client, handling
<1>30. ASSUME NEW x \in waiters, CompletionHandler(x) PROVE TypeOK'
  <2>1. waiters' \subseteq Handlers /\ x \in Handlers
    BY <1>30 DEF CompletionHandler, TypeOK, ClientOK
  <2>2. CASE UNCHANGED <<callbacks, control>>
    BY <1>30, <2>1, <2>2 DEF CompletionHandler, TypeOK, MembersOK, RegistryOK, FlagsOK, ClientOK, ControlOK,
     HandlingOK, HistoryOK, members, registry, client, control, handling, history,
     Locations
  <2>3. CASE callbacks[x.wait] = x.n /\ callbacks' = [callbacks EXCEPT ![x.wait] = 0]
    <3>1. CallWith(SyncThread, {x.wait}, IF Live(x) THEN "ok" ELSE "cancelled",
                   "complete", "idle")
      BY <1>30, <2>3 DEF CompletionHandler
    <3>2. x.wait \in Waits
      BY <1>30, <2>1 DEF CompletionHandler, Handlers
    <3> QED
      BY <1>0, <1>30, <2>1, <2>3, <3>1, <3>2 DEF CompletionHandler, CallWith, TypeOK, MembersOK, RegistryOK, FlagsOK, ClientOK, ControlOK,
     HandlingOK, HistoryOK, members, registry, client, control, handling, history,
     Locations
  <2> QED
    BY <1>30, <2>2, <2>3 DEF CompletionHandler
<1>31. ASSUME NEW x \in waiters, DeathHandler(x) PROVE TypeOK'
  <2>1. waiters' \subseteq Handlers /\ UNCHANGED <<committed, uploaded, handling>>
    BY <1>31 DEF DeathHandler, TypeOK, ClientOK
  <2>2. CASE Deactivate(SyncThread, "idle", Queued) /\ UNCHANGED forced
    BY <1>0, <2>1, <2>2, DeactivateType, QueuedType
       DEF TypeOK, FlagsOK, ClientOK, HandlingOK, handling
  <2>3. CASE UNCHANGED <<members, registry, control, history, failed>>
    BY <2>1, <2>3 DEF TypeOK, MembersOK, RegistryOK, FlagsOK, ClientOK, ControlOK,
     HandlingOK, HistoryOK, members, registry, client, control, handling, history,
     Locations
  <2> QED
    BY <1>31, <2>2, <2>3 DEF DeathHandler
<1>32. CASE Upload
  BY <1>32 DEF Upload, MayUpload,
     TypeOK, MembersOK, RegistryOK, FlagsOK, ClientOK, ControlOK,
     HandlingOK, HistoryOK, members, registry, client, control, handling, history,
     Locations
<1>33. CASE UNCHANGED vars
  BY <1>33 DEF vars,
     TypeOK, MembersOK, RegistryOK, FlagsOK, ClientOK, ControlOK,
     HandlingOK, HistoryOK, members, registry, client, control, handling, history,
     Locations
<1> QED
  BY <1>1, <1>2, <1>3, <1>4, <1>5, <1>6, <1>7, <1>8, <1>9, <1>10, <1>11, <1>12, <1>13, <1>14, <1>15, <1>16, <1>17, <1>18, <1>19, <1>20, <1>21, <1>22, <1>23, <1>24, <1>25, <1>26, <1>27, <1>28, <1>29, <1>30, <1>31, <1>32, <1>33
     DEF Next, Continue, Call, HandleEvent, Handler

-----------------------------------------------------------------------------
(* The state machine and the handlers of its deaths *)

(***************************************************************************)
(* m_session follows m_state, a dying session has a handler of its current *)
(* death, and that handler waits for everything committed so far: no       *)
(* commit is passed on while dying, and an older handler has a smaller     *)
(* count.                                                                  *)
(***************************************************************************)
DeathInv ==
    /\ state = "inactive" => session = 0
    /\ state = "dying" => session # 0
    /\ state = "active" /\ ~UrlRejected => session # 0
    /\ \A x \in waiters : x.kind = "death" =>
         /\ x.n <= deaths
         /\ state = "dying" /\ x.n = deaths =>
              x.session = session /\ x.target = committed
    /\ state = "dying" => \E x \in waiters : x.kind = "death" /\ x.n = deaths

\* close() hands a dying session the handler that ends it.
LEMMA CloseDeath ==
    ASSUME TypeOK, DeathInv, NEW t \in All, Close(t)
    PROVE  DeathInv'
<1>1. CASE Deactivate(t, "idle", Queued) /\ UNCHANGED <<forced, client, handling>>
  BY <1>1 DEF Deactivate, CallWith, Fail, TypeOK, MembersOK, ClientOK, Handlers,
     DeathInv, members, registry, client, control, handling, history
<1>2. CASE session # 0 /\ Die(t)
  <2>1. /\ state' = "dying" /\ deaths' = deaths + 1
        /\ UNCHANGED <<session, committed>>
        /\ waiters' = waiters \cup {Death(session, deaths + 1, committed)}
    BY <1>2 DEF Die
  <2>2. Death(session, deaths + 1, committed) \in waiters'
    BY <2>1
  <2>3. \A x \in waiters' : x.kind = "death" =>
           /\ x.n <= deaths'
           /\ x.n = deaths' => x.session = session' /\ x.target = committed'
    <3> SUFFICES ASSUME NEW x \in waiters', x.kind = "death"
                 PROVE  /\ x.n <= deaths'
                        /\ x.n = deaths' => x.session = session' /\ x.target = committed'
      OBVIOUS
    <3>1. CASE x \in waiters
      BY <2>1, <3>1 DEF DeathInv, TypeOK, MembersOK, ClientOK, Handlers
    <3>2. CASE x = Death(session, deaths + 1, committed)
      BY <2>1, <3>2 DEF Death, TypeOK, MembersOK
    <3> QED
      BY <2>1, <3>1, <3>2
  <2> QED
    BY <1>2, <2>1, <2>2, <2>3 DEF DeathInv, Death
<1>3. CASE UNCHANGED <<members, client>>
  BY <1>3 DEF DeathInv, members, client
<1> QED
  BY <1>1, <1>2, <1>3 DEF Close, Die

\* Every step keeps the handlers of the deaths in order.
LEMMA DeathStep == TypeOK /\ DeathInv /\ [Next]_vars => DeathInv'
<1> SUFFICES ASSUME TypeOK, DeathInv, [Next]_vars PROVE DeathInv'
  OBVIOUS
<1> USE DEF TypeOK, MembersOK, ClientOK, Handlers, DeathInv, members, registry, client, control, handling, history
<1>1. ASSUME NEW t \in All, CreateSession(t) PROVE DeathInv'
  BY <1>1 DEF CreateSession, ReviveIfNeeded, Activate, ActivateThrows, ReviveThrows,
     AddCompletionCallbacks, SessionToUse, Completion, Target, Goto, UserLoggedOut
<1>2. ASSUME NEW t \in All, ExternalReference(t) PROVE DeathInv'
  BY <1>2 DEF ExternalReference, Goto
<1>3. ASSUME NEW t \in All, DidDropExternalReference(t) PROVE DeathInv'
  <2>1. CASE Close(t)
    BY <2>1, CloseDeath
  <2>2. CASE UNCHANGED <<members, client>>
    BY <2>2
  <2> QED
    BY <1>3, <2>1, <2>2 DEF DidDropExternalReference
<1>4. ASSUME NEW t \in All, UnregisterSession(t) PROVE DeathInv'
  BY <1>4 DEF UnregisterSession, Return, Goto, Fail
<1>5. ASSUME NEW t \in All, CompleteWaits(t) PROVE DeathInv'
  BY <1>5 DEF CompleteWaits, Return
<1>6. ASSUME NEW t \in All, WaitForTerminations(t) PROVE DeathInv'
  BY <1>6 DEF WaitForTerminations, Goto
<1>7. ASSUME NEW t \in All, ReviveUpdated(t) PROVE DeathInv'
  BY <1>7 DEF ReviveUpdated, ReviveIfNeeded, Activate, ActivateThrows, ReviveThrows,
     AddCompletionCallbacks, SessionToUse, Completion, Target, Goto
<1>8. ASSUME NEW t \in All, ActivateRefreshed(t) PROVE DeathInv'
  BY <1>8 DEF ActivateRefreshed, ReviveIfNeeded, Activate, ActivateThrows, ReviveThrows,
     AddCompletionCallbacks, SessionToUse, Completion, Target, Goto, Fail
<1>9. ASSUME NEW t \in All, RefreshToken(t) PROVE DeathInv'
  BY <1>9 DEF RefreshToken, Goto, Fail
<1>10. ASSUME NEW t \in Threads, GetSession(t) PROVE DeathInv'
  BY <1>10 DEF GetSession, ReviveIfNeeded, Activate, ActivateThrows, ReviveThrows,
     AddCompletionCallbacks, SessionToUse, Completion, Target, Goto, UserLoggedOut
<1>11. ASSUME NEW t \in Threads, GetExistingSession(t) PROVE DeathInv'
  BY <1>11 DEF GetExistingSession
<1>12. ASSUME NEW t \in Threads, DropExternalReference(t) PROVE DeathInv'
  BY <1>12 DEF DropExternalReference, Goto
<1>13. ASSUME NEW t \in Threads, Revive(t) PROVE DeathInv'
  BY <1>13 DEF Revive, ReviveIfNeeded, Activate, ActivateThrows, ReviveThrows,
     AddCompletionCallbacks, SessionToUse, Completion, Target, Goto
<1>14. ASSUME NEW t \in Threads, LogOut(t) PROVE DeathInv'
  BY <1>14 DEF LogOut, Deactivate, CallWith, Fail
<1>15. ASSUME NEW t \in Threads, CloseSession(t) PROVE DeathInv'
  <2>1. t \in All
    BY DEF All
  <2> QED
    BY <1>15, <2>1, CloseDeath DEF CloseSession
<1>16. ASSUME NEW t \in Threads, ShutdownAndWait(t) PROVE DeathInv'
  BY <1>16 DEF ShutdownAndWait, Deactivate, CallWith, Fail, Goto
<1>17. ASSUME NEW t \in Threads, UpdateConfiguration(t) PROVE DeathInv'
  BY <1>17 DEF UpdateConfiguration, Deactivate, CallWith, Fail, Goto
<1>18. ASSUME NEW t \in Threads, NonsyncTransactNotify(t) PROVE DeathInv'
  BY <1>18 DEF NonsyncTransactNotify, Fail
<1>19. ASSUME NEW t \in Threads, HandleRefresh(t) PROVE DeathInv'
  BY <1>19 DEF HandleRefresh, CancelPendingWaits, CallWith, Goto
<1>20. ASSUME NEW t \in Threads, NEW w \in Waits, WaitForCompletion(t, w) PROVE DeathInv'
  BY <1>20 DEF WaitForCompletion, AddCompletionCallbacks, Completion, Target, Fail
<1>21. ASSUME NEW e \in Events, CallListener(e) PROVE DeathInv'
  BY <1>21 DEF CallListener, Goto
<1>22. CASE ConnectionStateChanged
  BY <1>22 DEF ConnectionStateChanged, Goto
<1>23. CASE HandleErrorInState
  BY <1>23 DEF HandleErrorInState, Deactivate, CallWith, Fail, Goto
<1>24. CASE HandleErrorResync
  BY <1>24 DEF HandleErrorResync, Deactivate, CallWith, Fail
<1>25. CASE RestoreCallbacks
  BY <1>25 DEF RestoreCallbacks, Goto
<1>26. CASE HandleErrorCode
  BY <1>26 DEF HandleErrorCode, CancelPendingWaits, CallWith, Goto, Fail
<1>27. CASE HandleErrorFinal
  BY <1>27 DEF HandleErrorFinal, Goto
<1>28. CASE HandleErrorNext
  BY <1>28 DEF HandleErrorNext, CancelPendingWaits, CallWith, Goto
<1>29. CASE HandleErrorAdvance
  BY <1>29 DEF HandleErrorAdvance, Deactivate, CallWith, Fail
<1>30. ASSUME NEW x \in waiters, CompletionHandler(x) PROVE DeathInv'
  BY <1>30 DEF CompletionHandler, CallWith
<1>31. ASSUME NEW x \in waiters, DeathHandler(x) PROVE DeathInv'
  BY <1>31 DEF DeathHandler, DeathIsCurrent, Due, Live, Deactivate, CallWith, Fail
<1>32. CASE Upload
  BY <1>32 DEF Upload, MayUpload
<1>33. CASE UNCHANGED vars
  BY <1>33 DEF vars
<1> QED
  BY <1>1, <1>2, <1>3, <1>4, <1>5, <1>6, <1>7, <1>8, <1>9, <1>10, <1>11, <1>12, <1>13, <1>14, <1>15, <1>16, <1>17, <1>18, <1>19, <1>20, <1>21, <1>22, <1>23, <1>24, <1>25, <1>26, <1>27, <1>28, <1>29, <1>30, <1>31, <1>32, <1>33
     DEF Next, Continue, Call, HandleEvent, Handler

-----------------------------------------------------------------------------
(* Where a wait is *)

\* A thread that has waits to call is on its way to calling them.
FireInv ==
    \A t \in All : pc[t] \notin {"unregister", "complete"} => fire[t] = {}

(***************************************************************************)
(* A wait that was asked for and not yet called is in at most one place:   *)
(* the map, the local map of handle_error() or the hands of one thread.    *)
(***************************************************************************)
PlaceInv ==
    \A w \in Waits :
      /\ calls[w] <= 1
      /\ asked[w] = -1 => calls[w] = 0
      /\ calls[w] = 1 \/ asked[w] = -1 =>
           callbacks[w] = 0 /\ saved[w] = 0 /\ \A t \in All : w \notin fire[t]
      /\ callbacks[w] # 0 => saved[w] = 0 /\ \A t \in All : w \notin fire[t]
      /\ saved[w] # 0 => \A t \in All : w \notin fire[t]
      /\ \A t, u \in All : w \in fire[t] /\ w \in fire[u] => t = u

\* Only a thread that took waits out of the map holds any.
LEMMA FireStep == TypeOK /\ FireInv /\ [Next]_vars => FireInv'
<1> SUFFICES ASSUME TypeOK, FireInv, [Next]_vars PROVE FireInv'
  OBVIOUS
<1> USE DEF TypeOK, ControlOK, All, FireInv, At, Idle, MayCall, members, registry, client, control, handling, history
<1>1. ASSUME NEW t \in All, CreateSession(t) PROVE FireInv'
  BY <1>1 DEF CreateSession, ReviveIfNeeded, Activate, ActivateThrows, ReviveThrows,
     AddCompletionCallbacks, SessionToUse, Completion, Target, Goto, UserLoggedOut
<1>2. ASSUME NEW t \in All, ExternalReference(t) PROVE FireInv'
  BY <1>2 DEF ExternalReference, Goto
<1>3. ASSUME NEW t \in All, DidDropExternalReference(t) PROVE FireInv'
  BY <1>3 DEF DidDropExternalReference, Close, Die, Death, Deactivate, CallWith, Fail, Goto
<1>4. ASSUME NEW t \in All, UnregisterSession(t) PROVE FireInv'
  BY <1>4 DEF UnregisterSession, Return, Goto, Fail
<1>5. ASSUME NEW t \in All, CompleteWaits(t) PROVE FireInv'
  BY <1>5 DEF CompleteWaits, Return
<1>6. ASSUME NEW t \in All, WaitForTerminations(t) PROVE FireInv'
  BY <1>6 DEF WaitForTerminations, Goto
<1>7. ASSUME NEW t \in All, ReviveUpdated(t) PROVE FireInv'
  BY <1>7 DEF ReviveUpdated, ReviveIfNeeded, Activate, ActivateThrows, ReviveThrows,
     AddCompletionCallbacks, SessionToUse, Completion, Target, Goto
<1>8. ASSUME NEW t \in All, ActivateRefreshed(t) PROVE FireInv'
  BY <1>8 DEF ActivateRefreshed, ReviveIfNeeded, Activate, ActivateThrows, ReviveThrows,
     AddCompletionCallbacks, SessionToUse, Completion, Target, Goto, Fail
<1>9. ASSUME NEW t \in All, RefreshToken(t) PROVE FireInv'
  BY <1>9 DEF RefreshToken, Goto, Fail
<1>10. ASSUME NEW t \in Threads, GetSession(t) PROVE FireInv'
  BY <1>10 DEF GetSession, ReviveIfNeeded, Activate, ActivateThrows, ReviveThrows,
     AddCompletionCallbacks, SessionToUse, Completion, Target, Goto, UserLoggedOut
<1>11. ASSUME NEW t \in Threads, GetExistingSession(t) PROVE FireInv'
  BY <1>11 DEF GetExistingSession
<1>12. ASSUME NEW t \in Threads, DropExternalReference(t) PROVE FireInv'
  BY <1>12 DEF DropExternalReference, Goto
<1>13. ASSUME NEW t \in Threads, Revive(t) PROVE FireInv'
  BY <1>13 DEF Revive, ReviveIfNeeded, Activate, ActivateThrows, ReviveThrows,
     AddCompletionCallbacks, SessionToUse, Completion, Target, Goto
<1>14. ASSUME NEW t \in Threads, LogOut(t) PROVE FireInv'
  BY <1>14 DEF LogOut, Deactivate, CallWith, Fail
<1>15. ASSUME NEW t \in Threads, CloseSession(t) PROVE FireInv'
  BY <1>15 DEF CloseSession, Close, Die, Death, Deactivate, CallWith, Fail, Goto
<1>16. ASSUME NEW t \in Threads, ShutdownAndWait(t) PROVE FireInv'
  BY <1>16 DEF ShutdownAndWait, Deactivate, CallWith, Fail, Goto
<1>17. ASSUME NEW t \in Threads, UpdateConfiguration(t) PROVE FireInv'
  BY <1>17 DEF UpdateConfiguration, Deactivate, CallWith, Fail, Goto
<1>18. ASSUME NEW t \in Threads, NonsyncTransactNotify(t) PROVE FireInv'
  BY <1>18 DEF NonsyncTransactNotify, Fail
<1>19. ASSUME NEW t \in Threads, HandleRefresh(t) PROVE FireInv'
  BY <1>19 DEF HandleRefresh, CancelPendingWaits, CallWith, Goto
<1>20. ASSUME NEW t \in Threads, NEW w \in Waits, WaitForCompletion(t, w) PROVE FireInv'
  BY <1>20 DEF WaitForCompletion, AddCompletionCallbacks, Completion, Target, Fail
<1>21. ASSUME NEW e \in Events, CallListener(e) PROVE FireInv'
  BY <1>21 DEF CallListener, Goto
<1>22. CASE ConnectionStateChanged
  BY <1>22 DEF ConnectionStateChanged, Goto
<1>23. CASE HandleErrorInState
  BY <1>23 DEF HandleErrorInState, Deactivate, CallWith, Fail, Goto
<1>24. CASE HandleErrorResync
  BY <1>24 DEF HandleErrorResync, Deactivate, CallWith, Fail
<1>25. CASE RestoreCallbacks
  BY <1>25 DEF RestoreCallbacks, Goto
<1>26. CASE HandleErrorCode
  BY <1>26 DEF HandleErrorCode, CancelPendingWaits, CallWith, Goto, Fail
<1>27. CASE HandleErrorFinal
  BY <1>27 DEF HandleErrorFinal, Goto
<1>28. CASE HandleErrorNext
  BY <1>28 DEF HandleErrorNext, CancelPendingWaits, CallWith, Goto
<1>29. CASE HandleErrorAdvance
  BY <1>29 DEF HandleErrorAdvance, Deactivate, CallWith, Fail
<1>30. ASSUME NEW x \in waiters, CompletionHandler(x) PROVE FireInv'
  BY <1>30 DEF CompletionHandler, CallWith
<1>31. ASSUME NEW x \in waiters, DeathHandler(x) PROVE FireInv'
  BY <1>31 DEF DeathHandler, DeathIsCurrent, Due, Live, Deactivate, CallWith, Fail
<1>32. CASE Upload
  BY <1>32 DEF Upload, MayUpload
<1>33. CASE UNCHANGED vars
  BY <1>33 DEF vars
<1> QED
  BY <1>1, <1>2, <1>3, <1>4, <1>5, <1>6, <1>7, <1>8, <1>9, <1>10, <1>11, <1>12, <1>13, <1>14, <1>15, <1>16, <1>17, <1>18, <1>19, <1>20, <1>21, <1>22, <1>23, <1>24, <1>25, <1>26, <1>27, <1>28, <1>29, <1>30, <1>31, <1>32, <1>33
     DEF Next, Continue, Call, HandleEvent, Handler

\* No step duplicates a wait.
LEMMA PlaceStep == TypeOK /\ FireInv /\ PlaceInv /\ [Next]_vars => PlaceInv'
<1> SUFFICES ASSUME TypeOK, FireInv, PlaceInv, [Next]_vars PROVE PlaceInv'
  OBVIOUS
<1> USE DEF TypeOK, MembersOK, ClientOK, Handlers, ControlOK, HandlingOK, HistoryOK,
            All, FireInv, PlaceInv, At, Idle, MayCall, Queued, NoCallbacks,
            members, registry, client, control, handling, history
<1>1. ASSUME NEW t \in All, CreateSession(t) PROVE PlaceInv'
  BY <1>1 DEF CreateSession, ReviveIfNeeded, Activate, ActivateThrows, ReviveThrows,
     AddCompletionCallbacks, SessionToUse, Completion, Target, Goto, UserLoggedOut
<1>2. ASSUME NEW t \in All, ExternalReference(t) PROVE PlaceInv'
  BY <1>2 DEF ExternalReference, Goto
<1>3. ASSUME NEW t \in All, DidDropExternalReference(t) PROVE PlaceInv'
  BY <1>3 DEF DidDropExternalReference, Close, Die, Death, Deactivate, CallWith, Fail, Goto
<1>4. ASSUME NEW t \in All, UnregisterSession(t) PROVE PlaceInv'
  BY <1>4 DEF UnregisterSession, Return, Goto, Fail
<1>5. ASSUME NEW t \in All, CompleteWaits(t) PROVE PlaceInv'
  <2>1. UNCHANGED <<callbacks, saved, asked>>
    BY <1>5 DEF CompleteWaits
  <2>2. /\ fire' = [fire EXCEPT ![t] = {}]
        /\ calls' = [w \in Waits |-> IF w \in fire[t] THEN calls[w] + 1 ELSE calls[w]]
    BY <1>5 DEF CompleteWaits, Return
  <2>3. ASSUME NEW w \in Waits, w \in fire[t]
        PROVE  /\ calls'[w] = 1 /\ asked[w] # -1
               /\ callbacks[w] = 0 /\ saved[w] = 0 /\ \A u \in All : w \notin fire'[u]
    <3>1. calls[w] = 0 /\ asked[w] # -1 /\ callbacks[w] = 0 /\ saved[w] = 0
      BY <2>3
    <3>2. \A u \in All : u # t => w \notin fire[u]
      BY <2>3
    <3> QED
      BY <2>2, <2>3, <3>1, <3>2
  <2>4. ASSUME NEW w \in Waits, w \notin fire[t]
        PROVE  calls'[w] = calls[w] /\ \A u \in All : w \in fire'[u] <=> w \in fire[u]
    BY <2>2, <2>4
  <2> QED
    BY <2>1, <2>3, <2>4
<1>6. ASSUME NEW t \in All, WaitForTerminations(t) PROVE PlaceInv'
  BY <1>6 DEF WaitForTerminations, Goto
<1>7. ASSUME NEW t \in All, ReviveUpdated(t) PROVE PlaceInv'
  BY <1>7 DEF ReviveUpdated, ReviveIfNeeded, Activate, ActivateThrows, ReviveThrows,
     AddCompletionCallbacks, SessionToUse, Completion, Target, Goto
<1>8. ASSUME NEW t \in All, ActivateRefreshed(t) PROVE PlaceInv'
  BY <1>8 DEF ActivateRefreshed, ReviveIfNeeded, Activate, ActivateThrows, ReviveThrows,
     AddCompletionCallbacks, SessionToUse, Completion, Target, Goto, Fail
<1>9. ASSUME NEW t \in All, RefreshToken(t) PROVE PlaceInv'
  BY <1>9 DEF RefreshToken, Goto, Fail
<1>10. ASSUME NEW t \in Threads, GetSession(t) PROVE PlaceInv'
  BY <1>10 DEF GetSession, ReviveIfNeeded, Activate, ActivateThrows, ReviveThrows,
     AddCompletionCallbacks, SessionToUse, Completion, Target, Goto, UserLoggedOut
<1>11. ASSUME NEW t \in Threads, GetExistingSession(t) PROVE PlaceInv'
  BY <1>11 DEF GetExistingSession
<1>12. ASSUME NEW t \in Threads, DropExternalReference(t) PROVE PlaceInv'
  BY <1>12 DEF DropExternalReference, Goto
<1>13. ASSUME NEW t \in Threads, Revive(t) PROVE PlaceInv'
  BY <1>13 DEF Revive, ReviveIfNeeded, Activate, ActivateThrows, ReviveThrows,
     AddCompletionCallbacks, SessionToUse, Completion, Target, Goto
<1>14. ASSUME NEW t \in Threads, LogOut(t) PROVE PlaceInv'
  BY <1>14 DEF LogOut, Deactivate, CallWith, Fail
<1>15. ASSUME NEW t \in Threads, CloseSession(t) PROVE PlaceInv'
  BY <1>15 DEF CloseSession, Close, Die, Death, Deactivate, CallWith, Fail, Goto
<1>16. ASSUME NEW t \in Threads, ShutdownAndWait(t) PROVE PlaceInv'
  BY <1>16 DEF ShutdownAndWait, Deactivate, CallWith, Fail, Goto
<1>17. ASSUME NEW t \in Threads, UpdateConfiguration(t) PROVE PlaceInv'
  BY <1>17 DEF UpdateConfiguration, Deactivate, CallWith, Fail, Goto
<1>18. ASSUME NEW t \in Threads, NonsyncTransactNotify(t) PROVE PlaceInv'
  BY <1>18 DEF NonsyncTransactNotify, Fail
<1>19. ASSUME NEW t \in Threads, HandleRefresh(t) PROVE PlaceInv'
  BY <1>19 DEF HandleRefresh, CancelPendingWaits, CallWith, Goto
<1>20. ASSUME NEW t \in Threads, NEW w \in Waits, WaitForCompletion(t, w) PROVE PlaceInv'
  BY <1>20 DEF WaitForCompletion, AddCompletionCallbacks, Completion, Target, Fail
<1>21. ASSUME NEW e \in Events, CallListener(e) PROVE PlaceInv'
  BY <1>21 DEF CallListener, Goto
<1>22. CASE ConnectionStateChanged
  BY <1>22 DEF ConnectionStateChanged, Goto
<1>23. CASE HandleErrorInState
  BY <1>23 DEF HandleErrorInState, Deactivate, CallWith, Fail, Goto
<1>24. CASE HandleErrorResync
  BY <1>24 DEF HandleErrorResync, Deactivate, CallWith, Fail
<1>25. CASE RestoreCallbacks
  BY <1>25 DEF RestoreCallbacks, Goto
<1>26. CASE HandleErrorCode
  BY <1>26 DEF HandleErrorCode, CancelPendingWaits, CallWith, Goto, Fail
<1>27. CASE HandleErrorFinal
  BY <1>27 DEF HandleErrorFinal, Goto
<1>28. CASE HandleErrorNext
  BY <1>28 DEF HandleErrorNext, CancelPendingWaits, CallWith, Goto
<1>29. CASE HandleErrorAdvance
  BY <1>29 DEF HandleErrorAdvance, Deactivate, CallWith, Fail
<1>30. ASSUME NEW x \in waiters, CompletionHandler(x) PROVE PlaceInv'
  <2>1. CASE UNCHANGED <<callbacks, control>>
    BY <1>30, <2>1 DEF CompletionHandler
  <2>2. CASE /\ callbacks[x.wait] = x.n
             /\ callbacks' = [callbacks EXCEPT ![x.wait] = 0]
             /\ CallWith(SyncThread, {x.wait}, IF Live(x) THEN "ok" ELSE "cancelled",
                         "complete", "idle")
    <3>1. x.wait \in Waits /\ fire[SyncThread] = {} /\ UNCHANGED <<saved, asked, calls>>
      BY <1>30 DEF CompletionHandler
    <3>2. fire' = [fire EXCEPT ![SyncThread] = {x.wait}]
      BY <2>2 DEF CallWith
    <3>3. callbacks[x.wait] # 0
      BY <1>30, <2>2 DEF CompletionHandler
    <3>4. ASSUME NEW w \in Waits, w # x.wait
          PROVE  callbacks'[w] = callbacks[w]
                 /\ \A u \in All : w \in fire'[u] <=> w \in fire[u]
      BY <2>2, <3>1, <3>2, <3>4
    <3>5. /\ callbacks'[x.wait] = 0
          /\ \A u \in All : x.wait \in fire'[u] <=> u = SyncThread
      BY <2>2, <3>1, <3>2, <3>3
    <3> QED
      BY <3>1, <3>3, <3>4, <3>5
  <2> QED
    BY <1>30, <2>1, <2>2 DEF CompletionHandler
<1>31. ASSUME NEW x \in waiters, DeathHandler(x) PROVE PlaceInv'
  BY <1>31 DEF DeathHandler, DeathIsCurrent, Due, Live, Deactivate, CallWith, Fail
<1>32. CASE Upload
  BY <1>32 DEF Upload, MayUpload
<1>33. CASE UNCHANGED vars
  BY <1>33 DEF vars
<1> QED
  BY <1>1, <1>2, <1>3, <1>4, <1>5, <1>6, <1>7, <1>8, <1>9, <1>10, <1>11, <1>12, <1>13, <1>14, <1>15, <1>16, <1>17, <1>18, <1>19, <1>20, <1>21, <1>22, <1>23, <1>24, <1>25, <1>26, <1>27, <1>28, <1>29, <1>30, <1>31, <1>32, <1>33
     DEF Next, Continue, Call, HandleEvent, Handler

-----------------------------------------------------------------------------
(* Without automatic resync no wait is lost and every wait is armed *)

\* The waits stay in the map until a thread takes them out to call them.
KeptInv ==
    /\ \A t \in All : pc[t] # "restore" /\ then[t] # "restore"
    /\ \A w \in Waits : saved[w] = 0
    /\ \A w \in Waits : asked[w] # -1 /\ calls[w] = 0 =>
         callbacks[w] # 0 \/ \E t \in All : w \in fire[t]

\* Every wait in the map of a running session has its handler.
ArmedInv ==
    session # 0 => \A w \in Waits : callbacks[w] # 0 => \E x \in waiters :
        /\ x.session = session /\ x.kind = "wait"
        /\ x.wait = w /\ x.n = callbacks[w]

\* No step loses a wait.
LEMMA KeptStep ==
    ASSUME ResyncMode = "manual"
    PROVE  TypeOK /\ FireInv /\ KeptInv /\ [Next]_vars => KeptInv'
<1> SUFFICES ASSUME TypeOK, FireInv, KeptInv, [Next]_vars PROVE KeptInv'
  OBVIOUS
<1> USE DEF TypeOK, MembersOK, ClientOK, Handlers, ControlOK, HandlingOK, HistoryOK,
            All, FireInv, KeptInv, At, Idle, MayCall, Queued, NoCallbacks, Resyncs,
            members, registry, client, control, handling, history
<1>1. ASSUME NEW t \in All, CreateSession(t) PROVE KeptInv'
  BY <1>1 DEF CreateSession, ReviveIfNeeded, Activate, ActivateThrows, ReviveThrows,
     AddCompletionCallbacks, SessionToUse, Completion, Target, Goto, UserLoggedOut
<1>2. ASSUME NEW t \in All, ExternalReference(t) PROVE KeptInv'
  BY <1>2 DEF ExternalReference, Goto
<1>3. ASSUME NEW t \in All, DidDropExternalReference(t) PROVE KeptInv'
  BY <1>3 DEF DidDropExternalReference, Close, Die, Death, Deactivate, CallWith, Fail, Goto
<1>4. ASSUME NEW t \in All, UnregisterSession(t) PROVE KeptInv'
  BY <1>4 DEF UnregisterSession, Return, Goto, Fail
<1>5. ASSUME NEW t \in All, CompleteWaits(t) PROVE KeptInv'
  BY <1>5 DEF CompleteWaits, Return
<1>6. ASSUME NEW t \in All, WaitForTerminations(t) PROVE KeptInv'
  BY <1>6 DEF WaitForTerminations, Goto
<1>7. ASSUME NEW t \in All, ReviveUpdated(t) PROVE KeptInv'
  BY <1>7 DEF ReviveUpdated, ReviveIfNeeded, Activate, ActivateThrows, ReviveThrows,
     AddCompletionCallbacks, SessionToUse, Completion, Target, Goto
<1>8. ASSUME NEW t \in All, ActivateRefreshed(t) PROVE KeptInv'
  BY <1>8 DEF ActivateRefreshed, ReviveIfNeeded, Activate, ActivateThrows, ReviveThrows,
     AddCompletionCallbacks, SessionToUse, Completion, Target, Goto, Fail
<1>9. ASSUME NEW t \in All, RefreshToken(t) PROVE KeptInv'
  BY <1>9 DEF RefreshToken, Goto, Fail
<1>10. ASSUME NEW t \in Threads, GetSession(t) PROVE KeptInv'
  BY <1>10 DEF GetSession, ReviveIfNeeded, Activate, ActivateThrows, ReviveThrows,
     AddCompletionCallbacks, SessionToUse, Completion, Target, Goto, UserLoggedOut
<1>11. ASSUME NEW t \in Threads, GetExistingSession(t) PROVE KeptInv'
  BY <1>11 DEF GetExistingSession
<1>12. ASSUME NEW t \in Threads, DropExternalReference(t) PROVE KeptInv'
  BY <1>12 DEF DropExternalReference, Goto
<1>13. ASSUME NEW t \in Threads, Revive(t) PROVE KeptInv'
  BY <1>13 DEF Revive, ReviveIfNeeded, Activate, ActivateThrows, ReviveThrows,
     AddCompletionCallbacks, SessionToUse, Completion, Target, Goto
<1>14. ASSUME NEW t \in Threads, LogOut(t) PROVE KeptInv'
  BY <1>14 DEF LogOut, Deactivate, CallWith, Fail
<1>15. ASSUME NEW t \in Threads, CloseSession(t) PROVE KeptInv'
  BY <1>15 DEF CloseSession, Close, Die, Death, Deactivate, CallWith, Fail, Goto
<1>16. ASSUME NEW t \in Threads, ShutdownAndWait(t) PROVE KeptInv'
  BY <1>16 DEF ShutdownAndWait, Deactivate, CallWith, Fail, Goto
<1>17. ASSUME NEW t \in Threads, UpdateConfiguration(t) PROVE KeptInv'
  BY <1>17 DEF UpdateConfiguration, Deactivate, CallWith, Fail, Goto
<1>18. ASSUME NEW t \in Threads, NonsyncTransactNotify(t) PROVE KeptInv'
  BY <1>18 DEF NonsyncTransactNotify, Fail
<1>19. ASSUME NEW t \in Threads, HandleRefresh(t) PROVE KeptInv'
  BY <1>19 DEF HandleRefresh, CancelPendingWaits, CallWith, Goto
<1>20. ASSUME NEW t \in Threads, NEW w \in Waits, WaitForCompletion(t, w) PROVE KeptInv'
  BY <1>20 DEF WaitForCompletion, AddCompletionCallbacks, Completion, Target, Fail
<1>21. ASSUME NEW e \in Events, CallListener(e) PROVE KeptInv'
  BY <1>21 DEF CallListener, Goto
<1>22. CASE ConnectionStateChanged
  BY <1>22 DEF ConnectionStateChanged, Goto
<1>23. CASE HandleErrorInState
  BY <1>23 DEF HandleErrorInState, Deactivate, CallWith, Fail, Goto
<1>24. CASE HandleErrorResync
  BY <1>24 DEF HandleErrorResync, Deactivate, CallWith, Fail
<1>25. CASE RestoreCallbacks
  BY <1>25 DEF RestoreCallbacks, Goto
<1>26. CASE HandleErrorCode
  BY <1>26 DEF HandleErrorCode, CancelPendingWaits, CallWith, Goto, Fail
<1>27. CASE HandleErrorFinal
  BY <1>27 DEF HandleErrorFinal, Goto
<1>28. CASE HandleErrorNext
  BY <1>28 DEF HandleErrorNext, CancelPendingWaits, CallWith, Goto
<1>29. CASE HandleErrorAdvance
  BY <1>29 DEF HandleErrorAdvance, Deactivate, CallWith, Fail
<1>30. ASSUME NEW x \in waiters, CompletionHandler(x) PROVE KeptInv'
  BY <1>30 DEF CompletionHandler, CallWith
<1>31. ASSUME NEW x \in waiters, DeathHandler(x) PROVE KeptInv'
  BY <1>31 DEF DeathHandler, DeathIsCurrent, Due, Live, Deactivate, CallWith, Fail
<1>32. CASE Upload
  BY <1>32 DEF Upload, MayUpload
<1>33. CASE UNCHANGED vars
  BY <1>33 DEF vars
<1> QED
  BY <1>1, <1>2, <1>3, <1>4, <1>5, <1>6, <1>7, <1>8, <1>9, <1>10, <1>11, <1>12, <1>13, <1>14, <1>15, <1>16, <1>17, <1>18, <1>19, <1>20, <1>21, <1>22, <1>23, <1>24, <1>25, <1>26, <1>27, <1>28, <1>29, <1>30, <1>31, <1>32, <1>33
     DEF Next, Continue, Call, HandleEvent, Handler

\* Active::enter_state() gives every wait in the map to the sync::Session.
LEMMA ReviveArmed ==
    ASSUME TypeOK, ArmedInv, NEW t, NEW l,
           ReviveIfNeeded(t, l) \/ ReviveThrows(t, l)
    PROVE  ArmedInv'
<1>1. CASE Activate
  <2>1. /\ session' = SessionToUse /\ SessionToUse # 0
        /\ AddCompletionCallbacks(Queued, SessionToUse)
    BY <1>1 DEF Activate, SessionToUse, TypeOK, MembersOK
  <2>2. ASSUME NEW w \in Waits, callbacks'[w] # 0
        PROVE  \E x \in waiters' : /\ x.session = session' /\ x.kind = "wait"
                                   /\ x.wait = w /\ x.n = callbacks'[w]
    <3>1. w \in Queued /\ callbacks'[w] = counter + 1
      BY <2>1, <2>2 DEF AddCompletionCallbacks, Queued
    <3>2. Completion(SessionToUse, w, counter + 1, Target(w)) \in waiters'
      BY <2>1, <3>1 DEF AddCompletionCallbacks
    <3> QED
      BY <2>1, <3>1, <3>2 DEF Completion
  <2> QED
    BY <2>2 DEF ArmedInv
<1>2. CASE UNCHANGED <<members, client>> \/ ReviveThrows(t, l)
  BY <1>2 DEF ReviveThrows, ActivateThrows, ArmedInv, members, client
<1> QED
  BY <1>1, <1>2 DEF ReviveIfNeeded

\* No step leaves a wait of a running session without a handler.
LEMMA ArmedStep ==
    ASSUME ResyncMode = "manual"
    PROVE  TypeOK /\ DeathInv /\ KeptInv /\ ArmedInv /\ [Next]_vars => ArmedInv'
<1> SUFFICES ASSUME TypeOK, DeathInv, KeptInv, ArmedInv, [Next]_vars PROVE ArmedInv'
  OBVIOUS
<1> USE DEF TypeOK, MembersOK, ClientOK, Handlers, KeptInv, ArmedInv, At, All,
            Queued, NoCallbacks, members, registry, client, control, handling, history
<1>1. ASSUME NEW t \in All, CreateSession(t) PROVE ArmedInv'
  <2>1. CASE ReviveIfNeeded(t, "idle") \/ ReviveThrows(t, "dropped")
    BY <2>1, ReviveArmed
  <2>2. CASE UserLoggedOut(t, "idle")
    BY <2>2 DEF UserLoggedOut
  <2> QED
    BY <1>1, <2>1, <2>2, ReviveArmed DEF CreateSession
<1>2. ASSUME NEW t \in All, ExternalReference(t) PROVE ArmedInv'
  BY <1>2 DEF ExternalReference, Goto
<1>3. ASSUME NEW t \in All, DidDropExternalReference(t) PROVE ArmedInv'
  BY <1>3 DEF DidDropExternalReference, Close, Die, Death, Deactivate, CallWith, Fail, Goto
<1>4. ASSUME NEW t \in All, UnregisterSession(t) PROVE ArmedInv'
  BY <1>4 DEF UnregisterSession, Return, Goto, Fail
<1>5. ASSUME NEW t \in All, CompleteWaits(t) PROVE ArmedInv'
  BY <1>5 DEF CompleteWaits, Return
<1>6. ASSUME NEW t \in All, WaitForTerminations(t) PROVE ArmedInv'
  BY <1>6 DEF WaitForTerminations, Goto
<1>7. ASSUME NEW t \in All, ReviveUpdated(t) PROVE ArmedInv'
  BY <1>7, ReviveArmed DEF ReviveUpdated
<1>8. ASSUME NEW t \in All, ActivateRefreshed(t) PROVE ArmedInv'
  <2>1. CASE Fail("advance_state")
    BY <2>1 DEF Fail
  <2> QED
    BY <1>8, <2>1, ReviveArmed DEF ActivateRefreshed
<1>9. ASSUME NEW t \in All, RefreshToken(t) PROVE ArmedInv'
  BY <1>9 DEF RefreshToken, Goto, Fail
<1>10. ASSUME NEW t \in Threads, GetSession(t) PROVE ArmedInv'
  <2>1. CASE ReviveIfNeeded(t, "link") \/ ReviveThrows(t, "idle")
    BY <2>1, ReviveArmed
  <2>2. CASE UserLoggedOut(t, "link")
    BY <2>2 DEF UserLoggedOut
  <2> QED
    BY <1>10, <2>1, <2>2, ReviveArmed DEF GetSession
<1>11. ASSUME NEW t \in Threads, GetExistingSession(t) PROVE ArmedInv'
  BY <1>11 DEF GetExistingSession
<1>12. ASSUME NEW t \in Threads, DropExternalReference(t) PROVE ArmedInv'
  BY <1>12 DEF DropExternalReference, Goto
<1>13. ASSUME NEW t \in Threads, Revive(t) PROVE ArmedInv'
  BY <1>13, ReviveArmed DEF Revive
<1>14. ASSUME NEW t \in Threads, LogOut(t) PROVE ArmedInv'
  BY <1>14 DEF LogOut, Deactivate, CallWith, Fail
<1>15. ASSUME NEW t \in Threads, CloseSession(t) PROVE ArmedInv'
  BY <1>15 DEF CloseSession, Close, Die, Death, Deactivate, CallWith, Fail, Goto
<1>16. ASSUME NEW t \in Threads, ShutdownAndWait(t) PROVE ArmedInv'
  BY <1>16 DEF ShutdownAndWait, Deactivate, CallWith, Fail, Goto
<1>17. ASSUME NEW t \in Threads, UpdateConfiguration(t) PROVE ArmedInv'
  BY <1>17 DEF UpdateConfiguration, Deactivate, CallWith, Fail, Goto
<1>18. ASSUME NEW t \in Threads, NonsyncTransactNotify(t) PROVE ArmedInv'
  <2>1. UNCHANGED <<session, callbacks, waiters>>
    <3>1. CASE session = 0
      BY <1>18, <3>1 DEF NonsyncTransactNotify, Fail
    <3>2. CASE session # 0
      BY <1>18, <3>2 DEF NonsyncTransactNotify
    <3> QED
      BY <3>1, <3>2
  <2> QED
    BY <2>1
<1>19. ASSUME NEW t \in Threads, HandleRefresh(t) PROVE ArmedInv'
  BY <1>19 DEF HandleRefresh, CancelPendingWaits, CallWith, Goto
<1>20. ASSUME NEW t \in Threads, NEW w \in Waits, WaitForCompletion(t, w) PROVE ArmedInv'
  <2>1. CASE Fail("null_session")
    BY <2>1 DEF Fail
  <2>2. CASE AddCompletionCallbacks({w}, session) /\ session # 0
    <3>1. session' = session
      BY <1>20, <2>2 DEF WaitForCompletion
    <3>2. Completion(session, w, counter + 1, Target(w)) \in waiters'
          /\ waiters \subseteq waiters'
      BY <2>2 DEF AddCompletionCallbacks
    <3>3. /\ callbacks'[w] = counter + 1
          /\ \A v \in Waits : v # w => callbacks'[v] = callbacks[v]
      BY <2>2 DEF AddCompletionCallbacks
    <3> QED
      BY <2>2, <3>1, <3>2, <3>3 DEF Completion
  <2>3. CASE session = 0 /\ state = "inactive"
    BY <1>20, <2>3 DEF WaitForCompletion
  <2> QED
    BY <1>20, <2>1, <2>2, <2>3 DEF WaitForCompletion, DeathInv
<1>21. ASSUME NEW e \in Events, CallListener(e) PROVE ArmedInv'
  BY <1>21 DEF CallListener, Goto
<1>22. CASE ConnectionStateChanged
  BY <1>22 DEF ConnectionStateChanged, Goto
<1>23. CASE HandleErrorInState
  BY <1>23 DEF HandleErrorInState, Deactivate, CallWith, Fail, Goto
<1>24. CASE HandleErrorResync
  BY <1>24 DEF HandleErrorResync, Deactivate, CallWith, Fail
<1>25. CASE RestoreCallbacks
  BY <1>25 DEF RestoreCallbacks, Goto
<1>26. CASE HandleErrorCode
  BY <1>26 DEF HandleErrorCode, CancelPendingWaits, CallWith, Goto, Fail
<1>27. CASE HandleErrorFinal
  BY <1>27 DEF HandleErrorFinal, Goto
<1>28. CASE HandleErrorNext
  BY <1>28 DEF HandleErrorNext, CancelPendingWaits, CallWith, Goto
<1>29. CASE HandleErrorAdvance
  BY <1>29 DEF HandleErrorAdvance, Deactivate, CallWith, Fail
<1>30. ASSUME NEW x \in waiters, CompletionHandler(x) PROVE ArmedInv'
  BY <1>30 DEF CompletionHandler, CallWith
<1>31. ASSUME NEW x \in waiters, DeathHandler(x) PROVE ArmedInv'
  BY <1>31 DEF DeathHandler, DeathIsCurrent, Due, Live, Deactivate, CallWith, Fail
<1>32. CASE Upload
  BY <1>32 DEF Upload, MayUpload
<1>33. CASE UNCHANGED vars
  BY <1>33 DEF vars
<1> QED
  BY <1>1, <1>2, <1>3, <1>4, <1>5, <1>6, <1>7, <1>8, <1>9, <1>10, <1>11, <1>12, <1>13, <1>14, <1>15, <1>16, <1>17, <1>18, <1>19, <1>20, <1>21, <1>22, <1>23, <1>24, <1>25, <1>26, <1>27, <1>28, <1>29, <1>30, <1>31, <1>32, <1>33
     DEF Next, Continue, Call, HandleEvent, Handler

-----------------------------------------------------------------------------
(* What an upload wait is told *)

(***************************************************************************)
(* A handler of an upload wait waits for all that was committed when the   *)
(* wait was asked for, whichever sync::Session it was handed to since, and *)
(* a thread that holds the wait with a success found that uploaded.        *)
(***************************************************************************)
HonestInv ==
    /\ ~refreshing /\ event.kind # "refresh"
    /\ \A w \in Waits : asked[w] <= committed
    /\ \A x \in waiters : x.kind = "wait" /\ x.wait \in UploadWaits =>
          asked[x.wait] # -1 /\ asked[x.wait] <= x.target
    /\ \A t \in All, w \in UploadWaits :
          w \in fire[t] /\ result[t] = "ok" => asked[w] <= uploaded
    /\ \A w \in UploadWaits : outcome[w] = "ok" => asked[w] # -1
    /\ UploadWaitHonest

\* Where no token is refreshed, no step reports a success too early.
LEMMA HonestStep ==
    ASSUME \A e \in Errors : e[1] # "refresh"
    PROVE  TypeOK /\ FireInv /\ PlaceInv /\ HonestInv /\ [Next]_vars => HonestInv'
<1> SUFFICES ASSUME TypeOK, FireInv, PlaceInv, HonestInv, [Next]_vars PROVE HonestInv'
  OBVIOUS
<1>0. /\ UploadWaits \subseteq Waits
      /\ \A w \in Waits : callbacks[w] # 0 => asked[w] # -1
      /\ \A t \in All, w \in Waits : w \in fire[t] => asked[w] # -1
  BY DEF Waits, PlaceInv
<1> USE <1>0 DEF TypeOK, MembersOK, ClientOK, Handlers, ControlOK, HandlingOK, HistoryOK, FlagsOK,
            All, HonestInv, UploadWaitHonest, At, Idle, MayCall, Queued, NoCallbacks,
            members, registry, client, control, handling, history
<1>1. ASSUME NEW t \in All, CreateSession(t) PROVE HonestInv'
  BY <1>1 DEF CreateSession, ReviveIfNeeded, Activate, ActivateThrows, ReviveThrows,
     AddCompletionCallbacks, SessionToUse, Completion, Target, Goto, UserLoggedOut
<1>2. ASSUME NEW t \in All, ExternalReference(t) PROVE HonestInv'
  BY <1>2 DEF ExternalReference, Goto
<1>3. ASSUME NEW t \in All, DidDropExternalReference(t) PROVE HonestInv'
  BY <1>3 DEF DidDropExternalReference, Close, Die, Death, Deactivate, CallWith, Fail, Goto
<1>4. ASSUME NEW t \in All, UnregisterSession(t) PROVE HonestInv'
  BY <1>4 DEF UnregisterSession, Return, Goto, Fail
<1>5. ASSUME NEW t \in All, CompleteWaits(t) PROVE HonestInv'
  BY <1>5 DEF CompleteWaits, Return
<1>6. ASSUME NEW t \in All, WaitForTerminations(t) PROVE HonestInv'
  BY <1>6 DEF WaitForTerminations, Goto
<1>7. ASSUME NEW t \in All, ReviveUpdated(t) PROVE HonestInv'
  BY <1>7 DEF ReviveUpdated, ReviveIfNeeded, Activate, ActivateThrows, ReviveThrows,
     AddCompletionCallbacks, SessionToUse, Completion, Target, Goto
<1>8. ASSUME NEW t \in All, ActivateRefreshed(t) PROVE HonestInv'
  BY <1>8 DEF ActivateRefreshed, ReviveIfNeeded, Activate, ActivateThrows, ReviveThrows,
     AddCompletionCallbacks, SessionToUse, Completion, Target, Goto, Fail
<1>9. ASSUME NEW t \in All, RefreshToken(t) PROVE HonestInv'
  BY <1>9 DEF RefreshToken, Goto, Fail
<1>10. ASSUME NEW t \in Threads, GetSession(t) PROVE HonestInv'
  BY <1>10 DEF GetSession, ReviveIfNeeded, Activate, ActivateThrows, ReviveThrows,
     AddCompletionCallbacks, SessionToUse, Completion, Target, Goto, UserLoggedOut
<1>11. ASSUME NEW t \in Threads, GetExistingSession(t) PROVE HonestInv'
  BY <1>11 DEF GetExistingSession
<1>12. ASSUME NEW t \in Threads, DropExternalReference(t) PROVE HonestInv'
  BY <1>12 DEF DropExternalReference, Goto
<1>13. ASSUME NEW t \in Threads, Revive(t) PROVE HonestInv'
  BY <1>13 DEF Revive, ReviveIfNeeded, Activate, ActivateThrows, ReviveThrows,
     AddCompletionCallbacks, SessionToUse, Completion, Target, Goto
<1>14. ASSUME NEW t \in Threads, LogOut(t) PROVE HonestInv'
  BY <1>14 DEF LogOut, Deactivate, CallWith, Fail
<1>15. ASSUME NEW t \in Threads, CloseSession(t) PROVE HonestInv'
  BY <1>15 DEF CloseSession, Close, Die, Death, Deactivate, CallWith, Fail, Goto
<1>16. ASSUME NEW t \in Threads, ShutdownAndWait(t) PROVE HonestInv'
  BY <1>16 DEF ShutdownAndWait, Deactivate, CallWith, Fail, Goto
<1>17. ASSUME NEW t \in Threads, UpdateConfiguration(t) PROVE HonestInv'
  BY <1>17 DEF UpdateConfiguration, Deactivate, CallWith, Fail, Goto
<1>18. ASSUME NEW t \in Threads, NonsyncTransactNotify(t) PROVE HonestInv'
  <2>1. /\ UNCHANGED <<waiters, uploaded, control, handling, history>>
        /\ committed' = committed \/ committed' = committed + 1
    BY <1>18 DEF NonsyncTransactNotify, Fail
  <2>2. committed \in Nat /\ \A w \in Waits : asked[w] \in Int
    OBVIOUS
  <2>3. \A w \in Waits : asked'[w] <= committed'
    BY <2>1, <2>2
  <2> QED
    BY <2>1, <2>3
<1>19. ASSUME NEW t \in Threads, HandleRefresh(t) PROVE HonestInv'
  BY <1>19 DEF HandleRefresh, CancelPendingWaits, CallWith, Goto
<1>20. ASSUME NEW t \in Threads, NEW w \in Waits, WaitForCompletion(t, w) PROVE HonestInv'
  <2>1. CASE UNCHANGED <<client, control, handling, history>>
    BY <2>1
  <2>2. CASE /\ AddCompletionCallbacks({w}, session)
             /\ asked' = [asked EXCEPT ![w] = committed]
             /\ UNCHANGED <<committed, uploaded, control, handling, calls, outcome>>
    <3>1. asked[w] = -1
      BY <1>20 DEF WaitForCompletion
    <3>2. \A x \in waiters' : x \in waiters \/ (x.wait = w /\ x.target = Target(w))
      BY <2>2 DEF AddCompletionCallbacks, Completion
    <3>3. /\ asked'[w] = committed /\ committed # -1
          /\ \A v \in Waits : v # w => asked'[v] = asked[v]
      BY <2>2
    <3>4. \A x \in waiters' : x.kind = "wait" /\ x.wait \in UploadWaits =>
             asked'[x.wait] # -1 /\ asked'[x.wait] <= x.target
      BY <3>1, <3>2, <3>3 DEF Target
    <3>5. \A v \in Waits : asked'[v] <= committed'
      BY <2>2, <3>3
    <3>6. \A u \in All, v \in UploadWaits :
             v \in fire'[u] /\ result'[u] = "ok" => asked'[v] <= uploaded'
      BY <2>2, <3>1, <3>3
    <3>7. \A v \in UploadWaits : outcome'[v] = "ok" => asked'[v] # -1 /\ uploaded' >= asked'[v]
      BY <2>2, <3>1, <3>3
    <3> QED
      BY <2>2, <3>4, <3>5, <3>6, <3>7
  <2> QED
    BY <1>20, <2>1, <2>2 DEF WaitForCompletion, Fail
<1>21. ASSUME NEW e \in Events, CallListener(e) PROVE HonestInv'
  <2>1. e.kind # "refresh"
    BY DEF Events, Change, ErrorEvent
  <2> QED
    BY <1>21, <2>1 DEF CallListener, Goto
<1>22. CASE ConnectionStateChanged
  BY <1>22 DEF ConnectionStateChanged, Goto
<1>23. CASE HandleErrorInState
  BY <1>23 DEF HandleErrorInState, Deactivate, CallWith, Fail, Goto
<1>24. CASE HandleErrorResync
  BY <1>24 DEF HandleErrorResync, Deactivate, CallWith, Fail
<1>25. CASE RestoreCallbacks
  BY <1>25 DEF RestoreCallbacks, Goto
<1>26. CASE HandleErrorCode
  BY <1>26 DEF HandleErrorCode, CancelPendingWaits, CallWith, Goto, Fail
<1>27. CASE HandleErrorFinal
  BY <1>27 DEF HandleErrorFinal, Goto
<1>28. CASE HandleErrorNext
  BY <1>28 DEF HandleErrorNext, CancelPendingWaits, CallWith, Goto
<1>29. CASE HandleErrorAdvance
  BY <1>29 DEF HandleErrorAdvance, Deactivate, CallWith, Fail
<1>30. ASSUME NEW x \in waiters, CompletionHandler(x) PROVE HonestInv'
  <2>1. /\ waiters' \subseteq waiters
        /\ UNCHANGED <<committed, uploaded, handling, history>>
    BY <1>30 DEF CompletionHandler
  <2>2. ASSUME NEW t \in All, NEW w \in UploadWaits, w \in fire'[t], result'[t] = "ok"
        PROVE  asked[w] <= uploaded
    <3>1. CASE UNCHANGED control
      BY <2>2, <3>1
    <3>2. CASE /\ callbacks[x.wait] = x.n
               /\ CallWith(SyncThread, {x.wait}, IF Live(x) THEN "ok" ELSE "cancelled",
                           "complete", "idle")
      <4>1. CASE t # SyncThread
        <5>1. fire'[t] = fire[t] /\ result'[t] = result[t]
          BY <3>2, <4>1 DEF CallWith
        <5> QED
          BY <2>2, <5>1
      <4>2. CASE t = SyncThread
        <5>1. fire'[t] = {x.wait} /\ result'[t] = IF Live(x) THEN "ok" ELSE "cancelled"
          BY <3>2, <4>2 DEF CallWith
        <5>2. w = x.wait /\ Live(x) /\ x.kind = "wait" /\ Due(x)
          BY <1>30, <2>2, <5>1 DEF CompletionHandler
        <5>3. asked[w] <= x.target /\ x.target <= uploaded
          BY <5>2 DEF Due
        <5>4. asked[w] \in Int /\ x.target \in Int /\ uploaded \in Int
          OBVIOUS
        <5> QED
          BY <5>3, <5>4
      <4> QED
        BY <4>1, <4>2
    <3> QED
      BY <1>30, <3>1, <3>2 DEF CompletionHandler
  <2> QED
    BY <2>1, <2>2
<1>31. ASSUME NEW x \in waiters, DeathHandler(x) PROVE HonestInv'
  BY <1>31 DEF DeathHandler, DeathIsCurrent, Due, Live, Deactivate, CallWith, Fail
<1>32. CASE Upload
  BY <1>32 DEF Upload, MayUpload
<1>33. CASE UNCHANGED vars
  BY <1>33 DEF vars
<1> QED
  BY <1>1, <1>2, <1>3, <1>4, <1>5, <1>6, <1>7, <1>8, <1>9, <1>10, <1>11, <1>12, <1>13, <1>14, <1>15, <1>16, <1>17, <1>18, <1>19, <1>20, <1>21, <1>22, <1>23, <1>24, <1>25, <1>26, <1>27, <1>28, <1>29, <1>30, <1>31, <1>32, <1>33
     DEF Next, Continue, Call, HandleEvent, Handler

-----------------------------------------------------------------------------
(* The theorems *)

\* Every variable keeps its type.
THEOREM TypeCorrect == Spec => []TypeOK
<1>1. Init => TypeOK
  <2> SUFFICES ASSUME Init PROVE TypeOK
    OBVIOUS
  <2>1. FlagsOK
    BY DEF Init, FlagsOK
  <2>2. MembersOK /\ RegistryOK /\ ClientOK /\ HistoryOK
    BY ThreadsAssumption
       DEF Init, MembersOK, RegistryOK, ClientOK, HistoryOK, Connections
  <2>3. ControlOK
    BY DEF Init, ControlOK, Locations
  <2>4. HandlingOK
    BY DEF Init, HandlingOK, Change, Connections
  <2> QED
    BY <2>1, <2>2, <2>3, <2>4 DEF TypeOK
<1> QED
  BY <1>1, TypeStep, PTL DEF Spec

\* The deaths and their handlers, in every reachable state.
LEMMA DeathCorrect == Spec => []DeathInv
<1>1. Init => DeathInv
  BY DEF Init, DeathInv
<1> QED
  BY <1>1, DeathStep, TypeCorrect, PTL DEF Spec

\* Active and Dying have a sync::Session, Inactive has none.
THEOREM SessionMatches == Spec => []SessionMatchesState
<1>1. TypeOK /\ DeathInv => SessionMatchesState
  BY DEF TypeOK, MembersOK, DeathInv, SessionMatchesState
<1> QED
  BY <1>1, TypeCorrect, DeathCorrect, PTL

\* A dying session always has the handler that will end it.
THEOREM DyingIsWatched == Spec => []DyingHasHandler
<1>1. DeathInv => DyingHasHandler
  BY DEF DeathInv, DyingHasHandler, Live
<1> QED
  BY <1>1, DeathCorrect, PTL

\* What another thread does leaves the event loop thread where it is.
LEMMA OtherThread ==
    ASSUME TypeOK, NEW t \in All, t # SyncThread, Continue(t) \/ Call(t)
    PROVE  pc'[SyncThread] = pc[SyncThread]
<1> DEFINE Stays == pc'[SyncThread] = pc[SyncThread]
<1>1. ASSUME NEW l, Goto(t, l) PROVE Stays
  BY <1>1 DEF Goto, TypeOK, ControlOK, All
<1>2. ASSUME NEW W, NEW r, NEW l, NEW c, CallWith(t, W, r, l, c) PROVE Stays
  BY <1>2 DEF CallWith, TypeOK, ControlOK, All
<1>3. ASSUME Return(t) PROVE Stays
  BY <1>3 DEF Return, TypeOK, ControlOK, All
<1>4. ASSUME UNCHANGED control PROVE Stays
  BY <1>4 DEF control
<1>5. ASSUME NEW what, Fail(what) PROVE Stays
  BY <1>4, <1>5 DEF Fail
<1>6. ASSUME NEW c, NEW W, Deactivate(t, c, W) PROVE Stays
  BY <1>2, <1>5, <1>6 DEF Deactivate
<1>7. ASSUME Close(t) PROVE Stays
  BY <1>1, <1>2, <1>6, <1>7 DEF Close, Die
<1>8. ASSUME NEW l, ReviveIfNeeded(t, l) \/ ReviveThrows(t, l) \/ UserLoggedOut(t, l)
      PROVE  Stays
  BY <1>1, <1>8 DEF ReviveIfNeeded, ReviveThrows, UserLoggedOut
<1>9. ASSUME NEW r, NEW c, CancelPendingWaits(t, r, c) PROVE Stays
  BY <1>1, <1>2, <1>9 DEF CancelPendingWaits
<1>10. ASSUME Continue(t) PROVE Stays
  BY <1>1, <1>3, <1>5, <1>7, <1>8, <1>10 DEF Continue, CreateSession,
     ExternalReference, DidDropExternalReference, UnregisterSession, CompleteWaits,
     WaitForTerminations, ReviveUpdated, ActivateRefreshed, RefreshToken
<1>11. ASSUME Call(t) PROVE Stays
  BY <1>1, <1>4, <1>5, <1>6, <1>7, <1>8, <1>9, <1>11 DEF Call, GetSession,
     GetExistingSession, DropExternalReference, Revive, LogOut, CloseSession,
     ShutdownAndWait, UpdateConfiguration, NonsyncTransactNotify, HandleRefresh,
     WaitForCompletion
<1> QED
  BY <1>10, <1>11

\* The lambda of Dying::enter_state() only stops a session whose changes are
\* all uploaded: the death count keeps handlers of earlier deaths out.
THEOREM StopsUploaded == Spec => UploadedBeforeStop
<1> DEFINE Stop == state = "dying" /\ state' = "inactive"
                    /\ pc[SyncThread] = "idle" /\ pc'[SyncThread] = "unregister"
<1>1. TypeOK /\ DeathInv /\ [Next]_vars => [Stop => uploaded = committed]_vars
  <2> SUFFICES ASSUME TypeOK, DeathInv, Next, Stop PROVE uploaded = committed
    OBVIOUS
  <2>1. ASSUME NEW x \in waiters, DeathHandler(x) PROVE uploaded = committed
    <3>1. DeathIsCurrent(x) /\ x.kind = "death" /\ Due(x)
      BY <2>1 DEF DeathHandler, control, members
    <3>2. x.session = session /\ x.target = committed
      BY <3>1 DEF DeathIsCurrent, DeathInv
    <3> QED
      BY <3>1, <3>2 DEF Due, Live, TypeOK, ClientOK
  <2>2. ASSUME NEW t \in All, Continue(t) PROVE pc'[SyncThread] = pc[SyncThread]
    <3>1. pc[t] # "idle" /\ t # SyncThread
      BY <2>2 DEF Continue, CreateSession, ExternalReference,
         DidDropExternalReference, UnregisterSession, CompleteWaits,
         WaitForTerminations, ReviveUpdated, ActivateRefreshed, RefreshToken, At
    <3> QED
      BY <2>2, <3>1, OtherThread
  <2>3. ASSUME NEW t \in Threads, Call(t) PROVE pc'[SyncThread] = pc[SyncThread]
    BY <2>3, OtherThread, ThreadsAssumption DEF All
  <2>4. ASSUME NEW e \in Events, CallListener(e) PROVE FALSE
    BY <2>4 DEF CallListener, Goto, TypeOK, ControlOK, All
  <2>5. ASSUME HandleEvent PROVE FALSE
    BY <2>5 DEF HandleEvent, ConnectionStateChanged, HandleErrorInState,
       HandleErrorResync, RestoreCallbacks, HandleErrorCode, HandleErrorFinal,
       HandleErrorNext, HandleErrorAdvance, At
  <2>6. ASSUME NEW x \in waiters, CompletionHandler(x) PROVE FALSE
    BY <2>6 DEF CompletionHandler, CallWith, control, TypeOK, ControlOK, All
  <2>7. ASSUME Upload PROVE FALSE
    BY <2>7 DEF Upload, control
  <2> QED
    BY <2>1, <2>2, <2>3, <2>4, <2>5, <2>6, <2>7 DEF Next, Handler
<1> QED
  BY <1>1, TypeCorrect, DeathCorrect, PTL DEF Spec, UploadedBeforeStop

\* No completion callback is called twice.
THEOREM CalledAtMostOnce == Spec => []WaitCalledAtMostOnce
<1>1. Init => FireInv /\ PlaceInv
  BY DEF Init, FireInv, PlaceInv, All
<1>2. PlaceInv => WaitCalledAtMostOnce
  BY DEF PlaceInv, WaitCalledAtMostOnce
<1> QED
  BY <1>1, <1>2, FireStep, PlaceStep, TypeCorrect, PTL DEF Spec

\* In Manual resync mode no wait is lost before it is called.
THEOREM NothingLost ==
    ASSUME ResyncMode = "manual" PROVE Spec => []WaitNotLost
<1>1. Init => FireInv /\ KeptInv
  BY DEF Init, FireInv, KeptInv, All
<1>2. KeptInv => WaitNotLost
  BY DEF KeptInv, WaitNotLost
<1> QED
  BY <1>1, <1>2, FireStep, KeptStep, TypeCorrect, PTL DEF Spec

\* In Manual resync mode every wait of a running session has its handler.
THEOREM EveryWaitArmed ==
    ASSUME ResyncMode = "manual" PROVE Spec => []WaitsArmed
<1>1. Init => FireInv /\ KeptInv /\ ArmedInv
  BY DEF Init, FireInv, KeptInv, ArmedInv, All
<1>2. ArmedInv => WaitsArmed
  BY DEF ArmedInv, WaitsArmed, Live, Queued
<1> QED
  BY <1>1, <1>2, FireStep, KeptStep, ArmedStep, DeathCorrect, TypeCorrect, PTL DEF Spec

\* Where no token is refreshed, an upload wait is told of success only after what was
\* committed before it was asked for is uploaded, however often the session restarts.
THEOREM UploadsAreHonest ==
    ASSUME \A e \in Errors : e[1] # "refresh"
    PROVE  Spec => []UploadWaitHonest
<1>1. Init => FireInv /\ PlaceInv /\ HonestInv
  BY DEF Init, FireInv, PlaceInv, HonestInv, UploadWaitHonest, Change, All, Waits
<1>2. HonestInv => UploadWaitHonest
  BY DEF HonestInv
<1> QED
  BY <1>1, <1>2, FireStep, PlaceStep, HonestStep, TypeCorrect, PTL DEF Spec
=============================================================================
