------------------------- MODULE NotificationsProofs -------------------------
(***************************************************************************)
(* Proofs about Notifications, for any number of Realms, notifiers and     *)
(* versions, and any application.                                          *)
(***************************************************************************)
EXTENDS Notifications, TLAPS

-----------------------------------------------------------------------------
(* The inductive invariant.                                                *)

Main == {n \in Notifiers : place[n] = "main"}

\* What n has found out is still to be handed over.
Pending(n) == \/ wpc = "skipped" /\ n \in batch
              \/ wpc = "ran" /\ n \in batch \cup fresh

\* A Realm that has begun a write transaction holds the lock, and no version is committed
\* but its own; no Realm reads a version that does not exist.
LockInv ==
    /\ \A r \in Realms : rpc[r] \in {"begin", "writing"} <=> writer = r
    /\ writer # NoRealm => latest < MaxVersion
    /\ \A r \in Realms : readVer[r] <= latest

\* The worker between its critical sections: the versions it is on its way to, and what
\* the notifiers it has copied are; the others are at its version already.
WorkerInv ==
    /\ wpc = "idle" => batch = {} /\ fresh = {}
    /\ wpc # "idle" => 1 <= target /\ notifierSg <= target /\ target <= latest
    /\ wpc = "skip" => batch # {} /\ notifierSg < skipTo /\ skipTo <= target
    /\ wpc = "skipped" => /\ batch # {} /\ notifierSg = skipTo /\ skipTo <= target
                          /\ \A n \in batch : sgVersion[n] < skipTo
    /\ wpc = "ran" => notifierSg = target
    /\ batch \cup fresh \subseteq Main
    /\ \A n \in batch : hasRun[n]
    /\ \A n \in fresh : ~hasRun[n]
    /\ \A n \in Main : n \notin batch \cup fresh =>
          /\ batch = {} /\ sgVersion[n] = notifierSg
          /\ wpc # "idle" => notifierSg = target

\* What the place of a notifier says about it.
PlaceInv ==
    \A n \in Notifiers :
       /\ live[n] => place[n] \in {"new", "main"}
       /\ place[n] \in {"none", "new"} => ~hasRun[n]
       /\ place[n] = "none" => ~callback[n]
       /\ place[n] # "none" => 1 <= sgVersion[n]
       /\ sgVersion[n] <= latest
       /\ place[n] = "new" => 1 <= advancerSg /\ advancerSg <= sgVersion[n]
       /\ place[n] = "main" /\ n \notin fresh => hasRun[n]
       /\ place[n] = "main" /\ hasRun[n] => sgVersion[n] <= notifierSg

\* The notifiers that have run are at one version, and a version to skip is one they have
\* not been taken to and are not on the way to.
VersionInv ==
    /\ \A m, n \in Main : hasRun[m] /\ hasRun[n] => sgVersion[m] = sgVersion[n]
    /\ Main # {} => 1 <= notifierSg
    /\ notifierSg <= latest
    /\ skipVersion # 0 => /\ Main # {} /\ notifierSg < skipVersion /\ skipVersion <= latest
                          /\ wpc # "idle" => target < skipVersion

-----------------------------------------------------------------------------
(* Types of what a delivery writes.                                        *)

DeliveryTypes ==
    /\ callback \in [Notifiers -> BOOLEAN] /\ initial \in [Notifiers -> BOOLEAN]
    /\ accumulated \in [Notifiers -> SUBSET Versions]
    /\ skipNext \in [Notifiers -> BOOLEAN] /\ asked \in [Notifiers -> BOOLEAN]
    /\ bare \subseteq Notifiers
    /\ since \in [Notifiers -> 0..MaxVersion]
    /\ reported \in [Notifiers -> SUBSET Versions]
    /\ skipped \in [Notifiers -> SUBSET Versions]

LEMMA DeliverType ==
    ASSUME TypeOK, NEW P \in SUBSET Notifiers, NEW v \in 0..MaxVersion, Deliver(P, v)
    PROVE  DeliveryTypes'
<1> DEFINE told == {n \in P : callback[n]}
<1>1. accumulated' \in [Notifiers -> SUBSET Versions]
  BY DEF TypeOK, Deliver, Set, Remaining
<1>2. initial' \in [Notifiers -> BOOLEAN]
  BY DEF TypeOK, Deliver, Set
<1>3. since' \in [Notifiers -> 0..MaxVersion]
  BY DEF TypeOK, Deliver, Set
<1>4. reported' \in [Notifiers -> SUBSET Versions]
  BY DEF TypeOK, Deliver, Set
<1>5. UNCHANGED <<callback, skipNext, skipped, asked, bare>> BY DEF Deliver
<1> QED BY <1>1, <1>2, <1>3, <1>4, <1>5 DEF TypeOK, DeliveryTypes

LEMMA DiscardType ==
    ASSUME TypeOK, NEW P \in SUBSET Notifiers, Discard(P)
    PROVE  DeliveryTypes'
BY DEF TypeOK, Discard, Set, Remaining, history, DeliveryTypes

\* The notifiers of a package have a version.
LEMMA PackagedType ==
    ASSUME TypeOK, PlaceInv, NEW r \in Realms
    PROVE  /\ Packaged(r) \in SUBSET Notifiers
           /\ \A n \in Packaged(r) : sgVersion[n] \in Versions
BY VersionAssumption DEF TypeOK, PlaceInv, Packaged, NotifiersForRealm, Versions

LEMMA DeliverPackageType ==
    ASSUME TypeOK, PlaceInv, NEW r \in Realms, NEW v, DeliverPackage(r, v)
    PROVE  DeliveryTypes' /\ readVer' \in [Realms -> Versions]
<1>1. CASE Packaged(r) = {} /\ readVer' = [readVer EXCEPT ![r] = latest] /\ UNCHANGED <<callbacks, history>>
  BY <1>1 DEF TypeOK, DeliveryTypes, callbacks, history
<1>2. ASSUME NEW n \in Packaged(r), readVer' = [readVer EXCEPT ![r] = latest], Discard(Packaged(r))
      PROVE  DeliveryTypes' /\ readVer' \in [Realms -> Versions]
  BY <1>2, DiscardType, PackagedType DEF TypeOK
<1>3. ASSUME NEW n \in Packaged(r), readVer' = [readVer EXCEPT ![r] = sgVersion[n]],
             Deliver(Packaged(r), sgVersion[n])
      PROVE  DeliveryTypes' /\ readVer' \in [Realms -> Versions]
  <2>1. sgVersion[n] \in Versions /\ sgVersion[n] \in 0..MaxVersion
    BY PackagedType DEF Versions
  <2> QED BY <1>3, <2>1, DeliverType, PackagedType DEF TypeOK
<1> QED BY <1>1, <1>2, <1>3 DEF DeliverPackage

-----------------------------------------------------------------------------
(* The worker's first critical section, alternative by alternative.        *)

NoneAlive == Alive("main") \cup Alive("new") = {}
NewSg == IF ~NoneAlive /\ CleanSg(notifierSg) = 0 THEN latest ELSE CleanSg(notifierSg)
Assertions == {"advancer", "spurious", "skip"}

RunBegins ==
    /\ woken' = FALSE
    /\ notifierSg' = NewSg
    /\ advancerSg' = IF NoneAlive THEN CleanAdvancerSg ELSE 0
    /\ skipVersion' = IF NoneAlive THEN CleanSkipVersion ELSE 0
    /\ place' = [n \in Notifiers |->
                    IF n \in Dead("main") \cup Dead("new") THEN "gone"
                    ELSE IF n \in Alive("new") THEN "main" ELSE place[n]]
    /\ \/ NothingToRun(NewSg) /\ OnChangeEnds
       \/ /\ ~NothingToRun(NewSg)
          /\ batch' = Batch(NewSg)
          /\ fresh' = Alive("new")
          /\ target' = latest
          /\ skipTo' = CleanSkipVersion
          /\ wpc' = IF CleanSkipVersion # 0 THEN "skip" ELSE "run"
          /\ UNCHANGED posted
    /\ UNCHANGED <<program, file, rpc, adding, readVer, want, results, callbacks, history, failed>>

LEMMA RunBeginsOrFails ==
    ASSUME RunAsyncNotifiers
    PROVE  /\ wpc = "idle"
           /\ RunBegins \/ \E what \in Assertions : WorkerFails(what)
BY DEF RunAsyncNotifiers, RunBegins, Assertions, NewSg, NoneAlive

-----------------------------------------------------------------------------
(* Every step keeps the types.                                             *)

LEMMA TypeStep == TypeOK /\ LockInv /\ PlaceInv /\ [Next]_vars => TypeOK'
<1> SUFFICES ASSUME TypeOK, LockInv, PlaceInv, [Next]_vars PROVE TypeOK'
  OBVIOUS
<1> USE VersionAssumption, RealmsAssumption DEF TypeOK, Versions, Stages
<1>0. owner \in [Notifiers -> Realms]
  BY ProgramsAssumption
<1>1. ASSUME NEW n \in Notifiers, PrepareAsync(n) PROVE TypeOK'
  BY <1>0, <1>1 DEF PrepareAsync, RegisterNotifier, program, file, callbacks, worker, history
<1>2. ASSUME NEW n \in Notifiers, AddNotificationCallback(n) PROVE TypeOK'
  BY <1>0, <1>2 DEF AddNotificationCallback, RegisterNotifier, Goto, program, file, callbacks, worker, history
<1>3. ASSUME NEW n \in Notifiers, AddCallback(n) PROVE TypeOK'
  BY <1>0, <1>3 DEF AddCallback, Goto, program, file, results, worker, history
<1>4. ASSUME NEW n \in Notifiers, RemoveCallback(n) PROVE TypeOK'
  BY <1>0, <1>4 DEF RemoveCallback, program, file, realms, coordinator, results, worker
<1>5. ASSUME NEW n \in Notifiers, Unregister(n) PROVE TypeOK'
  BY <1>0, <1>5 DEF Unregister, program, file, realms, coordinator, callbacks, worker, history
<1>6. ASSUME NEW n \in Notifiers, SuppressNext(n) PROVE TypeOK'
  BY <1>0, <1>6 DEF SuppressNext, program, file, realms, coordinator, results, worker
<1>7. CASE RunAsyncNotifiers
  <2>1. ASSUME NEW what \in Assertions, WorkerFails(what) PROVE TypeOK'
    BY <2>1 DEF WorkerFails, Assertions, program, file, realms, coordinator, results, callbacks, worker, history
  <2>2. CASE RunBegins
    <3>1. place' \in [Notifiers -> {"none", "new", "main", "gone"}]
      BY <2>2 DEF RunBegins
    <3>2. NewSg \in 0..MaxVersion /\ CleanSkipVersion \in 0..MaxVersion /\ CleanAdvancerSg \in 0..MaxVersion
      BY DEF NewSg, CleanSg, CleanSkipVersion, CleanAdvancerSg
    <3>3. notifierSg' \in 0..MaxVersion /\ advancerSg' \in 0..MaxVersion /\ skipVersion' \in 0..MaxVersion
      BY <2>2, <3>2 DEF RunBegins
    <3>4. posted' \in [Realms -> BOOLEAN]
      BY <2>2 DEF RunBegins, OnChangeEnds
    <3>5. /\ wpc' \in {"idle", "skip", "run"} /\ woken' \in BOOLEAN
          /\ target' \in 0..MaxVersion /\ skipTo' \in 0..MaxVersion
      <4>1. \/ wpc' = "idle" /\ target' = 0 /\ skipTo' = 0
            \/ wpc' \in {"skip", "run"} /\ target' = latest /\ skipTo' = CleanSkipVersion
        BY <2>2 DEF RunBegins, OnChangeEnds
      <4>2. woken' = FALSE BY <2>2 DEF RunBegins
      <4>3. target' \in 0..MaxVersion /\ skipTo' \in 0..MaxVersion
        BY <3>2, <4>1
      <4>4. wpc' \in {"idle", "skip", "run"}
        BY <4>1
      <4> QED BY <4>2, <4>3, <4>4
    <3>6. batch' \subseteq Notifiers /\ fresh' \subseteq Notifiers
      BY <2>2 DEF RunBegins, OnChangeEnds, Batch, Alive
    <3>7. UNCHANGED <<program, file, rpc, adding, readVer, want, results, callbacks, history, failed>>
      BY <2>2 DEF RunBegins
    <3> QED BY <3>1, <3>3, <3>4, <3>5, <3>6, <3>7 DEF program, file, results, callbacks, history
  <2> QED BY <1>7, <2>1, <2>2, RunBeginsOrFails
<1>8. CASE RunSkipped
  BY <1>8 DEF RunSkipped, Run, Set, Changes, program, file, realms, callbacks
<1>9. CASE HandoverSkipped
  BY <1>9 DEF HandoverSkipped, Handover, Set, program, file, realms, coordinator, history
<1>10. CASE RunNotifiers
  BY <1>10 DEF RunNotifiers, Run, Set, Changes, program, file, realms, callbacks
<1>11. CASE HandoverNotifiers
  <2>1. /\ sgVersion' \in [Notifiers -> 0..MaxVersion] /\ hasRun' \in [Notifiers -> BOOLEAN]
        /\ change' \in [Notifiers -> SUBSET Versions]
    BY <1>11 DEF HandoverNotifiers, Handover, Set
  <2>2. accumulated' \in [Notifiers -> SUBSET Versions]
    BY <1>11 DEF HandoverNotifiers, Handover, Set
  <2>3. skipNext' \in [Notifiers -> BOOLEAN]
    BY <1>11 DEF HandoverNotifiers, Handover, Set
  <2>4. place' \in [Notifiers -> {"none", "new", "main", "gone"}]
    BY <1>11 DEF HandoverNotifiers
  <2>5. {notifierSg', advancerSg', skipVersion'} \subseteq 0..MaxVersion
    BY <1>11 DEF HandoverNotifiers, CleanSg, CleanSkipVersion, CleanAdvancerSg
  <2>6. /\ posted' \in [Realms -> BOOLEAN]
        /\ wpc' = "idle" /\ batch' = {} /\ fresh' = {} /\ target' = 0 /\ skipTo' = 0
    BY <1>11 DEF HandoverNotifiers, OnChangeEnds
  <2>7. UNCHANGED <<program, file, rpc, adding, readVer, want, woken, live, rows,
                    callback, initial, history, failed>>
    BY <1>11 DEF HandoverNotifiers
  <2> QED BY <2>1, <2>2, <2>3, <2>4, <2>5, <2>6, <2>7 DEF program, file, history
<1>12. ASSUME NEW r \in Realms, PromoteToWrite(r) PROVE TypeOK'
  <2>1. DeliveryTypes' /\ readVer' \in [Realms -> Versions]
    BY <1>12, DeliverPackageType DEF PromoteToWrite
  <2> QED BY <1>12, <2>1 DEF PromoteToWrite, DeliveryTypes, Goto, program, file, coordinator, results, worker
<1>13. ASSUME NEW r \in Realms, AdvanceToLatest(r) PROVE TypeOK'
  <2>1. DeliveryTypes' /\ readVer' \in [Realms -> Versions]
    BY <1>13, DeliverPackageType DEF AdvanceToLatest
  <2>2. want' \in [Realms -> Versions] /\ rpc' \in [Realms -> Stages]
    BY <1>13 DEF AdvanceToLatest, Goto
  <2>3. UNCHANGED <<program, file, adding, posted, coordinator, results, worker, failed>>
    BY <1>13 DEF AdvanceToLatest
  <2> QED BY <2>1, <2>2, <2>3 DEF DeliveryTypes, program, file, coordinator, results, worker
<1>14. ASSUME NEW r \in Realms, Notify(r) PROVE TypeOK'
  BY <1>14 DEF Notify, Goto, program, file, coordinator, results, callbacks, worker, history
<1>15. ASSUME NEW r \in Realms, ProcessAvailableAsync(r) PROVE TypeOK'
  <2>1. DeliveryTypes'
    <3>1. {n \in Packaged(r) : sgVersion[n] = readVer[r]} \in SUBSET Notifiers
      BY PackagedType
    <3> QED BY <1>15, <3>1, DeliverType DEF ProcessAvailableAsync
  <2> QED BY <1>15, <2>1 DEF ProcessAvailableAsync, DeliveryTypes, Goto, program, file, coordinator, results, worker
<1>16. ASSUME NEW r \in Realms, AdvanceToReady(r) PROVE TypeOK'
  <2>1. DeliveryTypes' /\ readVer' \in [Realms -> Versions]
    <3>1. CASE readVer' = [readVer EXCEPT ![r] = latest] /\ UNCHANGED <<callbacks, history>>
      BY <3>1 DEF DeliveryTypes, callbacks, history
    <3>2. CASE UNCHANGED readVer /\ Discard(Packaged(r))
      BY <3>2, DiscardType, PackagedType
    <3>3. ASSUME NEW n \in Packaged(r), readVer' = [readVer EXCEPT ![r] = sgVersion[n]],
                 Deliver(Packaged(r), sgVersion[n])
          PROVE  DeliveryTypes' /\ readVer' \in [Realms -> Versions]
      <4>1. sgVersion[n] \in Versions /\ sgVersion[n] \in 0..MaxVersion
        BY PackagedType
      <4> QED BY <3>3, <4>1, DeliverType, PackagedType
    <3> QED BY <1>16, <3>1, <3>2, <3>3 DEF AdvanceToReady
  <2> QED BY <1>16, <2>1 DEF AdvanceToReady, DeliveryTypes, Goto, program, file, coordinator, results, worker
<1>17. ASSUME NEW r \in Realms, BeginTransaction(r) PROVE TypeOK'
  BY <1>17 DEF BeginTransaction, WakeUpUnless, Goto, program, results, callbacks, worker, history
<1>18. ASSUME NEW r \in Realms, CommitWrite(r) PROVE TypeOK'
  <2>1. latest' \in Versions /\ latest' = latest + 1
    <3>1. writer = r /\ writer # NoRealm BY <1>18 DEF CommitWrite, At, LockInv
    <3>2. latest < MaxVersion BY <3>1 DEF LockInv
    <3>3. latest' = latest + 1 BY <1>18 DEF CommitWrite
    <3> QED BY <3>2, <3>3
  <2>2. skipped' \in [Notifiers -> SUBSET Versions]
    BY <1>18, <2>1 DEF CommitWrite, Set
  <2>3. asked' \in [Notifiers -> BOOLEAN]
    BY <1>18 DEF CommitWrite, Set
  <2>4. skipVersion' \in 0..MaxVersion /\ woken' \in BOOLEAN /\ writer' = NoRealm
    <3>1. skipVersion' = SkipVersionFor(r) /\ woken' = TRUE /\ writer' = NoRealm
      BY <1>18 DEF CommitWrite
    <3>2. SkipVersionFor(r) \in {latest', skipVersion} BY <2>1 DEF SkipVersionFor
    <3> QED BY <2>1, <3>1, <3>2
  <2>5. readVer' \in [Realms -> Versions] /\ rpc' \in [Realms -> Stages]
    BY <1>18, <2>1 DEF CommitWrite, Goto
  <2> QED BY <1>18, <2>1, <2>2, <2>3, <2>4, <2>5
          DEF CommitWrite, program, results, callbacks, worker
<1>19. ASSUME NEW r \in Realms, CancelTransaction(r) PROVE TypeOK'
  BY <1>19 DEF CancelTransaction, Set, Goto, program, coordinator, results, callbacks, worker
<1>20. ASSUME NEW r \in Realms, Refresh(r) PROVE TypeOK'
  BY <1>20 DEF Refresh, WakeUpUnless, Goto, program, file, results, callbacks, worker, history
<1>21. CASE OtherCommit
  BY <1>21 DEF OtherCommit, program, realms, results, callbacks, worker, history
<1>22. CASE UNCHANGED vars
  BY <1>22 DEF vars, program, file, realms, coordinator, results, callbacks, worker, history
<1> QED
  BY <1>1, <1>2, <1>3, <1>4, <1>5, <1>6, <1>7, <1>8, <1>9, <1>10, <1>11, <1>12, <1>13, <1>14,
     <1>15, <1>16, <1>17, <1>18, <1>19, <1>20, <1>21, <1>22
  DEF Next, Worker, Proceed, EndWrite

-----------------------------------------------------------------------------
(* The coordinator's vectors and versions.                                 *)

Struct == LockInv /\ WorkerInv /\ PlaceInv /\ VersionInv

\* What clean_up_dead_notifiers() leaves of the versions.
LEMMA Cleaned ==
    ASSUME TypeOK, Struct
    PROVE  /\ Alive("main") # {} => /\ CleanSg(notifierSg) = notifierSg
                                    /\ CleanSkipVersion = skipVersion
           /\ Alive("new") # {} => CleanAdvancerSg = advancerSg
           /\ Alive("main") = {} => CleanSkipVersion = 0
           /\ Alive("main") \subseteq Main
           /\ Alive("main") # {} => notifierSg # 0
<1>1. Alive("main") = {} => CleanSkipVersion = 0
  <2>1. Alive("main") = {} /\ Dead("main") = {} => Main = {}
    BY DEF TypeOK, Alive, Dead, Main
  <2>2. Main = {} => skipVersion = 0
    BY DEF Struct, VersionInv
  <2> QED BY <2>1, <2>2 DEF CleanSkipVersion, Emptied
<1>2. Alive("main") \subseteq Main BY DEF Alive, Main
<1>3. Alive("main") # {} => notifierSg # 0 BY <1>2 DEF Struct, VersionInv
<1> QED BY <1>1, <1>2, <1>3 DEF CleanSg, CleanSkipVersion, CleanAdvancerSg, Emptied

\* None of the assertions fails.
LEMMA RunNeverFails ==
    ASSUME TypeOK, Struct, RunAsyncNotifiers
    PROVE  RunBegins /\ wpc = "idle" /\ failed = "no"
<1>1. ASSUME Alive("new") # {}
      PROVE  CleanAdvancerSg # 0 /\ \A n \in Alive("new") : ~(CleanAdvancerSg > sgVersion[n])
  <2>1. CleanAdvancerSg = advancerSg BY <1>1, Cleaned
  <2> QED BY <1>1, <2>1 DEF TypeOK, Struct, PlaceInv, Alive
<1>2. ASSUME CleanSkipVersion # 0
      PROVE  /\ Alive("main") # {} /\ NewSg = notifierSg /\ NewSg < latest
             /\ CleanSkipVersion \in NewSg..latest /\ ~NothingToRun(NewSg) /\ Batch(NewSg) # {}
  <2>1. Alive("main") # {} BY <1>2, Cleaned
  <2>2. NewSg = notifierSg /\ CleanSkipVersion = skipVersion
    BY <2>1, Cleaned DEF NewSg
  <2>3. notifierSg < skipVersion /\ skipVersion <= latest
    BY <1>2, <2>2 DEF Struct, VersionInv
  <2> QED BY <2>1, <2>2, <2>3 DEF TypeOK, Versions, NothingToRun, Batch
<1> QED BY <1>1, <1>2 DEF RunAsyncNotifiers, RunBegins, NewSg, NoneAlive

-----------------------------------------------------------------------------
(* The steps that deliver a package.                                       *)

Delivers(r) == PromoteToWrite(r) \/ AdvanceToLatest(r) \/ ProcessAvailableAsync(r)
                   \/ AdvanceToReady(r)

Delivered == {"begin", "refresh", "async", "ready"}

\* What they have in common: the Realm alone moves, to a version the file has.
LEMMA DeliveryFrame ==
    ASSUME TypeOK, Struct, NEW r \in Realms, Delivers(r)
    PROVE  /\ UNCHANGED <<program, file, adding, posted, coordinator, results, worker, failed,
                          callback, skipNext, skipped, asked, bare>>
           /\ rpc[r] \in Delivered
           /\ rpc' = [rpc EXCEPT ![r] = IF rpc[r] = "begin" THEN "writing" ELSE "idle"]
           /\ \E v \in Versions : v <= latest /\ readVer' = [readVer EXCEPT ![r] = v]
<1> DEFINE Same == UNCHANGED <<callback, skipNext, skipped, asked, bare>>
           Moves == \E v \in Versions : v <= latest /\ readVer' = [readVer EXCEPT ![r] = v]
           Here == readVer' = [readVer EXCEPT ![r] = readVer[r]]
<1>0. latest \in Versions /\ latest <= latest /\ readVer[r] \in Versions /\ readVer[r] <= latest
  BY DEF TypeOK, Versions, Struct, LockInv
<1>1. \A n \in Packaged(r) : sgVersion[n] \in Versions /\ sgVersion[n] <= latest
  BY PackagedType DEF Struct, PlaceInv, Packaged, NotifiersForRealm
<1>2. ASSUME NEW v, DeliverPackage(r, v) PROVE Same /\ Moves
  BY <1>0, <1>1, <1>2 DEF DeliverPackage, Discard, Deliver, callbacks, history
<1>3. UNCHANGED readVer => Here
  BY DEF TypeOK
<1>4. CASE PromoteToWrite(r)
  BY <1>2, <1>4 DEF PromoteToWrite, At, Goto, Delivered
<1>5. CASE AdvanceToLatest(r)
  BY <1>2, <1>5 DEF AdvanceToLatest, At, Goto, Delivered
<1>6. CASE ProcessAvailableAsync(r)
  BY <1>0, <1>3, <1>6 DEF ProcessAvailableAsync, At, Goto, Delivered, Deliver
<1>7. CASE AdvanceToReady(r)
  <2>1. Same /\ Moves
    BY <1>0, <1>1, <1>3, <1>7 DEF AdvanceToReady, Discard, Deliver, callbacks, history
  <2> QED BY <1>7, <2>1 DEF AdvanceToReady, At, Goto, Delivered
<1> QED BY <1>4, <1>5, <1>6, <1>7 DEF Delivers

-----------------------------------------------------------------------------
(* Every step keeps the lock.                                              *)

LEMMA LockStep == TypeOK /\ Struct /\ [Next]_vars => LockInv'
<1> SUFFICES ASSUME TypeOK, Struct, [Next]_vars PROVE LockInv'
  OBVIOUS
<1> USE VersionAssumption, RealmsAssumption DEF LockInv
<1>0. LockInv BY DEF Struct
<1>1. /\ owner \in [Notifiers -> Realms] /\ rpc \in [Realms -> Stages]
      /\ readVer \in [Realms -> Versions] /\ latest \in Versions
      /\ writer \in Realms \cup {NoRealm}
  BY ProgramsAssumption DEF TypeOK
<1>2. ASSUME UNCHANGED <<rpc, writer, latest, readVer>> PROVE LockInv'
  BY <1>0, <1>2
<1>3. ASSUME NEW r \in Realms, rpc[r] \notin {"begin", "writing"},
             NEW st, st \notin {"begin", "writing"}, rpc' = [rpc EXCEPT ![r] = st],
             UNCHANGED <<writer, latest, readVer>>
      PROVE  LockInv'
  BY <1>0, <1>1, <1>3
<1>4. ASSUME NEW n \in Notifiers,
             PrepareAsync(n) \/ RemoveCallback(n) \/ Unregister(n) \/ SuppressNext(n) PROVE LockInv'
  BY <1>2, <1>4 DEF PrepareAsync, RegisterNotifier, RemoveCallback, Unregister, SuppressNext, file, realms
<1>5. ASSUME NEW n \in Notifiers, AddNotificationCallback(n) PROVE LockInv'
  BY <1>1, <1>3, <1>5 DEF AddNotificationCallback, RegisterNotifier, MayCall, At, Goto, file
<1>6. ASSUME NEW n \in Notifiers, AddCallback(n) PROVE LockInv'
  BY <1>1, <1>2, <1>3, <1>6 DEF AddCallback, At, Goto, file
<1>7. CASE Worker
  BY <1>2, <1>7, RunNeverFails
  DEF Worker, RunBegins, RunSkipped, HandoverSkipped, RunNotifiers, HandoverNotifiers, file, realms
<1>8. ASSUME NEW r \in Realms, Delivers(r) PROVE LockInv'
  BY <1>0, <1>1, <1>8, DeliveryFrame DEF Versions, Delivered, file
<1>9. ASSUME NEW r \in Realms, Notify(r) PROVE LockInv'
  BY <1>2, <1>3, <1>9 DEF Notify, At, Goto, file
<1>10. ASSUME NEW r \in Realms, BeginTransaction(r) PROVE LockInv'
  BY <1>0, <1>1, <1>10 DEF BeginTransaction, MayCall, At, Goto
<1>11. ASSUME NEW r \in Realms, CommitWrite(r) PROVE LockInv'
  BY <1>0, <1>1, <1>11 DEF CommitWrite, At, Goto, Versions, Set
<1>12. ASSUME NEW r \in Realms, CancelTransaction(r) PROVE LockInv'
  BY <1>0, <1>1, <1>12 DEF CancelTransaction, At, Goto, Versions, Set
<1>13. ASSUME NEW r \in Realms, Refresh(r) PROVE LockInv'
  BY <1>3, <1>13 DEF Refresh, MayCall, At, Goto, file
<1>14. CASE OtherCommit
  BY <1>0, <1>1, <1>14 DEF OtherCommit, realms, Versions
<1>15. CASE UNCHANGED vars
  BY <1>2, <1>15 DEF vars, file, realms
<1>16. adding \subseteq Notifiers BY DEF TypeOK
<1> QED
  BY <1>4, <1>5, <1>6, <1>7, <1>8, <1>9, <1>10, <1>11, <1>12, <1>13, <1>14, <1>15, <1>16
  DEF Next, Proceed, EndWrite, Delivers

-----------------------------------------------------------------------------
(* Every step keeps the vectors and the versions.                          *)

CoordInv == WorkerInv /\ PlaceInv /\ VersionInv

\* The first critical section.
LEMMA RunBeginsCoord ==
    ASSUME TypeOK, Struct, RunBegins, wpc = "idle"
    PROVE  CoordInv'
<1> USE VersionAssumption
<1>1. /\ latest' = latest /\ live' = live /\ sgVersion' = sgVersion /\ hasRun' = hasRun
      /\ callback' = callback
  BY DEF RunBegins, file, results, callbacks
<1>2. batch = {} /\ fresh = {} BY DEF Struct, WorkerInv
<1>3. \A n \in Notifiers : /\ n \in Main' <=> n \in Alive("main") \cup Alive("new")
                           /\ place'[n] = "none" <=> place[n] = "none"
                           /\ place'[n] # "new"
                           /\ live[n] => place'[n] = "main"
  BY DEF RunBegins, Main, Alive, Dead, TypeOK, Struct, PlaceInv
<1>4. \A n \in Alive("main") : hasRun[n] /\ sgVersion[n] = notifierSg /\ place[n] = "main"
  BY <1>2 DEF Alive, Struct, PlaceInv, WorkerInv, Main
<1>5. \A n \in Alive("new") : ~hasRun[n] /\ place[n] = "new"
  BY DEF Alive, Struct, PlaceInv
<1>6. /\ Alive("main") # {} => NewSg = notifierSg
      /\ ~NoneAlive => 1 <= NewSg /\ NewSg \in Nat
      /\ NewSg <= latest /\ NewSg \in Nat /\ latest \in Nat
      /\ notifierSg' = NewSg
  BY Cleaned DEF RunBegins, NewSg, NoneAlive, CleanSg, TypeOK, Struct, VersionInv, Versions
<1>7. Main' = {} <=> NoneAlive
  BY <1>3 DEF NoneAlive, Main, Alive
<1>8. skipVersion' = 0
  BY Cleaned DEF RunBegins, NoneAlive
<1>9. CASE NothingToRun(NewSg)
  <2>1. wpc' = "idle" /\ batch' = {} /\ fresh' = {}
    BY <1>9 DEF RunBegins, OnChangeEnds
  <2>2. Alive("new") = {} BY <1>9 DEF NothingToRun
  <2>3. WorkerInv'
    BY <1>1, <1>3, <1>4, <1>6, <2>1, <2>2 DEF WorkerInv, Main, Alive
  <2>4. PlaceInv'
    BY <1>1, <1>3, <1>4, <1>6, <2>1, <2>2 DEF PlaceInv, Main, Alive, Struct, TypeOK
  <2>5. VersionInv'
    BY <1>1, <1>3, <1>4, <1>6, <1>7, <1>8, <2>2 DEF VersionInv, Main, Alive
  <2> QED BY <2>3, <2>4, <2>5 DEF CoordInv
<1>10. CASE ~NothingToRun(NewSg)
  <2>1. /\ batch' = Batch(NewSg) /\ fresh' = Alive("new") /\ target' = latest
        /\ skipTo' = CleanSkipVersion /\ wpc' = IF CleanSkipVersion # 0 THEN "skip" ELSE "run"
    BY <1>10 DEF RunBegins
  <2>2. ~NoneAlive BY <1>10 DEF NothingToRun, NoneAlive
  <2>3. batch' = Alive("main") \/ (batch' = {} /\ NewSg = latest)
    BY <2>1 DEF Batch
  <2>4. CleanSkipVersion # 0 => /\ Alive("main") # {} /\ NewSg = notifierSg /\ NewSg < CleanSkipVersion
                                /\ CleanSkipVersion <= latest /\ batch' = Alive("main")
    <3> SUFFICES ASSUME CleanSkipVersion # 0
                 PROVE  /\ Alive("main") # {} /\ NewSg = notifierSg /\ NewSg < CleanSkipVersion
                        /\ CleanSkipVersion <= latest /\ batch' = Alive("main")
      OBVIOUS
    <3>1. Alive("main") # {} BY Cleaned
    <3>2. NewSg = notifierSg /\ CleanSkipVersion = skipVersion BY <1>6, <3>1, Cleaned
    <3>3. notifierSg < skipVersion /\ skipVersion <= latest BY <3>2 DEF Struct, VersionInv
    <3>4. skipVersion \in Nat BY DEF TypeOK
    <3> QED BY <1>6, <2>3, <3>1, <3>2, <3>3, <3>4
  <2>5. WorkerInv'
    <3>1. wpc' \in {"skip", "run"} /\ target' = latest' /\ notifierSg' <= target' /\ 1 <= target'
      BY <1>1, <1>6, <2>1, <2>2
    <3>2. wpc' = "skip" => batch' # {} /\ notifierSg' < skipTo' /\ skipTo' <= target'
      BY <1>6, <2>1, <2>4
    <3>3. batch' \cup fresh' \subseteq Main'
      BY <1>3, <2>1, <2>3 DEF Alive, Main
    <3>4. (\A n \in batch' : hasRun'[n]) /\ (\A n \in fresh' : ~hasRun'[n])
      BY <1>1, <1>4, <1>5, <2>1, <2>3
    <3>5. \A n \in Main' : n \notin batch' \cup fresh' =>
             batch' = {} /\ sgVersion'[n] = notifierSg' /\ notifierSg' = target'
      BY <1>1, <1>3, <1>4, <1>6, <2>1, <2>3 DEF Main
    <3> QED BY <1>1, <1>6, <3>1, <3>2, <3>3, <3>4, <3>5 DEF WorkerInv
  <2>6. PlaceInv'
    <3>1. \A n \in Notifiers : place'[n] = "main" => n \in Alive("main") \cup Alive("new")
      BY <1>3 DEF Main
    <3>2. \A n \in Notifiers : place'[n] = "main" /\ n \notin fresh' => hasRun'[n]
      BY <1>1, <1>4, <2>1, <3>1
    <3>3. \A n \in Notifiers : place'[n] = "main" /\ hasRun'[n] => sgVersion'[n] <= notifierSg'
      BY <1>1, <1>4, <1>5, <1>6, <3>1
    <3> QED BY <1>1, <1>3, <3>2, <3>3 DEF PlaceInv, Struct, TypeOK
  <2>7. VersionInv'
    <3>1. \A n \in Main' : hasRun[n] => n \in Alive("main") /\ sgVersion[n] = notifierSg
      BY <1>3, <1>4, <1>5 DEF Main
    <3> QED BY <1>1, <1>6, <1>7, <1>8, <3>1 DEF VersionInv
  <2> QED BY <2>5, <2>6, <2>7 DEF CoordInv
<1> QED BY <1>9, <1>10

\* The others.
LEMMA RunCoord ==
    ASSUME TypeOK, Struct, RunSkipped \/ RunNotifiers
    PROVE  CoordInv'
<1>1. /\ UNCHANGED <<latest, place, live, sgVersion, hasRun, callback, advancerSg, skipVersion,
                     batch, fresh, target, skipTo>>
      /\ \/ wpc = "skip" /\ wpc' = "skipped" /\ notifierSg' = skipTo
         \/ wpc = "run" /\ wpc' = "ran" /\ notifierSg' = target
  BY DEF RunSkipped, RunNotifiers, file, callbacks
<1>2. /\ notifierSg \in Nat /\ target \in Nat /\ skipTo \in Nat /\ latest \in Nat
      /\ skipVersion \in Nat /\ sgVersion \in [Notifiers -> Nat]
  BY DEF TypeOK, Versions
<1>3. notifierSg <= notifierSg' /\ notifierSg' <= target /\ target <= latest
      /\ notifierSg' \in Nat /\ (notifierSg' = target \/ notifierSg' = skipTo)
  BY <1>1, <1>2 DEF Struct, WorkerInv
<1>4. WorkerInv'
  BY <1>1, <1>2, <1>3 DEF Struct, WorkerInv, PlaceInv, Main
<1>5. PlaceInv'
  BY <1>1, <1>2, <1>3 DEF Struct, PlaceInv
<1>6. VersionInv'
  BY <1>1, <1>2, <1>3 DEF Struct, VersionInv, Main
<1> QED BY <1>4, <1>5, <1>6 DEF CoordInv

LEMMA HandoverSkippedCoord ==
    ASSUME TypeOK, Struct, HandoverSkipped
    PROVE  CoordInv'
<1>1. /\ UNCHANGED <<latest, place, notifierSg, live, callback, advancerSg, skipVersion,
                     batch, fresh, target, skipTo>>
      /\ wpc = "skipped" /\ wpc' = "run" /\ batch # {} /\ notifierSg = skipTo
      /\ batch \cup fresh \subseteq Main
  BY DEF HandoverSkipped, file, coordinator, Struct, WorkerInv
<1>2. /\ notifierSg \in Nat /\ target \in Nat /\ skipTo \in Nat /\ latest \in Nat
      /\ skipVersion \in Nat /\ sgVersion \in [Notifiers -> Nat]
  BY DEF TypeOK, Versions
<1>3. \A n \in Notifiers : /\ sgVersion'[n] = IF n \in batch THEN notifierSg ELSE sgVersion[n]
                           /\ hasRun'[n] <=> hasRun[n]
  <2>1. sgVersion' = [n \in DOMAIN sgVersion |-> IF n \in batch THEN skipTo ELSE sgVersion[n]]
    BY DEF HandoverSkipped, Handover, Set
  <2>2. hasRun' = [n \in DOMAIN hasRun |-> IF n \in batch THEN TRUE ELSE hasRun[n]]
    BY DEF HandoverSkipped, Handover, Set
  <2>3. \A n \in batch : hasRun[n] BY DEF Struct, WorkerInv
  <2> QED BY <1>1, <2>1, <2>2, <2>3 DEF TypeOK
<1>4. \A n \in Main : n \in batch \/ n \in fresh
  BY <1>1 DEF Struct, WorkerInv
<1>5. 1 <= notifierSg /\ notifierSg <= latest
  BY <1>1 DEF Struct, VersionInv
<1>6. WorkerInv'
  BY <1>1, <1>2, <1>3, <1>4, <1>5 DEF Struct, WorkerInv, Main, TypeOK
<1>7. PlaceInv'
  BY <1>1, <1>2, <1>3, <1>5 DEF Struct, PlaceInv, TypeOK, Main
<1>8. VersionInv'
  <2>1. \A n \in Main : hasRun[n] => n \in batch
    BY <1>4 DEF Struct, WorkerInv
  <2> QED BY <1>1, <1>2, <1>3, <1>5, <2>1 DEF Struct, VersionInv, Main, TypeOK
<1> QED BY <1>6, <1>7, <1>8 DEF CoordInv

LEMMA HandoverNotifiersCoord ==
    ASSUME TypeOK, Struct, HandoverNotifiers
    PROVE  CoordInv'
<1>1. /\ UNCHANGED <<latest, live, callback>>
      /\ wpc = "ran" /\ notifierSg = target /\ batch \cup fresh \subseteq Main
      /\ wpc' = "idle" /\ batch' = {} /\ fresh' = {}
      /\ notifierSg' = CleanSg(notifierSg) /\ skipVersion' = CleanSkipVersion
      /\ advancerSg' = CleanAdvancerSg
      /\ place' = [n \in Notifiers |->
                     IF n \in Dead("main") \cup Dead("new") THEN "gone" ELSE place[n]]
  BY DEF HandoverNotifiers, OnChangeEnds, file, Struct, WorkerInv
<1>2. /\ notifierSg \in Nat /\ target \in Nat /\ latest \in Nat
      /\ skipVersion \in Nat /\ advancerSg \in Nat /\ sgVersion \in [Notifiers -> Nat]
  BY DEF TypeOK, Versions
<1>3. \A n \in Notifiers : /\ sgVersion'[n] = IF n \in batch \cup fresh THEN notifierSg ELSE sgVersion[n]
                           /\ hasRun'[n] <=> hasRun[n] \/ n \in fresh
  <2>1. sgVersion' = [n \in DOMAIN sgVersion |-> IF n \in batch \cup fresh THEN target ELSE sgVersion[n]]
    BY DEF HandoverNotifiers, Handover, Set
  <2>2. hasRun' = [n \in DOMAIN hasRun |-> IF n \in batch \cup fresh THEN TRUE ELSE hasRun[n]]
    BY DEF HandoverNotifiers, Handover, Set
  <2>3. \A n \in batch : hasRun[n] BY DEF Struct, WorkerInv
  <2> QED BY <1>1, <2>1, <2>2, <2>3 DEF TypeOK
<1>4. \A n \in Notifiers : /\ place'[n] \in {place[n], "gone"}
                           /\ place'[n] = "gone" /\ place[n] # "gone" => ~live[n] /\ place[n] # "none"
                           /\ place'[n] = "main" => n \in Alive("main") /\ n \in Main
                           /\ place'[n] = "new" => n \in Alive("new")
  BY <1>1 DEF Alive, Dead, TypeOK, Main
<1>5. \A n \in Notifiers : n \in Main => sgVersion'[n] = notifierSg /\ hasRun'[n]
  BY <1>1, <1>3 DEF Struct, WorkerInv, PlaceInv, Main
<1>6. 1 <= target /\ notifierSg <= latest
  BY <1>1 DEF Struct, WorkerInv, VersionInv
<1>7. Main' = Alive("main")
  BY <1>1 DEF Main, Alive, Dead, TypeOK
<1>8. /\ Alive("main") # {} => notifierSg' = notifierSg /\ skipVersion' = skipVersion
      /\ Alive("main") = {} => skipVersion' = 0 /\ notifierSg' \in {0, notifierSg}
      /\ Alive("new") # {} => advancerSg' = advancerSg
  BY <1>1, Cleaned DEF CleanSg
<1>9. WorkerInv'
  BY <1>1, <1>4, <1>5, <1>7, <1>8 DEF WorkerInv, Main
<1>10. PlaceInv'
  BY <1>1, <1>2, <1>3, <1>4, <1>5, <1>6, <1>8 DEF Struct, PlaceInv, Main
<1>11. VersionInv'
  <2>1. notifierSg' <= latest'
    BY <1>1, <1>2, <1>6, <1>8
  <2>2. \A m, n \in Main' : hasRun'[m] /\ hasRun'[n] => sgVersion'[m] = sgVersion'[n]
    BY <1>4, <1>5 DEF Main
  <2>3. Main' # {} => 1 <= notifierSg'
    BY <1>1, <1>6, <1>7, <1>8
  <2>4. skipVersion' # 0 => Main' # {} /\ notifierSg' < skipVersion' /\ skipVersion' <= latest'
    BY <1>1, <1>7, <1>8 DEF Struct, VersionInv
  <2> QED BY <1>1, <2>1, <2>2, <2>3, <2>4 DEF VersionInv
<1> QED BY <1>9, <1>10, <1>11 DEF CoordInv

LEMMA CoordStep == TypeOK /\ Struct /\ [Next]_vars => CoordInv'
<1> SUFFICES ASSUME TypeOK, Struct, [Next]_vars PROVE CoordInv'
  OBVIOUS
<1> USE VersionAssumption, RealmsAssumption
<1>0. CoordInv BY DEF CoordInv, Struct
<1>1. /\ owner \in [Notifiers -> Realms] /\ readVer \in [Realms -> Versions]
      /\ latest \in Nat /\ notifierSg \in Nat /\ advancerSg \in Nat /\ skipVersion \in Nat
      /\ target \in Nat /\ skipTo \in Nat /\ sgVersion \in [Notifiers -> Nat]
      /\ live \in [Notifiers -> BOOLEAN] /\ callback \in [Notifiers -> BOOLEAN]
      /\ place \in [Notifiers -> {"none", "new", "main", "gone"}]
      /\ adding \subseteq Notifiers
  BY ProgramsAssumption DEF TypeOK, Versions
<1>2. ASSUME UNCHANGED <<latest, place, notifierSg, advancerSg, skipVersion, live, sgVersion,
                         hasRun, callback, worker>>
      PROVE  CoordInv'
  BY <1>0, <1>2 DEF CoordInv, WorkerInv, PlaceInv, VersionInv, Main, worker
<1>3. ASSUME NEW n \in Notifiers, RegisterNotifier(n) PROVE CoordInv'
  <2>1. /\ place[n] = "none" /\ n \notin Main
        /\ place' = [place EXCEPT ![n] = "new"] /\ live' = [live EXCEPT ![n] = TRUE]
        /\ sgVersion' = [sgVersion EXCEPT ![n] = readVer[owner[n]]]
        /\ UNCHANGED <<latest, notifierSg, skipVersion, hasRun, callback, worker>>
    BY <1>3 DEF RegisterNotifier, file, callbacks, Main
  <2>2. readVer[owner[n]] \in Nat /\ 1 <= readVer[owner[n]] /\ readVer[owner[n]] <= latest
    BY <1>1 DEF Struct, LockInv, Versions
  <2>3. Main' = Main BY <1>1, <2>1 DEF Main
  <2>4. /\ 1 <= advancerSg' /\ advancerSg' <= readVer[owner[n]] /\ advancerSg' \in Nat
        /\ advancerSg # 0 => advancerSg' <= advancerSg
    BY <1>1, <1>3, <2>2 DEF RegisterNotifier
  <2>5. WorkerInv' BY <1>0, <1>1, <2>1, <2>3 DEF CoordInv, WorkerInv, worker
  <2>6. PlaceInv' BY <1>0, <1>1, <2>1, <2>2, <2>4 DEF CoordInv, PlaceInv, worker
  <2>7. VersionInv' BY <1>0, <1>1, <2>1, <2>3 DEF CoordInv, VersionInv, worker
  <2> QED BY <2>5, <2>6, <2>7 DEF CoordInv
<1>4. ASSUME NEW n \in Notifiers, PrepareAsync(n) \/ AddNotificationCallback(n) PROVE CoordInv'
  BY <1>3, <1>4 DEF PrepareAsync, AddNotificationCallback
<1>5. ASSUME NEW n \in Notifiers, AddCallback(n) PROVE CoordInv'
  <2>1. /\ live[n] /\ callback' = [callback EXCEPT ![n] = TRUE]
        /\ UNCHANGED <<latest, place, notifierSg, advancerSg, skipVersion, live, sgVersion,
                       hasRun, worker>>
    BY <1>5 DEF AddCallback, file, results
  <2> QED BY <1>0, <1>1, <2>1 DEF CoordInv, WorkerInv, PlaceInv, VersionInv, Main, worker
<1>6. ASSUME NEW n \in Notifiers, RemoveCallback(n) PROVE CoordInv'
  <2>1. /\ callback' = [callback EXCEPT ![n] = FALSE]
        /\ UNCHANGED <<latest, place, notifierSg, advancerSg, skipVersion, live, sgVersion,
                       hasRun, worker>>
    BY <1>6 DEF RemoveCallback, file, results, coordinator
  <2> QED BY <1>0, <1>1, <2>1 DEF CoordInv, WorkerInv, PlaceInv, VersionInv, Main, worker
<1>7. ASSUME NEW n \in Notifiers, Unregister(n) PROVE CoordInv'
  <2>1. /\ live' = [live EXCEPT ![n] = FALSE]
        /\ UNCHANGED <<latest, place, notifierSg, advancerSg, skipVersion, sgVersion,
                       hasRun, callback, worker>>
    BY <1>7 DEF Unregister, file, coordinator, callbacks
  <2> QED BY <1>0, <1>1, <2>1 DEF CoordInv, WorkerInv, PlaceInv, VersionInv, Main, worker
<1>8. ASSUME NEW n \in Notifiers, SuppressNext(n) PROVE CoordInv'
  BY <1>2, <1>8 DEF SuppressNext, file, coordinator, results
<1>9. CASE Worker
  BY <1>9, RunNeverFails, RunBeginsCoord, RunCoord, HandoverSkippedCoord, HandoverNotifiersCoord
  DEF Worker
<1>10. ASSUME NEW r \in Realms, Delivers(r) PROVE CoordInv'
  BY <1>2, <1>10, DeliveryFrame DEF file, coordinator, results
<1>11. ASSUME NEW r \in Realms, Notify(r) \/ BeginTransaction(r) \/ Refresh(r) PROVE CoordInv'
  BY <1>2, <1>11 DEF Notify, BeginTransaction, Refresh, file, coordinator, results, callbacks
<1>12. ASSUME NEW r \in Realms, CommitWrite(r) PROVE CoordInv'
  <2>1. /\ latest' = latest + 1 /\ skipVersion' = SkipVersionFor(r)
        /\ UNCHANGED <<place, notifierSg, advancerSg, live, sgVersion, hasRun, callback, worker>>
    BY <1>12 DEF CommitWrite, results, callbacks
  <2>2. \/ skipVersion' = skipVersion
        \/ skipVersion' = latest + 1 /\ Main # {}
    BY <2>1 DEF SkipVersionFor, Alive, Main
  <2>3. WorkerInv' BY <1>0, <1>1, <2>1 DEF CoordInv, WorkerInv, Main, worker
  <2>4. PlaceInv' BY <1>0, <1>1, <2>1 DEF CoordInv, PlaceInv, worker
  <2>5. VersionInv' BY <1>0, <1>1, <2>1, <2>2 DEF CoordInv, VersionInv, WorkerInv, Main, worker
  <2> QED BY <2>3, <2>4, <2>5 DEF CoordInv
<1>13. ASSUME NEW r \in Realms, CancelTransaction(r) PROVE CoordInv'
  BY <1>2, <1>13 DEF CancelTransaction, Set, coordinator, results, callbacks
<1>14. CASE OtherCommit
  <2>1. /\ latest' = latest + 1
        /\ UNCHANGED <<place, notifierSg, advancerSg, skipVersion, live, sgVersion, hasRun,
                       callback, worker>>
    BY <1>14 DEF OtherCommit, results, callbacks
  <2>2. WorkerInv' BY <1>0, <1>1, <2>1 DEF CoordInv, WorkerInv, Main, worker
  <2>3. PlaceInv' BY <1>0, <1>1, <2>1 DEF CoordInv, PlaceInv, worker
  <2>4. VersionInv' BY <1>0, <1>1, <2>1 DEF CoordInv, VersionInv, WorkerInv, Main, worker
  <2> QED BY <2>2, <2>3, <2>4 DEF CoordInv
<1>15. CASE UNCHANGED vars
  BY <1>2, <1>15 DEF vars, file, coordinator, results, callbacks
<1> QED
  BY <1>1, <1>4, <1>5, <1>6, <1>7, <1>8, <1>9, <1>10, <1>11, <1>12, <1>13, <1>14, <1>15
  DEF Next, Proceed, EndWrite, Delivers

-----------------------------------------------------------------------------
(* What the delivery of a package does to each notifier of its Realm.      *)

Untouched(n) == /\ accumulated'[n] = accumulated[n] /\ initial'[n] = initial[n]
                /\ since'[n] = since[n] /\ reported'[n] = reported[n]

\* Its Realm did not move, or has nothing to tell anybody.
LeftAlone(r, n) ==
    /\ Untouched(n)
    /\ n \in Packaged(r) => readVer'[r] = readVer[r] /\ rpc'[r] # "writing"

\* Its changes are dropped, as nobody is there to be told or the Realm has passed them.
Dropped(r, n) ==
    /\ n \in Packaged(r)
    /\ accumulated'[n] = {} /\ initial'[n] = initial[n]
    /\ since'[n] = since[n] /\ reported'[n] = reported[n]
    /\ callback[n] => /\ sgVersion[n] < readVer[r] /\ readVer'[r] = readVer[r]
                      /\ rpc'[r] # "writing"

\* Its changes are reported, and the Realm goes to the version they lead to.
Told(r, n) ==
    /\ n \in Packaged(r)
    /\ readVer'[r] = sgVersion[n]
    /\ callback[n] /\ rpc'[r] = "writing" => sgVersion[n] = latest
    /\ accumulated'[n] = {}
    /\ initial'[n] <=> callback[n] \/ initial[n]
    /\ since'[n] = IF callback[n] /\ ~initial[n] THEN sgVersion[n] ELSE since[n]
    /\ reported'[n] = IF callback[n] /\ initial[n] THEN reported[n] \cup accumulated[n]
                                                   ELSE reported[n]

LEMMA DeliverOutcome ==
    ASSUME TypeOK, NEW P \in SUBSET Notifiers, NEW v, Deliver(P, v), NEW n \in Notifiers
    PROVE  /\ n \notin P => Untouched(n)
           /\ n \in P =>
                /\ accumulated'[n] = {}
                /\ initial'[n] <=> callback[n] \/ initial[n]
                /\ since'[n] = IF callback[n] /\ ~initial[n] THEN v ELSE since[n]
                /\ reported'[n] = IF callback[n] /\ initial[n] THEN reported[n] \cup accumulated[n]
                                                               ELSE reported[n]
<1>1. accumulated'[n] = IF n \in P THEN {} ELSE accumulated[n]
  BY DEF TypeOK, Deliver, Set, Remaining
<1>2. initial'[n] = IF n \in P /\ callback[n] THEN TRUE ELSE initial[n]
  BY DEF TypeOK, Deliver, Set
<1>3. since'[n] = IF n \in P /\ callback[n] /\ ~initial[n] THEN v ELSE since[n]
  BY DEF TypeOK, Deliver, Set
<1>4. reported'[n] = IF n \in P /\ callback[n] /\ initial[n] THEN reported[n] \cup accumulated[n]
                                                             ELSE reported[n]
  BY DEF TypeOK, Deliver, Set
<1>5. initial[n] \in BOOLEAN /\ callback[n] \in BOOLEAN BY DEF TypeOK
<1>6. n \notin P => Untouched(n) BY <1>1, <1>2, <1>3, <1>4 DEF Untouched
<1>7. n \in P => (initial'[n] <=> callback[n] \/ initial[n])
  BY <1>2, <1>5
<1>8. n \in P => accumulated'[n] = {} BY <1>1
<1>9. n \in P => since'[n] = IF callback[n] /\ ~initial[n] THEN v ELSE since[n]
  BY <1>3
<1>10. n \in P => reported'[n] = IF callback[n] /\ initial[n] THEN reported[n] \cup accumulated[n]
                                                              ELSE reported[n]
  BY <1>4
<1> QED BY <1>6, <1>7, <1>8, <1>9, <1>10

LEMMA DiscardOutcome ==
    ASSUME TypeOK, NEW P \in SUBSET Notifiers, Discard(P), NEW n \in Notifiers
    PROVE  /\ n \notin P => Untouched(n)
           /\ n \in P => /\ accumulated'[n] = {} /\ initial'[n] = initial[n]
                         /\ since'[n] = since[n] /\ reported'[n] = reported[n]
BY DEF TypeOK, Discard, Set, Remaining, history, Untouched

\* A package has one version.
LEMMA PackageVersion ==
    ASSUME TypeOK, Struct, NEW r \in Realms
    PROVE  \A m, n \in Packaged(r) : sgVersion[m] = sgVersion[n]
BY DEF TypeOK, Struct, VersionInv, PlaceInv, Packaged, NotifiersForRealm, Main

LEMMA DeliveryOutcome ==
    ASSUME TypeOK, Struct, NEW r \in Realms, Delivers(r), NEW n \in Notifiers
    PROVE  LeftAlone(r, n) \/ Dropped(r, n) \/ Told(r, n)
<1> DEFINE P == Packaged(r)
<1>1. P \in SUBSET Notifiers BY PackagedType DEF Struct
<1>2. \A m, k \in P : sgVersion[m] = sgVersion[k] BY PackageVersion
<1>3. \A k \in P : sgVersion[k] \in Nat /\ sgVersion[k] <= latest /\ k \in NotifiersForRealm(r)
  BY <1>1 DEF TypeOK, Struct, PlaceInv, Packaged
<1>4. latest \in Nat /\ readVer \in [Realms -> Nat] /\ want \in [Realms -> Nat]
      /\ rpc \in [Realms -> Stages]
  BY DEF TypeOK, Versions
<1>5. ASSUME UNCHANGED <<callbacks, history>> PROVE Untouched(n)
  BY <1>5 DEF callbacks, history, Untouched
<1>6. ASSUME NEW v \in Nat, DeliverPackage(r, v), Ready(r, v),
             rpc'[r] = "writing" => v = latest
      PROVE  LeftAlone(r, n) \/ Dropped(r, n) \/ Told(r, n)
  <2>1. CASE P = {} /\ UNCHANGED <<callbacks, history>>
    BY <1>5, <2>1 DEF LeftAlone
  <2>2. ASSUME NEW k \in P, sgVersion[k] < v, Discard(P)
        PROVE  LeftAlone(r, n) \/ Dropped(r, n)
    <3>1. n \notin P => LeftAlone(r, n)
      BY <1>1, <2>2, DiscardOutcome DEF LeftAlone
    <3>2. n \in P => ~callback[n]
      BY <1>2, <1>3, <1>6, <2>2 DEF Ready
    <3>3. n \in P => Dropped(r, n)
      BY <1>1, <2>2, <3>2, DiscardOutcome DEF Dropped
    <3> QED BY <3>1, <3>3
  <2>3. ASSUME NEW k \in P, readVer' = [readVer EXCEPT ![r] = sgVersion[k]],
               Deliver(P, sgVersion[k])
        PROVE  LeftAlone(r, n) \/ Told(r, n)
    <3>1. n \notin P => LeftAlone(r, n)
      BY <1>1, <2>3, DeliverOutcome DEF LeftAlone
    <3>2. ASSUME n \in P PROVE Told(r, n)
      <4>1. sgVersion[k] = sgVersion[n] BY <1>2, <3>2
      <4>2. readVer'[r] = sgVersion[n] BY <1>4, <2>3, <4>1
      <4>3. callback[n] /\ rpc'[r] = "writing" => sgVersion[n] = latest
        BY <1>3, <1>6, <3>2 DEF Ready
      <4> QED BY <1>1, <2>3, <3>2, <4>1, <4>2, <4>3, DeliverOutcome DEF Told
    <3> QED BY <3>1, <3>2
  <2> QED BY <1>6, <2>1, <2>2, <2>3 DEF DeliverPackage
<1>7. CASE PromoteToWrite(r)
  BY <1>4, <1>6, <1>7 DEF PromoteToWrite
<1>8. CASE AdvanceToLatest(r)
  BY <1>4, <1>6, <1>8 DEF AdvanceToLatest, Goto
<1>9. CASE ProcessAvailableAsync(r)
  <2>1. {k \in Packaged(r) : sgVersion[k] = readVer[r]} \in SUBSET Notifiers BY <1>1
  <2>2. Deliver({k \in Packaged(r) : sgVersion[k] = readVer[r]}, readVer[r])
        /\ readVer' = readVer /\ rpc'[r] = "idle"
    BY <1>4, <1>9 DEF ProcessAvailableAsync, Goto
  <2>3. CASE n \in P /\ sgVersion[n] = readVer[r]
    BY <2>1, <2>2, <2>3, DeliverOutcome DEF Told
  <2>4. CASE ~(n \in P /\ sgVersion[n] = readVer[r])
    BY <2>1, <2>2, <2>4, DeliverOutcome DEF LeftAlone
  <2> QED BY <2>3, <2>4
<1>10. CASE AdvanceToReady(r)
  <2>0. rpc'[r] = "idle" BY <1>4, <1>10 DEF AdvanceToReady, Goto
  <2>1. CASE P = {} /\ UNCHANGED <<callbacks, history>>
    BY <1>5, <2>1 DEF LeftAlone
  <2>2. ASSUME NEW k \in P, sgVersion[k] < readVer[r], UNCHANGED readVer, Discard(P)
        PROVE  LeftAlone(r, n) \/ Dropped(r, n)
    <3>1. n \notin P => LeftAlone(r, n)
      BY <1>1, <2>2, DiscardOutcome DEF LeftAlone
    <3>2. n \in P => sgVersion[n] = sgVersion[k]
      BY <1>2, <2>2
    <3>3. n \in P => Dropped(r, n)
      BY <1>1, <2>0, <2>2, <3>2, DiscardOutcome DEF Dropped
    <3> QED BY <3>1, <3>3
  <2>3. ASSUME NEW k \in P, readVer' = [readVer EXCEPT ![r] = sgVersion[k]],
               Deliver(P, sgVersion[k])
        PROVE  LeftAlone(r, n) \/ Told(r, n)
    <3>1. n \notin P => LeftAlone(r, n)
      BY <1>1, <2>3, DeliverOutcome DEF LeftAlone
    <3>2. ASSUME n \in P PROVE Told(r, n)
      <4>1. sgVersion[k] = sgVersion[n] BY <1>2, <3>2
      <4>2. readVer'[r] = sgVersion[n] BY <1>4, <2>3, <4>1
      <4> QED BY <1>1, <2>0, <2>3, <3>2, <4>1, <4>2, DeliverOutcome DEF Told
    <3> QED BY <3>1, <3>2
  <2> QED BY <1>10, <2>1, <2>2, <2>3 DEF AdvanceToReady
<1> QED BY <1>7, <1>8, <1>9, <1>10 DEF Delivers

-----------------------------------------------------------------------------
(* What is waiting to be reported is older than what is found out next.    *)

DataOf(n) ==
    /\ ~Pending(n) => change[n] = {}
    /\ place[n] \in {"none", "new"} => rows[n] = 0
    /\ place[n] = "main" => rows[n] <= notifierSg
    /\ \A v \in accumulated[n] \cup reported[n] \cup change[n] : v <= rows[n]
    /\ \A v \in accumulated[n] \cup reported[n], w \in change[n] : v < w
    /\ accumulated[n] \cap reported[n] = {}

DataInv == \A n \in Notifiers : DataOf(n)

\* Running the notifiers N at version v, from the worker's version.
LEMMA RunData ==
    ASSUME TypeOK, Struct, DataInv, NEW N \in SUBSET Main, NEW v \in Nat,
           Run(N, v), v = notifierSg', notifierSg <= v, place' = place, live' = live,
           UNCHANGED callbacks, wpc \in {"skip", "run"}, \A n \in N : Pending(n)'
    PROVE  DataInv'
<1> SUFFICES ASSUME NEW n \in Notifiers PROVE DataOf(n)'
  BY DEF DataInv
<1>1. /\ notifierSg \in Nat /\ rows[n] \in Nat /\ rows \in [Notifiers -> Nat]
      /\ change \in [Notifiers -> SUBSET Versions] /\ N \subseteq Notifiers
      /\ accumulated[n] \subseteq Nat /\ reported[n] \subseteq Nat
  BY DEF TypeOK, Versions, Main
<1>2. /\ change[n] = {}
      /\ ~Pending(n)' => n \notin N
  BY DEF DataInv, DataOf, Pending
<1>3. accumulated' = accumulated /\ reported' = reported
  BY DEF callbacks, Run
<1>4. \/ UNCHANGED <<change[n], rows[n]>>
      \/ n \in N /\ change'[n] = change[n] /\ rows'[n] = v
      \/ n \in N /\ change'[n] = rows[n] + 1 .. v /\ rows'[n] = v
  BY <1>1 DEF Run, Set, Changes
<1>5. n \in N => place[n] = "main" BY DEF Main
<1>6. rows[n] <= rows'[n] /\ (place[n] = "main" => rows'[n] <= notifierSg')
      /\ rows'[n] \in Nat
  BY <1>1, <1>4, <1>5 DEF DataInv, DataOf
<1>7. change'[n] = {} \/ (rows'[n] = v /\ change'[n] = rows[n] + 1 .. v)
  BY <1>2, <1>4
<1>8. ~Pending(n)' => change'[n] = {}
  BY <1>2, <1>4
<1>9. place'[n] \in {"none", "new"} => rows'[n] = 0
  BY <1>4, <1>5 DEF DataInv, DataOf
<1>10. \A w \in accumulated'[n] \cup reported'[n] : w <= rows[n] /\ w \in Nat
  BY <1>1, <1>3 DEF DataInv, DataOf
<1>11. \A w \in accumulated'[n] \cup reported'[n] \cup change'[n] : w <= rows'[n]
  BY <1>1, <1>6, <1>7, <1>10
<1>12. \A w \in accumulated'[n] \cup reported'[n], x \in change'[n] : w < x
  BY <1>1, <1>7, <1>10
<1>13. accumulated'[n] \cap reported'[n] = {}
  BY <1>3 DEF DataInv, DataOf
<1> QED BY <1>6, <1>8, <1>9, <1>11, <1>12, <1>13 DEF DataOf

\* Handing over the notifiers N.
LEMMA HandoverData ==
    ASSUME TypeOK, Struct, DataInv, NEW N \in SUBSET Notifiers, NEW v,
           Handover(N, v), UNCHANGED <<rows, reported>>,
           wpc' \in {"idle", "run"}, \A n \in Notifiers : Pending(n) => n \in N,
           NEW n \in Notifiers
    PROVE  /\ change'[n] = {}
           /\ \A w \in accumulated'[n] \cup reported'[n] : w <= rows'[n]
           /\ accumulated'[n] \cap reported'[n] = {}
<1>1. change' = [m \in Notifiers |-> IF m \in N THEN {} ELSE change[m]]
  BY DEF Handover, Set, TypeOK
<1>2. accumulated'[n] \subseteq accumulated[n] \cup change[n]
  BY DEF Handover, Set, TypeOK
<1>3. change[n] \subseteq Nat /\ reported[n] \subseteq Nat
  BY DEF TypeOK, Versions
<1>4. \A w \in reported[n] : w \notin change[n]
  BY <1>3 DEF DataInv, DataOf
<1>5. change'[n] = {} BY <1>1 DEF DataInv, DataOf
<1>6. \A w \in accumulated'[n] \cup reported'[n] : w <= rows'[n]
  BY <1>2 DEF DataInv, DataOf
<1>7. accumulated'[n] \cap reported'[n] = {}
  BY <1>2, <1>4 DEF DataInv, DataOf
<1> QED BY <1>5, <1>6, <1>7

LEMMA DataStep == TypeOK /\ Struct /\ DataInv /\ [Next]_vars => DataInv'
<1> SUFFICES ASSUME TypeOK, Struct, DataInv, [Next]_vars PROVE DataInv'
  OBVIOUS
<1>1. /\ notifierSg \in Nat /\ latest \in Nat /\ target \in Nat /\ skipTo \in Nat
      /\ rows \in [Notifiers -> Nat]
      /\ adding \subseteq Notifiers
      /\ place \in [Notifiers -> {"none", "new", "main", "gone"}]
      /\ batch \subseteq Notifiers /\ fresh \subseteq Notifiers
  BY DEF TypeOK, Versions
<1>2. ASSUME UNCHANGED <<place, notifierSg, rows, change, accumulated, reported, worker>>
      PROVE  DataInv'
  BY <1>2 DEF DataInv, DataOf, Pending, worker
<1>3. ASSUME NEW n \in Notifiers, PrepareAsync(n) \/ AddNotificationCallback(n) PROVE DataInv'
  <2>1. /\ place[n] = "none" /\ place' = [place EXCEPT ![n] = "new"]
        /\ UNCHANGED <<notifierSg, rows, change, accumulated, reported, worker>>
    BY <1>3 DEF PrepareAsync, AddNotificationCallback, RegisterNotifier, callbacks, history
  <2> QED BY <1>1, <2>1 DEF DataInv, DataOf, Pending, worker
<1>4. ASSUME NEW n \in Notifiers, AddCallback(n) \/ Unregister(n) \/ SuppressNext(n) PROVE DataInv'
  BY <1>2, <1>4 DEF AddCallback, Unregister, SuppressNext, coordinator, results, callbacks, history
<1>5. ASSUME NEW n \in Notifiers, RemoveCallback(n) PROVE DataInv'
  <2>1. /\ UNCHANGED <<place, notifierSg, rows, change, worker>>
        /\ \A m \in Notifiers : /\ accumulated'[m] \in {{}, accumulated[m]}
                                /\ reported'[m] \in {{}, reported[m]}
    BY <1>5 DEF RemoveCallback, coordinator, results, TypeOK
  <2> QED BY <2>1 DEF DataInv, DataOf, Pending, worker
<1>6. CASE RunAsyncNotifiers
  <2>1. RunBegins /\ wpc = "idle" BY <1>6, RunNeverFails
  <2>2. /\ UNCHANGED <<rows, change, accumulated, reported>>
        /\ wpc' \in {"idle", "skip", "run"} /\ notifierSg' = NewSg
    BY <2>1 DEF RunBegins, OnChangeEnds, results, callbacks, history
  <2>3. \A n \in Notifiers : change[n] = {}
    BY <2>1 DEF DataInv, DataOf, Pending
  <2>4. \A n \in Notifiers : /\ place'[n] \in {"none", "new"} => place[n] \in {"none", "new"}
                             /\ place'[n] = "main" => n \in Alive("main") \cup Alive("new")
    BY <1>1, <2>1 DEF RunBegins, Alive, Dead
  <2>5. Alive("main") # {} => NewSg = notifierSg
    BY Cleaned DEF NewSg
  <2>6. NewSg \in Nat BY <1>1 DEF NewSg, CleanSg
  <2>7. \A n \in Notifiers : place'[n] = "main" => rows[n] <= NewSg
    BY <1>1, <2>4, <2>5, <2>6 DEF DataInv, DataOf, Alive
  <2> QED BY <2>2, <2>3, <2>4, <2>7 DEF DataInv, DataOf
<1>7. CASE RunSkipped
  <2>1. batch \in SUBSET Main /\ notifierSg <= skipTo BY <1>1, <1>7 DEF RunSkipped, Struct, WorkerInv
  <2>2. /\ Run(batch, skipTo) /\ skipTo = notifierSg' /\ wpc = "skip" /\ wpc' = "skipped"
        /\ place' = place /\ live' = live /\ UNCHANGED <<callbacks, batch, fresh>>
    BY <1>7 DEF RunSkipped
  <2>3. \A n \in batch : Pending(n)' BY <2>2 DEF Pending
  <2>4. UNCHANGED callbacks /\ wpc \in {"skip", "run"} BY <2>2
  <2> QED BY <1>1, <2>1, <2>2, <2>3, <2>4, RunData
<1>8. CASE RunNotifiers
  <2>1. batch \cup fresh \subseteq Main /\ notifierSg <= target
    BY <1>1, <1>8 DEF RunNotifiers, Struct, WorkerInv
  <2>2. /\ Run(batch \cup fresh, target) /\ target = notifierSg' /\ wpc = "run" /\ wpc' = "ran"
        /\ place' = place /\ live' = live /\ UNCHANGED <<callbacks, batch, fresh>>
    BY <1>8 DEF RunNotifiers
  <2>3. \A n \in batch \cup fresh : Pending(n)' BY <2>2 DEF Pending
  <2>4. UNCHANGED callbacks /\ wpc \in {"skip", "run"} BY <2>2
  <2> QED BY <1>1, <2>1, <2>2, <2>3, <2>4, RunData
<1>9. CASE HandoverSkipped
  <2>1. /\ Handover(batch, skipTo) /\ UNCHANGED <<place, notifierSg, rows, reported>> /\ wpc' = "run"
        /\ \A n \in Notifiers : Pending(n) => n \in batch
    BY <1>9 DEF HandoverSkipped, coordinator, history, Pending
  <2>2. \A n \in Notifiers : /\ change'[n] = {}
                             /\ \A w \in accumulated'[n] \cup reported'[n] : w <= rows'[n]
                             /\ accumulated'[n] \cap reported'[n] = {}
    BY <1>1, <2>1, HandoverData
  <2> QED BY <2>1, <2>2 DEF DataInv, DataOf
<1>10. CASE HandoverNotifiers
  <2>1. /\ Handover(batch \cup fresh, target) /\ UNCHANGED <<rows, reported>> /\ wpc' = "idle"
        /\ \A n \in Notifiers : Pending(n) => n \in batch \cup fresh
    BY <1>10 DEF HandoverNotifiers, OnChangeEnds, history, Pending
  <2>2. \A n \in Notifiers : /\ change'[n] = {}
                             /\ \A w \in accumulated'[n] \cup reported'[n] : w <= rows'[n]
                             /\ accumulated'[n] \cap reported'[n] = {}
    BY <1>1, <2>1, HandoverData
  <2>3. \A n \in Notifiers : /\ place'[n] \in {"none", "new"} => place[n] \in {"none", "new"}
                             /\ place'[n] = "main" => n \in Alive("main")
    BY <1>1, <1>10 DEF HandoverNotifiers, Alive, Dead
  <2>4. Alive("main") # {} => notifierSg' = notifierSg
    BY <1>10, Cleaned DEF HandoverNotifiers
  <2>5. \A n \in Notifiers : place'[n] = "main" => rows'[n] <= notifierSg'
    BY <2>1, <2>3, <2>4 DEF DataInv, DataOf, Alive
  <2> QED BY <2>1, <2>2, <2>3, <2>5 DEF DataInv, DataOf
<1>11. ASSUME NEW r \in Realms, Delivers(r) PROVE DataInv'
  <2>1. UNCHANGED <<place, notifierSg, rows, change, worker>>
    BY <1>11, DeliveryFrame DEF coordinator, results
  <2>2. \A n \in Notifiers : \/ Untouched(n)
                             \/ /\ accumulated'[n] = {}
                                /\ reported'[n] \subseteq reported[n] \cup accumulated[n]
    BY <1>11, DeliveryOutcome DEF LeftAlone, Dropped, Told
  <2> QED BY <2>1, <2>2 DEF DataInv, DataOf, Pending, worker, Untouched
<1>12. ASSUME NEW r \in Realms, Notify(r) \/ BeginTransaction(r) \/ Refresh(r) PROVE DataInv'
  BY <1>2, <1>12 DEF Notify, BeginTransaction, Refresh, coordinator, results, callbacks, history
<1>13. ASSUME NEW r \in Realms, CommitWrite(r) \/ CancelTransaction(r) PROVE DataInv'
  BY <1>2, <1>13 DEF CommitWrite, CancelTransaction, Set, coordinator, results, callbacks
<1>14. CASE OtherCommit
  BY <1>2, <1>14 DEF OtherCommit, results, callbacks, history
<1>15. CASE UNCHANGED vars
  BY <1>2, <1>15 DEF vars, coordinator, results, callbacks, history
<1> QED
  BY <1>1, <1>3, <1>4, <1>5, <1>6, <1>7, <1>8, <1>9, <1>10, <1>11, <1>12, <1>13, <1>14, <1>15
  DEF Next, Worker, Proceed, EndWrite, Delivers

-----------------------------------------------------------------------------
(* What holds of every application.                                        *)

BaseInv == TypeOK /\ Struct /\ DataInv /\ failed = "no"

\* The steps that are not the worker's leave failed alone, and all of them the program.
LEMMA FrameStep ==
    ASSUME TypeOK, Struct, failed = "no", [Next]_vars
    PROVE  failed' = "no" /\ UNCHANGED program
<1>1. ASSUME NEW n \in Notifiers,
             PrepareAsync(n) \/ AddNotificationCallback(n) \/ AddCallback(n) \/ RemoveCallback(n)
                \/ Unregister(n) \/ SuppressNext(n)
      PROVE  UNCHANGED <<failed, program>>
  BY <1>1 DEF PrepareAsync, AddNotificationCallback, RegisterNotifier, AddCallback,
              RemoveCallback, Unregister, SuppressNext
<1>2. CASE Worker
  <2>1. CASE RunAsyncNotifiers BY <2>1, RunNeverFails DEF RunBegins
  <2>2. CASE RunSkipped \/ RunNotifiers BY <2>2 DEF RunSkipped, RunNotifiers
  <2>3. CASE HandoverSkipped BY <2>3 DEF HandoverSkipped
  <2>4. CASE HandoverNotifiers BY <2>4 DEF HandoverNotifiers
  <2> QED BY <1>2, <2>1, <2>2, <2>3, <2>4 DEF Worker
<1>3. ASSUME NEW r \in Realms, Delivers(r) PROVE UNCHANGED <<failed, program>>
  BY <1>3, DeliveryFrame
<1>4. ASSUME NEW r \in Realms, Notify(r) \/ BeginTransaction(r) \/ Refresh(r)
      PROVE  UNCHANGED <<failed, program>>
  BY <1>4 DEF Notify, BeginTransaction, Refresh
<1>5. ASSUME NEW r \in Realms, CommitWrite(r) \/ CancelTransaction(r)
      PROVE  UNCHANGED <<failed, program>>
  BY <1>5 DEF CommitWrite, CancelTransaction, Set
<1>6. CASE OtherCommit BY <1>6 DEF OtherCommit
<1>7. CASE UNCHANGED vars BY <1>7 DEF vars
<1>8. adding \subseteq Notifiers BY DEF TypeOK
<1> QED BY <1>1, <1>2, <1>3, <1>4, <1>5, <1>6, <1>7, <1>8 DEF Next, Proceed, EndWrite, Delivers

LEMMA BaseInit == Init => BaseInv
<1> SUFFICES ASSUME Init PROVE BaseInv
  OBVIOUS
<1> USE VersionAssumption, RealmsAssumption DEF Init
<1>1. [calls |-> calls, owner |-> owner] \in Programs
  <2>1. PICK p \in Programs : calls = p.calls /\ owner = p.owner OBVIOUS
  <2>2. p = [calls |-> p.calls, owner |-> p.owner] BY ProgramsAssumption
  <2> QED BY <2>1, <2>2
<1>2. TypeOK
  <2>1. /\ latest \in Versions /\ readVer \in [Realms -> Versions] /\ want \in [Realms -> Versions]
        /\ {notifierSg, advancerSg, skipVersion} \subseteq 0..MaxVersion
        /\ target \in 0..MaxVersion /\ skipTo \in 0..MaxVersion
        /\ sgVersion \in [Notifiers -> 0..MaxVersion] /\ rows \in [Notifiers -> 0..MaxVersion]
        /\ since \in [Notifiers -> 0..MaxVersion]
    BY DEF Versions
  <2>2. /\ writer \in Realms \cup {NoRealm} /\ rpc \in [Realms -> Stages]
        /\ adding \subseteq Notifiers /\ batch \subseteq Notifiers /\ fresh \subseteq Notifiers
        /\ bare \subseteq Notifiers
        /\ place \in [Notifiers -> {"none", "new", "main", "gone"}]
        /\ wpc \in {"idle", "skip", "skipped", "run", "ran"}
        /\ failed \in {"no", "advancer", "spurious", "skip"}
    BY DEF Stages
  <2>3. /\ posted \in [Realms -> BOOLEAN] /\ woken \in BOOLEAN
        /\ live \in [Notifiers -> BOOLEAN] /\ hasRun \in [Notifiers -> BOOLEAN]
        /\ callback \in [Notifiers -> BOOLEAN] /\ initial \in [Notifiers -> BOOLEAN]
        /\ skipNext \in [Notifiers -> BOOLEAN] /\ asked \in [Notifiers -> BOOLEAN]
    OBVIOUS
  <2>4. /\ change \in [Notifiers -> SUBSET Versions] /\ accumulated \in [Notifiers -> SUBSET Versions]
        /\ reported \in [Notifiers -> SUBSET Versions] /\ skipped \in [Notifiers -> SUBSET Versions]
    OBVIOUS
  <2> QED BY <1>1, <2>1, <2>2, <2>3, <2>4 DEF TypeOK
<1>3. LockInv BY DEF LockInv
<1>4. WorkerInv BY DEF WorkerInv, Main
<1>5. PlaceInv BY DEF PlaceInv
<1>6. VersionInv BY DEF VersionInv, Main
<1>7. DataInv BY DEF DataInv, DataOf
<1> QED BY <1>2, <1>3, <1>4, <1>5, <1>6, <1>7 DEF BaseInv, Struct

LEMMA BaseStep == BaseInv /\ [Next]_vars => BaseInv'
<1> SUFFICES ASSUME BaseInv, [Next]_vars PROVE BaseInv'
  OBVIOUS
<1>1. TypeOK /\ Struct /\ DataInv /\ failed = "no" BY DEF BaseInv
<1>2. TypeOK' BY <1>1, TypeStep DEF Struct
<1>3. LockInv' BY <1>1, LockStep
<1>4. CoordInv' BY <1>1, CoordStep
<1>5. DataInv' BY <1>1, DataStep
<1>6. failed' = "no" BY <1>1, FrameStep
<1> QED BY <1>2, <1>3, <1>4, <1>5, <1>6 DEF BaseInv, Struct, CoordInv

LEMMA BaseInvariant == Spec => []BaseInv
BY BaseInit, BaseStep, PTL DEF Spec

\* The variables keep their types, whatever the application calls.
THEOREM TypeCorrect == Spec => []TypeOK
<1>1. BaseInv => TypeOK BY DEF BaseInv
<1> QED BY <1>1, BaseInvariant, PTL

\* No assertion of run_async_notifiers() can fail: the notifiers it takes up were registered
\* at a version that m_advancer_sg still has, and a skip version lies ahead of notifiers
\* that are there to be taken to it.
THEOREM AssertionsNeverFail == Spec => []AssertionsHold
<1>1. BaseInv => AssertionsHold BY DEF BaseInv, AssertionsHold
<1> QED BY <1>1, BaseInvariant, PTL

\* The notifiers a package is made of are at one version, so that the version of the last
\* one is the version of the package.
THEOREM PackagesHaveOneVersion == Spec => []PackageHasOneVersion
<1>1. BaseInv => PackageHasOneVersion
  BY PackageVersion DEF BaseInv, PackageHasOneVersion
<1> QED BY <1>1, BaseInvariant, PTL

\* No change is reported twice, across handovers, deliveries and packages that were dropped.
THEOREM ChangesReportedOnce == Spec => []ReportedOnce
<1>1. BaseInv => ReportedOnce BY DEF BaseInv, DataInv, DataOf, ReportedOnce
<1> QED BY <1>1, BaseInvariant, PTL

-----------------------------------------------------------------------------
(* What the worker does to each notifier, in terms of what is pending.     *)

LEMMA RunOutcome ==
    ASSUME TypeOK, Struct, RunSkipped \/ RunNotifiers
    PROVE  /\ UNCHANGED <<program, file, realms, live, sgVersion, hasRun, callbacks,
                          since, reported, skipped, asked, skipVersion, target, skipTo>>
           /\ \/ wpc = "skip" /\ wpc' = "skipped"
              \/ wpc = "run" /\ wpc' = "ran"
           /\ \A n \in Notifiers :
                /\ ~Pending(n)
                /\ ~Pending(n)' => UNCHANGED <<change[n], rows[n]>> /\ (n \in bare' <=> n \in bare)
                /\ Pending(n)' /\ n \notin bare' => callback[n] /\ n \notin bare
                /\ Pending(n)' /\ live[n] /\ callback[n] =>
                      /\ rows'[n] = notifierSg'
                      /\ change'[n] = IF hasRun[n] THEN rows[n] + 1 .. notifierSg' ELSE change[n]
<1>1. ASSUME NEW N \in SUBSET Notifiers, NEW v, Run(N, v), NEW n \in Notifiers
      PROVE  /\ n \notin N => UNCHANGED <<change[n], rows[n]>> /\ (n \in bare' <=> n \in bare)
             /\ n \in N /\ n \notin bare' => callback[n] /\ n \notin bare
             /\ n \in N /\ live[n] /\ callback[n] =>
                   /\ rows'[n] = v
                   /\ change'[n] = IF hasRun[n] THEN rows[n] + 1 .. v ELSE change[n]
  <2>1. PICK unused \in SUBSET {k \in N : ~callback[k]} :
          /\ change' = [k \in Notifiers |-> IF k \in {m \in {j \in N \ unused : live[j]} : hasRun[m] /\ callback[m]}
                                            THEN rows[k] + 1 .. v ELSE change[k]]
          /\ rows' = [k \in Notifiers |-> IF k \in {j \in N \ unused : live[j]} THEN v ELSE rows[k]]
    BY <1>1 DEF Run, Set, Changes, TypeOK
  <2>2. bare' = bare \cup {k \in N : ~callback[k]} BY <1>1 DEF Run
  <2> QED BY <2>1, <2>2
<1>2. UNCHANGED <<program, file, realms, live, sgVersion, hasRun, callbacks,
                  since, reported, skipped, asked, skipVersion, target, skipTo, batch, fresh>>
  BY DEF RunSkipped, RunNotifiers, Run
<1>3. batch \in SUBSET Notifiers /\ batch \cup fresh \in SUBSET Notifiers
  BY DEF TypeOK
<1>4. CASE RunSkipped
  <2>1. wpc = "skip" /\ wpc' = "skipped" /\ Run(batch, skipTo) /\ notifierSg' = skipTo
    BY <1>4 DEF RunSkipped
  <2>2. \A n \in Notifiers : ~Pending(n) /\ (Pending(n)' <=> n \in batch)
    BY <1>2, <2>1 DEF Pending
  <2>3. \A n \in Notifiers :
          /\ n \notin batch => UNCHANGED <<change[n], rows[n]>> /\ (n \in bare' <=> n \in bare)
          /\ n \in batch /\ n \notin bare' => callback[n] /\ n \notin bare
          /\ n \in batch /\ live[n] /\ callback[n] =>
                /\ rows'[n] = notifierSg'
                /\ change'[n] = IF hasRun[n] THEN rows[n] + 1 .. notifierSg' ELSE change[n]
    BY <1>1, <1>3, <2>1
  <2> QED BY <1>2, <2>1, <2>2, <2>3
<1>5. CASE RunNotifiers
  <2>1. wpc = "run" /\ wpc' = "ran" /\ Run(batch \cup fresh, target) /\ notifierSg' = target
    BY <1>5 DEF RunNotifiers
  <2>2. \A n \in Notifiers : ~Pending(n) /\ (Pending(n)' <=> n \in batch \cup fresh)
    BY <1>2, <2>1 DEF Pending
  <2>3. \A n \in Notifiers :
          /\ n \notin batch \cup fresh => UNCHANGED <<change[n], rows[n]>> /\ (n \in bare' <=> n \in bare)
          /\ n \in batch \cup fresh /\ n \notin bare' => callback[n] /\ n \notin bare
          /\ n \in batch \cup fresh /\ live[n] /\ callback[n] =>
                /\ rows'[n] = notifierSg'
                /\ change'[n] = IF hasRun[n] THEN rows[n] + 1 .. notifierSg' ELSE change[n]
    BY <1>1, <1>3, <2>1
  <2> QED BY <1>2, <2>1, <2>2, <2>3
<1> QED BY <1>4, <1>5

LEMMA HandoverOutcome ==
    ASSUME TypeOK, Struct, HandoverSkipped \/ HandoverNotifiers
    PROVE  /\ UNCHANGED <<program, file, rpc, adding, readVer, live, rows, callback, initial, history>>
           /\ \/ wpc = "skipped" /\ wpc' = "run"
              \/ wpc = "ran" /\ wpc' = "idle"
           /\ \A n \in Notifiers :
                /\ ~Pending(n)'
                /\ sgVersion'[n] = IF Pending(n) THEN notifierSg ELSE sgVersion[n]
                /\ hasRun'[n] <=> hasRun[n] \/ Pending(n)
                /\ accumulated'[n] = IF Pending(n) /\ callback[n] /\ ~skipNext[n]
                                     THEN accumulated[n] \cup change[n] ELSE accumulated[n]
                /\ skipNext'[n] <=> skipNext[n] /\ ~(Pending(n) /\ callback[n])
<1>1. ASSUME NEW N \in SUBSET Notifiers, NEW v, Handover(N, v), NEW n \in Notifiers
      PROVE  /\ sgVersion'[n] = IF n \in N THEN v ELSE sgVersion[n]
             /\ hasRun'[n] <=> hasRun[n] \/ n \in N
             /\ accumulated'[n] = IF n \in N /\ callback[n] /\ ~skipNext[n]
                                  THEN accumulated[n] \cup change[n] ELSE accumulated[n]
             /\ skipNext'[n] <=> skipNext[n] /\ ~(n \in N /\ callback[n])
  <2>1. sgVersion'[n] = IF n \in N THEN v ELSE sgVersion[n]
    BY <1>1 DEF Handover, Set, TypeOK
  <2>2. hasRun'[n] = IF n \in N THEN TRUE ELSE hasRun[n]
    BY <1>1 DEF Handover, Set, TypeOK
  <2>3. accumulated'[n] = IF n \in N /\ callback[n] /\ ~skipNext[n]
                          THEN accumulated[n] \cup change[n] ELSE accumulated[n]
    BY <1>1 DEF Handover, Set, TypeOK
  <2>4. skipNext'[n] = IF n \in N /\ callback[n] THEN FALSE ELSE skipNext[n]
    BY <1>1 DEF Handover, Set, TypeOK
  <2>5. skipNext[n] \in BOOLEAN /\ hasRun[n] \in BOOLEAN BY DEF TypeOK
  <2>6. hasRun'[n] <=> hasRun[n] \/ n \in N BY <2>2, <2>5
  <2>7. skipNext'[n] <=> skipNext[n] /\ ~(n \in N /\ callback[n]) BY <2>4, <2>5
  <2> QED BY <2>1, <2>3, <2>6, <2>7
<1>2. batch \in SUBSET Notifiers /\ batch \cup fresh \in SUBSET Notifiers
  BY DEF TypeOK
<1>3. CASE HandoverSkipped
  <2>1. /\ wpc = "skipped" /\ wpc' = "run" /\ Handover(batch, notifierSg)
        /\ UNCHANGED <<program, file, rpc, adding, readVer, live, rows, callback, initial, history, batch, fresh>>
    BY <1>3 DEF HandoverSkipped, realms, Struct, WorkerInv
  <2>2. \A n \in Notifiers : ~Pending(n)' /\ (Pending(n) <=> n \in batch)
    BY <2>1 DEF Pending
  <2>3. \A n \in Notifiers :
          /\ sgVersion'[n] = IF n \in batch THEN notifierSg ELSE sgVersion[n]
          /\ hasRun'[n] <=> hasRun[n] \/ n \in batch
          /\ accumulated'[n] = IF n \in batch /\ callback[n] /\ ~skipNext[n]
                               THEN accumulated[n] \cup change[n] ELSE accumulated[n]
          /\ skipNext'[n] <=> skipNext[n] /\ ~(n \in batch /\ callback[n])
    BY <1>1, <1>2, <2>1
  <2> QED BY <2>1, <2>2, <2>3
<1>4. CASE HandoverNotifiers
  <2>1. /\ wpc = "ran" /\ wpc' = "idle" /\ Handover(batch \cup fresh, notifierSg)
        /\ UNCHANGED <<program, file, rpc, adding, readVer, live, rows, callback, initial, history>>
    BY <1>4 DEF HandoverNotifiers, OnChangeEnds, Struct, WorkerInv
  <2>2. \A n \in Notifiers : ~Pending(n)' /\ (Pending(n) <=> n \in batch \cup fresh)
    BY <2>1 DEF Pending
  <2>3. \A n \in Notifiers :
          /\ sgVersion'[n] = IF n \in (batch \cup fresh) THEN notifierSg ELSE sgVersion[n]
          /\ hasRun'[n] <=> hasRun[n] \/ n \in (batch \cup fresh)
          /\ accumulated'[n] = IF n \in (batch \cup fresh) /\ callback[n] /\ ~skipNext[n]
                               THEN accumulated[n] \cup change[n] ELSE accumulated[n]
          /\ skipNext'[n] <=> skipNext[n] /\ ~(n \in (batch \cup fresh) /\ callback[n])
    BY <1>1, <1>2, <2>1
  <2> QED BY <2>1, <2>2, <2>3
<1> QED BY <1>3, <1>4

-----------------------------------------------------------------------------
(* A callback hears of everything.                                         *)

\* A notifier that never ran without a callback has found out every change up to the version
\* it is at, and while its result is pending, every one from there to the worker's version.
FoundOut(n) ==
    IF Pending(n) THEN /\ rows[n] = notifierSg
                       /\ hasRun[n] => change[n] = sgVersion[n] + 1 .. notifierSg
    ELSE hasRun[n] => rows[n] = sgVersion[n]

\* The Realm is ahead of a callback it has called by its own last commit at most, and then
\* nothing is waiting to be reported.
Abreast(n) ==
    /\ readVer[owner[n]] <= sgVersion[n] + 1
    /\ rpc[owner[n]] = "writing" => sgVersion[n] = latest
    /\ n \notin bare => ((rpc[owner[n]] = "writing" \/ sgVersion[n] < readVer[owner[n]])
                             => accumulated[n] = {})

Hears(n) ==
    /\ initial[n] => hasRun[n] /\ callback[n]
    /\ live[n] /\ n \notin bare => FoundOut(n)
    /\ live[n] /\ initial[n] => Abreast(n)

HearInv == \A n \in Notifiers : Hears(n)

LEMMA HearRun ==
    ASSUME BaseInv, HearInv, RunSkipped \/ RunNotifiers
    PROVE  HearInv'
<1> SUFFICES ASSUME NEW n \in Notifiers PROVE Hears(n)'
  BY DEF HearInv
<1>0. TypeOK /\ Struct /\ Hears(n) BY DEF BaseInv, HearInv
<1>1. /\ UNCHANGED <<program, file, realms, live, sgVersion, hasRun, callbacks>>
      /\ ~Pending(n)
      /\ ~Pending(n)' => UNCHANGED <<change[n], rows[n]>> /\ (n \in bare' <=> n \in bare)
      /\ Pending(n)' /\ n \notin bare' => callback[n] /\ n \notin bare
      /\ Pending(n)' /\ live[n] /\ callback[n] =>
            /\ rows'[n] = notifierSg'
            /\ change'[n] = IF hasRun[n] THEN rows[n] + 1 .. notifierSg' ELSE change[n]
  BY <1>0, RunOutcome
<1>2. n \notin bare' => n \notin bare BY <1>1
<1>3. live'[n] /\ n \notin bare' => FoundOut(n)'
  BY <1>0, <1>1, <1>2 DEF Hears, FoundOut
<1>4. live'[n] /\ initial'[n] => Abreast(n)'
  BY <1>0, <1>1, <1>2 DEF Hears, Abreast, file, realms, callbacks, program
<1>5. initial'[n] => hasRun'[n] /\ callback'[n]
  BY <1>0, <1>1 DEF Hears, callbacks
<1> QED BY <1>3, <1>4, <1>5 DEF Hears

\* A notifier whose result is handed over was behind the worker's version.
LEMMA PendingVersion ==
    ASSUME TypeOK, Struct, NEW n \in Notifiers, Pending(n), hasRun[n]
    PROVE  sgVersion[n] <= notifierSg /\ notifierSg <= latest
BY DEF Struct, PlaceInv, WorkerInv, VersionInv, Pending, Main

LEMMA HearHandover ==
    ASSUME BaseInv, HearInv, HandoverSkipped \/ HandoverNotifiers
    PROVE  HearInv'
<1> SUFFICES ASSUME NEW n \in Notifiers PROVE Hears(n)'
  BY DEF HearInv
<1>0. TypeOK /\ Struct /\ Hears(n) BY DEF BaseInv, HearInv
<1>1. /\ UNCHANGED <<program, file, rpc, readVer, live, rows, callback, initial, bare>>
      /\ ~Pending(n)'
      /\ sgVersion'[n] = IF Pending(n) THEN notifierSg ELSE sgVersion[n]
      /\ hasRun'[n] <=> hasRun[n] \/ Pending(n)
      /\ accumulated'[n] = accumulated[n] \/ accumulated'[n] = accumulated[n] \cup change[n]
      /\ ~Pending(n) => accumulated'[n] = accumulated[n]
  BY <1>0, HandoverOutcome DEF history
<1>2. /\ sgVersion[n] \in Nat /\ notifierSg \in Nat /\ latest \in Nat /\ owner[n] \in Realms
      /\ readVer[owner[n]] \in Nat
  BY <1>0, ProgramsAssumption DEF TypeOK, Versions
<1>3. live'[n] /\ n \notin bare' => FoundOut(n)'
  BY <1>0, <1>1 DEF Hears, FoundOut
<1>4. ASSUME live'[n], initial'[n] PROVE Abreast(n)'
  <2>1. live[n] /\ initial[n] /\ hasRun[n] /\ Abreast(n)
    BY <1>0, <1>1, <1>4 DEF Hears
  <2>2. CASE ~Pending(n)
    BY <1>1, <2>1, <2>2 DEF Abreast, program, file
  <2>3. CASE Pending(n)
    <3>1. sgVersion[n] <= notifierSg /\ notifierSg <= latest BY <1>0, <2>1, <2>3, PendingVersion
    <3>2. sgVersion'[n] = notifierSg BY <1>1, <2>3
    <3>3. readVer'[owner'[n]] <= sgVersion'[n] + 1
      BY <1>1, <1>2, <2>1, <3>1, <3>2 DEF Abreast, program
    <3>4. rpc'[owner'[n]] = "writing" => sgVersion'[n] = latest'
      BY <1>1, <1>2, <2>1, <3>1, <3>2 DEF Abreast, program, file
    <3>5. ASSUME n \notin bare', rpc'[owner'[n]] = "writing" \/ sgVersion'[n] < readVer'[owner'[n]]
          PROVE  accumulated'[n] = {}
      <4>1. change[n] = sgVersion[n] + 1 .. notifierSg
        BY <1>0, <1>1, <2>1, <2>3, <3>5 DEF Hears, FoundOut
      <4>2. sgVersion[n] = notifierSg /\ (rpc[owner[n]] = "writing" \/ sgVersion[n] < readVer[owner[n]])
        BY <1>1, <1>2, <2>1, <3>1, <3>2, <3>5 DEF Abreast, program
      <4>3. change[n] = {} BY <1>2, <4>1, <4>2
      <4>4. accumulated[n] = {} BY <1>1, <2>1, <3>5, <4>2 DEF Abreast
      <4> QED BY <1>1, <4>3, <4>4
    <3> QED BY <3>3, <3>4, <3>5 DEF Abreast
  <2> QED BY <2>2, <2>3
<1>5. initial'[n] => hasRun'[n] /\ callback'[n]
  BY <1>0, <1>1 DEF Hears
<1> QED BY <1>3, <1>4, <1>5 DEF Hears

LEMMA HearDelivery ==
    ASSUME BaseInv, HearInv, NEW r \in Realms, Delivers(r)
    PROVE  HearInv'
<1> SUFFICES ASSUME NEW n \in Notifiers PROVE Hears(n)'
  BY DEF HearInv
<1>0. TypeOK /\ Struct /\ Hears(n) BY DEF BaseInv, HearInv
<1>1. /\ UNCHANGED <<program, file, coordinator, results, worker, callback, bare>>
      /\ \A s \in Realms \ {r} : rpc'[s] = rpc[s] /\ readVer'[s] = readVer[s]
      /\ rpc[r] \in Delivered
      /\ rpc'[r] = "writing" \/ rpc'[r] = "idle"
  <2>1. rpc \in [Realms -> Stages] /\ readVer \in [Realms -> Versions] BY <1>0 DEF TypeOK
  <2> QED BY <1>0, <2>1, DeliveryFrame
<1>2. LeftAlone(r, n) \/ Dropped(r, n) \/ Told(r, n)
  BY <1>0, DeliveryOutcome
<1>3. /\ sgVersion[n] \in Nat /\ latest \in Nat /\ owner[n] \in Realms /\ readVer[owner[n]] \in Nat
      /\ initial[n] \in BOOLEAN
  BY <1>0, ProgramsAssumption DEF TypeOK, Versions
<1>4. live'[n] /\ n \notin bare' => FoundOut(n)'
  BY <1>0, <1>1 DEF Hears, FoundOut, Pending, results, coordinator, worker
<1>5. initial'[n] => hasRun'[n] /\ callback'[n]
  BY <1>0, <1>1, <1>2 DEF Hears, results, LeftAlone, Untouched, Dropped, Told, Packaged
<1>6. ASSUME live'[n], initial'[n] PROVE Abreast(n)'
  <2>1. live[n] /\ hasRun[n] /\ callback[n] /\ place[n] \in {"new", "main"}
        /\ sgVersion'[n] = sgVersion[n] /\ latest' = latest /\ owner' = owner
    BY <1>0, <1>1, <1>5, <1>6 DEF results, program, file, Struct, PlaceInv
  <2>2. owner[n] # r => n \notin Packaged(r)
    BY DEF Packaged, NotifiersForRealm
  <2>3. CASE owner[n] # r
    <3>1. Untouched(n) BY <1>2, <2>2, <2>3 DEF LeftAlone, Dropped, Told
    <3>2. initial[n] /\ Abreast(n) BY <1>0, <1>6, <2>1, <3>1 DEF Hears, Untouched
    <3> QED BY <1>1, <1>3, <2>1, <2>3, <3>1, <3>2 DEF Abreast, Untouched
  <2>4. CASE owner[n] = r
    <3>1. n \in Packaged(r)
      BY <1>3, <2>1, <2>4 DEF Packaged, NotifiersForRealm
    <3>2. CASE LeftAlone(r, n)
      <4>1. initial[n] /\ Abreast(n) /\ readVer'[r] = readVer[r] /\ rpc'[r] # "writing"
            /\ accumulated'[n] = accumulated[n]
        BY <1>0, <1>6, <2>1, <3>1, <3>2 DEF Hears, LeftAlone, Untouched
      <4> QED BY <1>1, <2>1, <2>4, <4>1 DEF Abreast
    <3>3. CASE Dropped(r, n)
      <4>1. initial[n] /\ Abreast(n) /\ readVer'[r] = readVer[r] /\ rpc'[r] # "writing"
            /\ accumulated'[n] = {}
        BY <1>0, <1>6, <2>1, <3>3 DEF Hears, Dropped
      <4> QED BY <2>1, <2>4, <4>1 DEF Abreast
    <3>4. CASE Told(r, n)
      <4>1. readVer'[r] = sgVersion[n] /\ (rpc'[r] = "writing" => sgVersion[n] = latest)
            /\ accumulated'[n] = {}
        BY <2>1, <3>4 DEF Told
      <4> QED BY <1>3, <2>1, <2>4, <4>1 DEF Abreast
    <3> QED BY <1>2, <3>2, <3>3, <3>4
  <2> QED BY <2>3, <2>4
<1> QED BY <1>4, <1>5, <1>6 DEF Hears

LEMMA HearStep == BaseInv /\ HearInv /\ [Next]_vars => HearInv'
<1> SUFFICES ASSUME BaseInv, HearInv, [Next]_vars PROVE HearInv'
  OBVIOUS
<1> USE RealmsAssumption
<1>0. TypeOK /\ Struct BY DEF BaseInv
<1>1. /\ owner \in [Notifiers -> Realms] /\ rpc \in [Realms -> Stages]
      /\ readVer \in [Realms -> Nat] /\ latest \in Nat /\ sgVersion \in [Notifiers -> Nat]
      /\ live \in [Notifiers -> BOOLEAN] /\ callback \in [Notifiers -> BOOLEAN]
      /\ initial \in [Notifiers -> BOOLEAN] /\ hasRun \in [Notifiers -> BOOLEAN]
      /\ accumulated \in [Notifiers -> SUBSET Versions]
      /\ batch \cup fresh \subseteq Main /\ adding \subseteq Notifiers
  BY <1>0, ProgramsAssumption DEF TypeOK, Versions, Struct, WorkerInv
<1>2. ASSUME UNCHANGED <<owner, latest, rpc, readVer, notifierSg, results, callback, initial,
                         accumulated, bare, wpc, batch, fresh>>
      PROVE  HearInv'
  BY <1>2 DEF HearInv, Hears, FoundOut, Abreast, Pending, results
<1>3. ASSUME NEW r \in Realms, NEW st, st # "writing", rpc' = [rpc EXCEPT ![r] = st],
             UNCHANGED <<owner, latest, readVer, notifierSg, results, callback, initial,
                         accumulated, bare, wpc, batch, fresh>>
      PROVE  HearInv'
  <2>1. \A s \in Realms : rpc'[s] = "writing" => rpc[s] = "writing" BY <1>1, <1>3
  <2> QED BY <1>1, <1>3, <2>1 DEF HearInv, Hears, FoundOut, Abreast, Pending, results
<1>4. ASSUME NEW n \in Notifiers, PrepareAsync(n) \/ AddNotificationCallback(n) PROVE HearInv'
  <2>1. /\ place[n] = "none" /\ live' = [live EXCEPT ![n] = TRUE]
        /\ sgVersion' = [sgVersion EXCEPT ![n] = readVer[owner[n]]]
        /\ UNCHANGED <<owner, latest, readVer, notifierSg, hasRun, rows, change, callback,
                       initial, accumulated, bare, wpc, batch, fresh>>
        /\ rpc' = rpc \/ rpc' = [rpc EXCEPT ![owner[n]] = "adding"]
    BY <1>4 DEF PrepareAsync, AddNotificationCallback, RegisterNotifier, Goto, program, file,
                callbacks, history, worker
  <2>2. ~hasRun[n] /\ ~Pending(n)
    BY <1>0, <1>1, <2>1 DEF Struct, PlaceInv, Pending, Main
  <2>3. \A s \in Realms : rpc'[s] = "writing" => rpc[s] = "writing" BY <1>1, <2>1
  <2> QED BY <1>1, <2>1, <2>2, <2>3 DEF HearInv, Hears, FoundOut, Abreast, Pending
<1>5. ASSUME NEW n \in Notifiers, AddCallback(n) PROVE HearInv'
  <2>1. /\ callback' = [callback EXCEPT ![n] = TRUE]
        /\ UNCHANGED <<owner, latest, readVer, notifierSg, results,
                       initial, accumulated, bare, wpc, batch, fresh>>
        /\ rpc' = rpc \/ rpc' = [rpc EXCEPT ![owner[n]] = "idle"]
    BY <1>5 DEF AddCallback, Goto, program, file, history, worker
  <2>2. \A s \in Realms : rpc'[s] = "writing" => rpc[s] = "writing" BY <1>1, <2>1
  <2> QED BY <1>1, <2>1, <2>2 DEF HearInv, Hears, FoundOut, Abreast, Pending, results
<1>6. ASSUME NEW n \in Notifiers, RemoveCallback(n) PROVE HearInv'
  <2>1. /\ callback' = [callback EXCEPT ![n] = FALSE] /\ initial' = [initial EXCEPT ![n] = FALSE]
        /\ accumulated' = [accumulated EXCEPT ![n] = {}]
        /\ UNCHANGED <<owner, latest, rpc, readVer, notifierSg, results, bare, wpc, batch, fresh>>
    BY <1>6 DEF RemoveCallback, program, file, realms, coordinator, worker
  <2> QED BY <1>1, <2>1 DEF HearInv, Hears, FoundOut, Abreast, Pending, results
<1>7. ASSUME NEW n \in Notifiers, Unregister(n) PROVE HearInv'
  <2>1. /\ live' = [live EXCEPT ![n] = FALSE]
        /\ UNCHANGED <<owner, latest, rpc, readVer, notifierSg, sgVersion, hasRun, rows, change,
                       callback, initial, accumulated, bare, wpc, batch, fresh>>
    BY <1>7 DEF Unregister, program, file, realms, coordinator, callbacks, history, worker
  <2> QED BY <1>1, <2>1 DEF HearInv, Hears, FoundOut, Abreast, Pending
<1>8. ASSUME NEW n \in Notifiers, SuppressNext(n) PROVE HearInv'
  BY <1>2, <1>8 DEF SuppressNext, program, file, realms, coordinator, worker
<1>9. CASE RunAsyncNotifiers
  <2>1. RunBegins /\ wpc = "idle" BY <1>0, <1>9, RunNeverFails
  <2>2. UNCHANGED <<owner, latest, rpc, readVer, results, callback, initial, accumulated, bare>>
        /\ wpc' \in {"idle", "skip", "run"}
    BY <2>1 DEF RunBegins, OnChangeEnds, program, file, callbacks, history
  <2>3. \A n \in Notifiers : ~Pending(n) /\ ~Pending(n)'
    BY <2>1, <2>2 DEF Pending
  <2> QED BY <2>2, <2>3 DEF HearInv, Hears, FoundOut, Abreast, results
<1>10. ASSUME NEW r \in Realms, Notify(r) PROVE HearInv'
  BY <1>2, <1>3, <1>10 DEF Notify, Goto, program, file, coordinator, callbacks, history, worker
<1>11. ASSUME NEW r \in Realms, BeginTransaction(r) \/ Refresh(r) PROVE HearInv'
  BY <1>3, <1>11 DEF BeginTransaction, Refresh, Goto, program, file, callbacks, history, worker
<1>12. ASSUME NEW r \in Realms, CommitWrite(r) PROVE HearInv'
  <2>1. /\ rpc[r] = "writing" /\ rpc' = [rpc EXCEPT ![r] = "idle"] /\ latest' = latest + 1
        /\ readVer' = [readVer EXCEPT ![r] = latest + 1]
        /\ UNCHANGED <<owner, notifierSg, results, callback, initial, accumulated, bare, wpc,
                       batch, fresh>>
    BY <1>12 DEF CommitWrite, At, Goto, Set, program, callbacks, worker
  <2>2. \A s \in Realms : rpc'[s] # "writing"
    BY <1>0, <1>1, <2>1 DEF Struct, LockInv
  <2> QED BY <1>1, <2>1, <2>2 DEF HearInv, Hears, FoundOut, Abreast, Pending, results
<1>13. ASSUME NEW r \in Realms, CancelTransaction(r) PROVE HearInv'
  BY <1>3, <1>13 DEF CancelTransaction, Goto, Set, program, coordinator, callbacks, worker
<1>14. CASE OtherCommit
  <2>1. /\ writer = NoRealm /\ latest' = latest + 1
        /\ UNCHANGED <<owner, rpc, readVer, notifierSg, results, callback, initial, accumulated,
                       bare, wpc, batch, fresh>>
    BY <1>14 DEF OtherCommit, program, realms, callbacks, history, worker
  <2>2. \A s \in Realms : rpc[s] # "writing"
    BY <1>0, <1>1, <2>1 DEF Struct, LockInv
  <2> QED BY <1>1, <2>1, <2>2 DEF HearInv, Hears, FoundOut, Abreast, Pending, results
<1>15. CASE UNCHANGED vars
  BY <1>2, <1>15 DEF vars, program, file, realms, coordinator, callbacks, history, worker
<1> QED
  BY <1>1, <1>4, <1>5, <1>6, <1>7, <1>8, <1>9, <1>10, <1>11, <1>12, <1>13, <1>14, <1>15,
     HearRun, HearHandover, HearDelivery
  DEF Next, Worker, Proceed, EndWrite, Delivers

-----------------------------------------------------------------------------
(* suppress_next().                                                        *)

\* An application that uses suppress_next() gives every notifier a callback that stays, and
\* commits what it has begun.  (cancel_transaction() leaves skip_next set for the next change,
\* and a Realm that writes while it has a notifier without a callback does not wait for it and
\* replaces a skip version that was not taken up.)
SkipsAlone(c) ==
    (\E r \in Realms : "suppress_next" \in c[r]) =>
        \A r \in Realms : c[r] \cap {"prepare_async", "remove_callback", "cancel"} = {}

Skipping == \E r \in Realms : "suppress_next" \in calls[r]

\* A notifier that has no callback is about to get one.
Adds(n) ==
    /\ live[n] /\ ~callback[n] => rpc[owner[n]] = "adding" /\ n \in adding
    /\ n \in adding => rpc[owner[n]] = "adding" /\ live[n] /\ ~callback[n]
    /\ \A m \in adding : n \in adding /\ owner[m] = owner[n] => m = n

\* What is to be skipped is the next change, which the worker has been told to hand over by
\* itself, or is going to be once it is committed.
Skips(n) ==
    /\ asked[n] => rpc[owner[n]] = "writing"
    /\ live[n] /\ rpc[owner[n]] = "writing" => initial[n]
    /\ skipNext[n] => callback[n]
    /\ live[n] /\ skipNext[n] => initial[n]
    /\ live[n] /\ skipNext[n] /\ ~asked[n] =>
          /\ sgVersion[n] + 1 \in skipped[n]
          /\ sgVersion[n] < latest
          /\ wpc \in {"skip", "skipped"} => skipTo = sgVersion[n] + 1
          /\ wpc \notin {"skip", "skipped"} => skipVersion = sgVersion[n] + 1
          /\ wpc \in {"run", "ran"} => target = sgVersion[n]
    /\ n \notin bare /\ skipNext[n] => accumulated[n] = {}

SkipInv == IF Skipping THEN \A n \in Notifiers : Adds(n) /\ Skips(n)
                       ELSE \A n \in Notifiers : ~skipNext[n]

\* When the worker hands over to a callback that skips, what it drops was to be skipped.
LEMMA SkippedRange ==
    ASSUME BaseInv, HearInv, SkipInv, NEW n \in Notifiers, Pending(n), live[n], initial[n],
           skipNext[n]
    PROVE  sgVersion[n] + 1 .. notifierSg \subseteq skipped[n]
<1>0. TypeOK /\ Struct BY DEF BaseInv
<1>1. Skips(n) BY DEF SkipInv
<1>2. Abreast(n) /\ hasRun[n] BY DEF HearInv, Hears
<1>3. notifierSg <= latest BY <1>0, <1>2, PendingVersion
<1>4. /\ notifierSg \in Nat /\ latest \in Nat /\ sgVersion[n] \in Nat /\ target \in Nat
  BY <1>0 DEF TypeOK, Versions
<1>5. CASE asked[n]
  BY <1>1, <1>2, <1>3, <1>4, <1>5 DEF Skips, Abreast
<1>6. CASE ~asked[n] /\ wpc = "skipped"
  <2>1. notifierSg = skipTo BY <1>0, <1>6 DEF Struct, WorkerInv
  <2>2. notifierSg = sgVersion[n] + 1 /\ sgVersion[n] + 1 \in skipped[n]
    BY <1>1, <1>6, <2>1 DEF Skips
  <2>3. \A v \in sgVersion[n] + 1 .. notifierSg : v = sgVersion[n] + 1
    BY <1>4, <2>2
  <2> QED BY <2>2, <2>3
<1>7. CASE ~asked[n] /\ wpc = "ran"
  <2>1. notifierSg = target BY <1>0, <1>7 DEF Struct, WorkerInv
  <2>2. target = sgVersion[n] BY <1>1, <1>7 DEF Skips
  <2> QED BY <1>4, <2>1, <2>2
<1> QED BY <1>5, <1>6, <1>7 DEF Pending

-----------------------------------------------------------------------------
(* Nothing is missed.                                                      *)

Heard(n) == accumulated[n] \cup reported[n] \cup skipped[n]

LEMMA MissedStep ==
    BaseInv /\ HearInv /\ SkipInv /\ NothingMissed /\ [Next]_vars => NothingMissed'
<1> SUFFICES ASSUME BaseInv, HearInv, SkipInv, NothingMissed, [Next]_vars PROVE NothingMissed'
  OBVIOUS
<1>0. TypeOK /\ Struct BY DEF BaseInv
<1>1. /\ sgVersion \in [Notifiers -> Nat] /\ since \in [Notifiers -> Nat] /\ notifierSg \in Nat
      /\ live \in [Notifiers -> BOOLEAN] /\ callback \in [Notifiers -> BOOLEAN]
      /\ initial \in [Notifiers -> BOOLEAN] /\ adding \subseteq Notifiers
      /\ owner \in [Notifiers -> Realms]
  BY <1>0, ProgramsAssumption DEF TypeOK, Versions
<1>2. ASSUME UNCHANGED <<sgVersion, live, callback, initial, accumulated, reported, since, bare>>,
             \A n \in Notifiers : skipped[n] \subseteq skipped'[n]
      PROVE  NothingMissed'
  BY <1>2 DEF NothingMissed
<1>3. ASSUME NEW n \in Notifiers, PrepareAsync(n) \/ AddNotificationCallback(n)
      PROVE NothingMissed'
  <2>1. /\ place[n] = "none" /\ live' = [live EXCEPT ![n] = TRUE]
        /\ sgVersion' = [sgVersion EXCEPT ![n] = readVer[owner[n]]]
        /\ UNCHANGED <<callback, initial, accumulated, reported, since, skipped, bare>>
    BY <1>3 DEF PrepareAsync, AddNotificationCallback, RegisterNotifier, callbacks, history
  <2>2. ~callback[n] BY <1>0, <2>1 DEF Struct, PlaceInv
  <2> QED BY <1>1, <2>1, <2>2 DEF NothingMissed
<1>4. ASSUME NEW n \in Notifiers, AddCallback(n) PROVE NothingMissed'
  <2>1. /\ ~callback[n] /\ callback' = [callback EXCEPT ![n] = TRUE]
        /\ UNCHANGED <<sgVersion, live, initial, accumulated, reported, since, skipped, bare>>
    BY <1>4 DEF AddCallback, results, history
  <2>2. ~initial[n] BY <2>1 DEF HearInv, Hears
  <2> QED BY <1>1, <2>1, <2>2 DEF NothingMissed
<1>5. ASSUME NEW n \in Notifiers, RemoveCallback(n) PROVE NothingMissed'
  <2>1. /\ callback' = [callback EXCEPT ![n] = FALSE]
        /\ UNCHANGED <<sgVersion, live, bare>>
        /\ \A m \in Notifiers \ {n} : /\ initial'[m] = initial[m] /\ accumulated'[m] = accumulated[m]
                                      /\ reported'[m] = reported[m] /\ since'[m] = since[m]
                                      /\ skipped'[m] = skipped[m]
    BY <1>0, <1>5 DEF RemoveCallback, results, TypeOK
  <2> QED BY <1>1, <2>1 DEF NothingMissed
<1>6. ASSUME NEW n \in Notifiers, Unregister(n) PROVE NothingMissed'
  <2>1. /\ live' = [live EXCEPT ![n] = FALSE]
        /\ UNCHANGED <<sgVersion, callback, initial, accumulated, reported, since, skipped, bare>>
    BY <1>6 DEF Unregister, callbacks, history
  <2> QED BY <1>1, <2>1 DEF NothingMissed
<1>7. ASSUME NEW n \in Notifiers, SuppressNext(n) PROVE NothingMissed'
  BY <1>2, <1>7 DEF SuppressNext, results
<1>8. CASE RunAsyncNotifiers
  <2>1. RunBegins BY <1>0, <1>8, RunNeverFails
  <2> QED BY <1>2, <2>1 DEF RunBegins, results, callbacks, history
<1>9. CASE RunSkipped \/ RunNotifiers
  <2>1. UNCHANGED <<sgVersion, live, callbacks, since, reported, skipped>> BY <1>0, <1>9, RunOutcome
  <2>2. \A n \in Notifiers : n \notin bare' => n \notin bare
    BY <1>0, <1>9, RunOutcome
  <2> QED BY <2>1, <2>2 DEF NothingMissed, callbacks
<1>10. CASE HandoverSkipped \/ HandoverNotifiers
  <2> SUFFICES ASSUME NEW n \in Notifiers \ bare', live'[n], callback'[n], initial'[n]
               PROVE  since'[n] + 1 .. sgVersion'[n] \subseteq accumulated'[n] \cup reported'[n] \cup skipped'[n]
    BY DEF NothingMissed
  <2>1. /\ UNCHANGED <<live, callback, initial, history>>
        /\ sgVersion'[n] = IF Pending(n) THEN notifierSg ELSE sgVersion[n]
        /\ accumulated'[n] = IF Pending(n) /\ callback[n] /\ ~skipNext[n]
                             THEN accumulated[n] \cup change[n] ELSE accumulated[n]
    BY <1>0, <1>10, HandoverOutcome
  <2>2. /\ live[n] /\ callback[n] /\ initial[n] /\ n \notin bare
        /\ since' = since /\ reported' = reported /\ skipped' = skipped
    BY <2>1 DEF history
  <2>3. since[n] + 1 .. sgVersion[n] \subseteq Heard(n)
    BY <2>2 DEF NothingMissed, Heard
  <2>4. CASE ~Pending(n)
    BY <2>1, <2>2, <2>3, <2>4 DEF Heard
  <2>5. CASE Pending(n)
    <3>1. sgVersion[n] + 1 .. notifierSg \subseteq accumulated'[n] \cup skipped[n]
      <4>1. CASE skipNext[n] BY <2>2, <2>5, <4>1, SkippedRange
      <4>2. CASE ~skipNext[n]
        <5>1. change[n] = sgVersion[n] + 1 .. notifierSg
          BY <2>2, <2>5 DEF HearInv, Hears, FoundOut
        <5>2. accumulated'[n] = accumulated[n] \cup change[n] BY <2>1, <2>2, <2>5, <4>2
        <5> QED BY <5>1, <5>2
      <4> QED BY <4>1, <4>2
    <3>2. accumulated[n] \subseteq accumulated'[n] BY <2>1
    <3>3. \A v \in since[n] + 1 .. notifierSg :
             v \in since[n] + 1 .. sgVersion[n] \/ v \in sgVersion[n] + 1 .. notifierSg
      BY <1>1
    <3>4. sgVersion'[n] = notifierSg BY <2>1, <2>5
    <3> QED BY <2>2, <2>3, <3>1, <3>2, <3>3, <3>4 DEF Heard
  <2> QED BY <2>4, <2>5
<1>11. ASSUME NEW r \in Realms, Delivers(r) PROVE NothingMissed'
  <2> SUFFICES ASSUME NEW n \in Notifiers \ bare', live'[n], callback'[n], initial'[n]
               PROVE  since'[n] + 1 .. sgVersion'[n] \subseteq accumulated'[n] \cup reported'[n] \cup skipped'[n]
    BY DEF NothingMissed
  <2>1. UNCHANGED <<results, callback, skipped, bare>> BY <1>0, <1>11, DeliveryFrame
  <2>2. live[n] /\ callback[n] /\ n \notin bare /\ sgVersion'[n] = sgVersion[n] /\ skipped'[n] = skipped[n]
    BY <2>1 DEF results
  <2>3. initial[n] => since[n] + 1 .. sgVersion[n] \subseteq Heard(n)
    BY <2>2 DEF NothingMissed, Heard
  <2>4. CASE LeftAlone(r, n)
    BY <2>2, <2>3, <2>4 DEF LeftAlone, Untouched, Heard
  <2>5. CASE Dropped(r, n)
    <3>1. initial[n] /\ sgVersion[n] < readVer[r] /\ owner[n] = r /\ accumulated'[n] = {}
          /\ since'[n] = since[n] /\ reported'[n] = reported[n]
      BY <2>2, <2>5 DEF Dropped, Packaged, NotifiersForRealm
    <3>2. accumulated[n] = {} BY <2>2, <3>1 DEF HearInv, Hears, Abreast
    <3> QED BY <2>2, <2>3, <3>1, <3>2 DEF Heard
  <2>6. CASE Told(r, n)
    <3>1. CASE initial[n]
      <4>1. since'[n] = since[n] /\ reported'[n] = reported[n] \cup accumulated[n]
        BY <2>2, <2>6, <3>1 DEF Told
      <4> QED BY <2>2, <2>3, <3>1, <4>1 DEF Heard
    <3>2. CASE ~initial[n]
      <4>1. since'[n] = sgVersion[n] BY <2>2, <2>6, <3>2 DEF Told
      <4>2. since'[n] + 1 .. sgVersion'[n] = {} BY <1>1, <2>2, <4>1
      <4> QED BY <4>2
    <3> QED BY <3>1, <3>2
  <2> QED BY <1>0, <1>11, <2>4, <2>5, <2>6, DeliveryOutcome
<1>12. ASSUME NEW r \in Realms, Notify(r) \/ BeginTransaction(r) \/ Refresh(r) PROVE NothingMissed'
  BY <1>2, <1>12 DEF Notify, BeginTransaction, Refresh, results, callbacks, history
<1>13. ASSUME NEW r \in Realms, CommitWrite(r) PROVE NothingMissed'
  <2>1. \A n \in Notifiers : skipped[n] \subseteq skipped'[n]
    BY <1>0, <1>13 DEF CommitWrite, Set, TypeOK
  <2> QED BY <1>2, <1>13, <2>1 DEF CommitWrite, Set, results, callbacks
<1>14. ASSUME NEW r \in Realms, CancelTransaction(r) PROVE NothingMissed'
  BY <1>2, <1>14 DEF CancelTransaction, Set, results, callbacks
<1>15. CASE OtherCommit
  BY <1>2, <1>15 DEF OtherCommit, results, callbacks, history
<1>16. CASE UNCHANGED vars
  BY <1>2, <1>16 DEF vars, results, callbacks, history
<1> QED
  BY <1>1, <1>3, <1>4, <1>5, <1>6, <1>7, <1>8, <1>9, <1>10, <1>11, <1>12, <1>13, <1>14, <1>15, <1>16
  DEF Next, Worker, Proceed, EndWrite, Delivers

-----------------------------------------------------------------------------
(* suppress_next() step by step.                                           *)

\* Without it nothing is skipped.
LEMMA NoSkipStep ==
    ASSUME BaseInv, ~Skipping, \A n \in Notifiers : ~skipNext[n], [Next]_vars
    PROVE  \A n \in Notifiers : ~skipNext'[n]
<1>0. TypeOK /\ Struct BY DEF BaseInv
<1>1. skipNext \in [Notifiers -> BOOLEAN] /\ adding \subseteq Notifiers /\ owner \in [Notifiers -> Realms]
  BY <1>0, ProgramsAssumption DEF TypeOK
<1>2. UNCHANGED skipNext => \A n \in Notifiers : ~skipNext'[n]
  OBVIOUS
<1>3. ASSUME NEW n \in Notifiers,
             PrepareAsync(n) \/ AddNotificationCallback(n) \/ AddCallback(n) \/ Unregister(n)
      PROVE  UNCHANGED skipNext
  BY <1>3 DEF PrepareAsync, AddNotificationCallback, RegisterNotifier, AddCallback, Unregister, callbacks
<1>4. ASSUME NEW n \in Notifiers, RemoveCallback(n) PROVE \A m \in Notifiers : ~skipNext'[m]
  <2>1. skipNext' = [skipNext EXCEPT ![n] = FALSE] BY <1>4 DEF RemoveCallback
  <2> QED BY <1>1, <2>1
<1>5. ASSUME NEW n \in Notifiers, SuppressNext(n) PROVE FALSE
  BY <1>1, <1>5 DEF SuppressNext, Skipping
<1>6. CASE RunAsyncNotifiers
  BY <1>0, <1>6, RunNeverFails DEF RunBegins, callbacks
<1>7. CASE RunSkipped \/ RunNotifiers
  <2>1. UNCHANGED callbacks BY <1>0, <1>7, RunOutcome
  <2> QED BY <2>1 DEF callbacks
<1>8. CASE HandoverSkipped \/ HandoverNotifiers
  BY <1>0, <1>8, HandoverOutcome
<1>9. ASSUME NEW r \in Realms, Delivers(r) PROVE UNCHANGED skipNext
  BY <1>0, <1>9, DeliveryFrame
<1>10. ASSUME NEW r \in Realms, Notify(r) \/ BeginTransaction(r) \/ Refresh(r) \/ CommitWrite(r)
                                   \/ CancelTransaction(r)
       PROVE  UNCHANGED skipNext
  BY <1>10 DEF Notify, BeginTransaction, Refresh, CommitWrite, CancelTransaction, Set, callbacks
<1>11. CASE OtherCommit BY <1>11 DEF OtherCommit, callbacks
<1>12. CASE UNCHANGED vars BY <1>12 DEF vars, callbacks
<1> QED
  BY <1>1, <1>2, <1>3, <1>4, <1>5, <1>6, <1>7, <1>8, <1>9, <1>10, <1>11, <1>12
  DEF Next, Worker, Proceed, EndWrite, Delivers

\* The callbacks being added, when all of them are.
LEMMA AddsStep ==
    ASSUME BaseInv, Skipping, SkipsAlone(calls), \A n \in Notifiers : Adds(n), [Next]_vars
    PROVE  \A n \in Notifiers : Adds(n)'
<1>0. TypeOK /\ Struct BY DEF BaseInv
<1>1. /\ owner \in [Notifiers -> Realms] /\ rpc \in [Realms -> Stages]
      /\ live \in [Notifiers -> BOOLEAN] /\ callback \in [Notifiers -> BOOLEAN]
      /\ adding \subseteq Notifiers
  BY <1>0, ProgramsAssumption DEF TypeOK
<1>2. \A r \in Realms : calls[r] \cap {"prepare_async", "remove_callback", "cancel"} = {}
  BY DEF SkipsAlone, Skipping
<1>3. ASSUME UNCHANGED <<owner, live, callback, adding, rpc>> PROVE \A n \in Notifiers : Adds(n)'
  BY <1>3 DEF Adds
<1>4. ASSUME NEW r \in Realms, rpc[r] # "adding", NEW st, rpc' = [rpc EXCEPT ![r] = st],
             UNCHANGED <<owner, live, callback, adding>>
      PROVE  \A n \in Notifiers : Adds(n)'
  BY <1>1, <1>4 DEF Adds
<1>5. ASSUME NEW n \in Notifiers, PrepareAsync(n) \/ RemoveCallback(n) PROVE FALSE
  BY <1>1, <1>2, <1>5 DEF PrepareAsync, RemoveCallback, MayCall, MayAlsoWriting
<1>6. ASSUME NEW n \in Notifiers, AddNotificationCallback(n) PROVE \A m \in Notifiers : Adds(m)'
  <2>1. /\ rpc[owner[n]] = "idle" /\ rpc' = [rpc EXCEPT ![owner[n]] = "adding"]
        /\ place[n] = "none" /\ live' = [live EXCEPT ![n] = TRUE] /\ adding' = adding \cup {n}
        /\ UNCHANGED <<owner, callback>>
    BY <1>6 DEF AddNotificationCallback, RegisterNotifier, MayCall, At, Goto, program, callbacks
  <2>2. ~callback[n] BY <1>0, <2>1 DEF Struct, PlaceInv
  <2> QED BY <1>1, <2>1, <2>2 DEF Adds
<1>7. ASSUME NEW n \in Notifiers, AddCallback(n) PROVE \A m \in Notifiers : Adds(m)'
  <2>1. /\ live[n] /\ ~callback[n] /\ callback' = [callback EXCEPT ![n] = TRUE]
        /\ adding' = adding \ {n}
        /\ UNCHANGED <<owner, live>>
    BY <1>7 DEF AddCallback, program, results
  <2>2. rpc[owner[n]] = "adding" /\ n \in adding BY <2>1 DEF Adds
  <2>3. rpc' = [rpc EXCEPT ![owner[n]] = "idle"]
    BY <1>7, <2>2 DEF AddCallback, MayAlsoWriting, MayCall, At, Goto
  <2>4. \A m \in Notifiers : m # n /\ owner[m] = owner[n] => m \notin adding
    BY <2>2 DEF Adds
  <2> QED BY <1>1, <2>1, <2>2, <2>3, <2>4 DEF Adds
<1>8. ASSUME NEW n \in Notifiers, Unregister(n) PROVE \A m \in Notifiers : Adds(m)'
  <2>1. /\ rpc[owner[n]] \in {"idle", "writing"} /\ live' = [live EXCEPT ![n] = FALSE]
        /\ UNCHANGED <<owner, callback, adding, rpc>>
    BY <1>8 DEF Unregister, MayAlsoWriting, MayCall, At, program, realms, callbacks
  <2>2. n \notin adding BY <2>1 DEF Adds
  <2> QED BY <1>1, <2>1, <2>2 DEF Adds
<1>9. ASSUME NEW n \in Notifiers, SuppressNext(n) PROVE \A m \in Notifiers : Adds(m)'
  BY <1>3, <1>9 DEF SuppressNext, program, realms, results
<1>10. CASE Worker
  <2>1. CASE RunAsyncNotifiers
    BY <1>0, <1>3, <2>1, RunNeverFails DEF RunBegins, program, results, callbacks
  <2>2. CASE RunSkipped \/ RunNotifiers
    <3>1. UNCHANGED <<program, realms, live, callbacks>> BY <1>0, <2>2, RunOutcome
    <3> QED BY <1>3, <3>1 DEF program, realms, callbacks
  <2>3. CASE HandoverSkipped \/ HandoverNotifiers
    <3>1. UNCHANGED <<program, rpc, adding, live, callback>> BY <1>0, <2>3, HandoverOutcome
    <3> QED BY <1>3, <3>1 DEF program
  <2> QED BY <1>10, <2>1, <2>2, <2>3 DEF Worker
<1>11. ASSUME NEW r \in Realms, Delivers(r) PROVE \A n \in Notifiers : Adds(n)'
  <2>1. /\ UNCHANGED <<program, adding, results, callback>> /\ rpc[r] \in Delivered
        /\ rpc' = [rpc EXCEPT ![r] = IF rpc[r] = "begin" THEN "writing" ELSE "idle"]
    BY <1>0, <1>11, DeliveryFrame
  <2> QED BY <1>4, <2>1 DEF program, results, Delivered
<1>12. ASSUME NEW r \in Realms, Notify(r) \/ BeginTransaction(r) \/ Refresh(r)
       PROVE  \A n \in Notifiers : Adds(n)'
  BY <1>3, <1>4, <1>12 DEF Notify, BeginTransaction, Refresh, MayCall, At, Goto, program, results, callbacks
<1>13. ASSUME NEW r \in Realms, CommitWrite(r) \/ CancelTransaction(r)
       PROVE  \A n \in Notifiers : Adds(n)'
  BY <1>4, <1>13 DEF CommitWrite, CancelTransaction, At, Goto, Set, program, results, callbacks
<1>14. CASE OtherCommit
  BY <1>3, <1>14 DEF OtherCommit, program, realms, results, callbacks
<1>15. CASE UNCHANGED vars
  BY <1>3, <1>15 DEF vars, program, realms, results, callbacks
<1> QED
  BY <1>1, <1>5, <1>6, <1>7, <1>8, <1>9, <1>10, <1>11, <1>12, <1>13, <1>14, <1>15
  DEF Next, Proceed, EndWrite, Delivers

LEMMA SkipsStep ==
    ASSUME BaseInv, HearInv, Skipping, SkipsAlone(calls),
           \A n \in Notifiers : Adds(n) /\ Skips(n), [Next]_vars
    PROVE  \A n \in Notifiers : Skips(n)'
<1> USE RealmsAssumption
<1>0. TypeOK /\ Struct BY DEF BaseInv
<1>1. /\ owner \in [Notifiers -> Realms] /\ rpc \in [Realms -> Stages] /\ adding \subseteq Notifiers
      /\ live \in [Notifiers -> BOOLEAN] /\ callback \in [Notifiers -> BOOLEAN]
      /\ initial \in [Notifiers -> BOOLEAN] /\ skipNext \in [Notifiers -> BOOLEAN]
      /\ asked \in [Notifiers -> BOOLEAN] /\ sgVersion \in [Notifiers -> Nat]
      /\ skipped \in [Notifiers -> SUBSET Versions]
      /\ latest \in Nat /\ skipVersion \in Nat /\ notifierSg \in Nat /\ target \in Nat
      /\ wpc \in {"idle", "skip", "skipped", "run", "ran"}
  BY <1>0, ProgramsAssumption DEF TypeOK, Versions
<1>2. \A r \in Realms : calls[r] \cap {"prepare_async", "remove_callback", "cancel"} = {}
  BY DEF SkipsAlone, Skipping
<1>3. \A n \in Notifiers : live[n] /\ skipNext[n] =>
         /\ hasRun[n] /\ callback[n] /\ initial[n] /\ Abreast(n)
         /\ n \in Alive("main") /\ n \in Main /\ n \notin fresh /\ sgVersion[n] <= notifierSg
  <2>1. \A n \in Notifiers : live[n] /\ skipNext[n] =>
           hasRun[n] /\ callback[n] /\ initial[n] /\ Abreast(n)
    BY DEF Skips, HearInv, Hears
  <2>2. \A n \in Notifiers : live[n] /\ hasRun[n] =>
           place[n] = "main" /\ n \notin fresh /\ sgVersion[n] <= notifierSg
    BY <1>0 DEF Struct, PlaceInv, WorkerInv
  <2> QED BY <2>1, <2>2 DEF Alive, Main
<1>4. ASSUME UNCHANGED <<owner, latest, live, callback, initial, accumulated, skipNext, skipped,
                         asked, bare, sgVersion, skipVersion, worker, rpc>>
      PROVE  \A n \in Notifiers : Skips(n)'
  BY <1>4 DEF Skips, worker
<1>5. ASSUME NEW r \in Realms, rpc[r] # "writing", NEW st, st # "writing",
             rpc' = [rpc EXCEPT ![r] = st],
             UNCHANGED <<owner, latest, live, callback, initial, accumulated, skipNext, skipped,
                         asked, bare, sgVersion, skipVersion, worker>>
      PROVE  \A n \in Notifiers : Skips(n)'
  BY <1>1, <1>5 DEF Skips, worker
<1>6. ASSUME NEW n \in Notifiers, PrepareAsync(n) \/ RemoveCallback(n) PROVE FALSE
  BY <1>1, <1>2, <1>6 DEF PrepareAsync, RemoveCallback, MayCall, MayAlsoWriting
<1>7. ASSUME NEW n \in Notifiers, AddNotificationCallback(n) PROVE \A m \in Notifiers : Skips(m)'
  <2>1. /\ rpc[owner[n]] = "idle" /\ rpc' = [rpc EXCEPT ![owner[n]] = "adding"]
        /\ place[n] = "none" /\ live' = [live EXCEPT ![n] = TRUE]
        /\ sgVersion' = [sgVersion EXCEPT ![n] = readVer[owner[n]]]
        /\ UNCHANGED <<owner, latest, callback, initial, accumulated, skipNext, skipped, asked,
                       bare, skipVersion, worker>>
    BY <1>7 DEF AddNotificationCallback, RegisterNotifier, MayCall, At, Goto, program, file,
                callbacks, history
  <2>2. ~skipNext[n] BY <1>0, <2>1 DEF Struct, PlaceInv, Skips
  <2> QED BY <1>1, <2>1, <2>2 DEF Skips, worker
<1>8. ASSUME NEW n \in Notifiers, AddCallback(n) PROVE \A m \in Notifiers : Skips(m)'
  <2>1. /\ live[n] /\ ~callback[n] /\ callback' = [callback EXCEPT ![n] = TRUE]
        /\ UNCHANGED <<owner, latest, live, initial, accumulated, skipNext, skipped, asked,
                       bare, sgVersion, skipVersion, worker>>
    BY <1>8 DEF AddCallback, program, file, results, history
  <2>2. rpc[owner[n]] = "adding" BY <2>1 DEF Adds
  <2>3. rpc' = [rpc EXCEPT ![owner[n]] = "idle"]
    BY <1>8, <2>2 DEF AddCallback, MayAlsoWriting, MayCall, At, Goto
  <2> QED BY <1>1, <2>1, <2>2, <2>3 DEF Skips, worker
<1>9. ASSUME NEW n \in Notifiers, Unregister(n) PROVE \A m \in Notifiers : Skips(m)'
  <2>1. /\ live' = [live EXCEPT ![n] = FALSE]
        /\ UNCHANGED <<owner, latest, callback, initial, accumulated, skipNext, skipped, asked,
                       bare, sgVersion, skipVersion, worker, rpc>>
    BY <1>9 DEF Unregister, program, file, realms, coordinator, callbacks, history
  <2> QED BY <1>1, <2>1 DEF Skips, worker
<1>10. ASSUME NEW n \in Notifiers, SuppressNext(n) PROVE \A m \in Notifiers : Skips(m)'
  <2>1. /\ rpc[owner[n]] = "writing" /\ live[n] /\ callback[n]
        /\ skipNext' = [skipNext EXCEPT ![n] = TRUE] /\ asked' = [asked EXCEPT ![n] = TRUE]
        /\ UNCHANGED <<owner, latest, live, callback, initial, accumulated, skipped, bare,
                       sgVersion, skipVersion, worker, rpc>>
    BY <1>10 DEF SuppressNext, At, program, file, realms, coordinator, results
  <2>2. initial[n] BY <2>1 DEF Skips
  <2>3. n \notin bare => accumulated[n] = {} BY <2>1, <2>2 DEF HearInv, Hears, Abreast
  <2> QED BY <1>1, <2>1, <2>2, <2>3 DEF Skips, worker
<1>11. CASE RunAsyncNotifiers
  <2>1. RunBegins /\ wpc = "idle" BY <1>0, <1>11, RunNeverFails
  <2>2. /\ UNCHANGED <<owner, latest, live, callback, initial, accumulated, skipNext, skipped,
                       asked, bare, sgVersion, rpc>>
    BY <2>1 DEF RunBegins, program, file, results, callbacks, history
  <2>3. ASSUME NEW n \in Notifiers, live[n], skipNext[n], ~asked[n]
        PROVE  wpc' = "skip" /\ skipTo' = sgVersion[n] + 1
    <3>1. skipVersion = sgVersion[n] + 1 BY <2>1, <2>3 DEF Skips
    <3>2. Alive("main") # {} BY <1>3, <2>3
    <3>3. CleanSkipVersion = skipVersion /\ NewSg = notifierSg BY <1>0, <3>2, Cleaned DEF NewSg
    <3>4. skipVersion # 0 BY <1>1, <3>1
    <3>5. notifierSg < latest
      BY <1>0, <1>1, <3>4 DEF Struct, VersionInv
    <3>6. ~NothingToRun(NewSg) BY <1>1, <3>2, <3>3, <3>5 DEF NothingToRun
    <3> QED BY <2>1, <3>1, <3>3, <3>4, <3>6 DEF RunBegins
  <2> QED BY <2>2, <2>3 DEF Skips
<1>12. CASE RunSkipped \/ RunNotifiers
  <2>1. /\ UNCHANGED <<owner, latest, live, callback, initial, accumulated, skipNext, skipped,
                       asked, sgVersion, skipVersion, target, skipTo, rpc>>
        /\ \/ wpc = "skip" /\ wpc' = "skipped"
           \/ wpc = "run" /\ wpc' = "ran"
    BY <1>0, <1>12, RunOutcome DEF program, file, realms, callbacks
  <2>2. \A n \in Notifiers : n \notin bare' => n \notin bare
    BY <1>0, <1>12, RunOutcome
  <2> QED BY <2>1, <2>2 DEF Skips
<1>13. CASE HandoverSkipped \/ HandoverNotifiers
  <2> SUFFICES ASSUME NEW n \in Notifiers PROVE Skips(n)'
    OBVIOUS
  <2>1. /\ UNCHANGED <<owner, latest, rpc, live, callback, initial, skipped, asked, bare>>
        /\ \/ wpc = "skipped" /\ wpc' = "run"
           \/ wpc = "ran" /\ wpc' = "idle"
        /\ sgVersion'[n] = IF Pending(n) THEN notifierSg ELSE sgVersion[n]
        /\ skipNext'[n] <=> skipNext[n] /\ ~(Pending(n) /\ callback[n])
    BY <1>0, <1>13, HandoverOutcome DEF program, file, history
  <2>2. accumulated'[n] = IF Pending(n) /\ callback[n] /\ ~skipNext[n]
                          THEN accumulated[n] \cup change[n] ELSE accumulated[n]
    BY <1>0, <1>13, HandoverOutcome
  <2>3. skipNext'[n] => skipNext[n] /\ ~Pending(n) /\ accumulated'[n] = accumulated[n]
    BY <2>1, <2>2 DEF Skips
  <2>4. ASSUME live[n], skipNext'[n], ~asked[n]
        PROVE  wpc = "ran" /\ wpc' = "idle" /\ skipVersion' = skipVersion
    <3>1. n \in Main /\ n \notin fresh /\ n \in Alive("main") BY <1>3, <2>3, <2>4
    <3>2. n \notin batch BY <2>1, <2>3, <2>4 DEF Pending
    <3>3. batch = {} BY <1>0, <3>1, <3>2 DEF Struct, WorkerInv
    <3>4. wpc # "skipped" BY <1>0, <3>3 DEF Struct, WorkerInv
    <3>5. HandoverNotifiers BY <1>13, <3>4 DEF HandoverSkipped
    <3>6. skipVersion' = CleanSkipVersion BY <3>5 DEF HandoverNotifiers
    <3> QED BY <1>0, <2>1, <3>1, <3>4, <3>6, Cleaned
  <2> QED BY <2>1, <2>3, <2>4 DEF Skips
<1>14. ASSUME NEW r \in Realms, Delivers(r) PROVE \A n \in Notifiers : Skips(n)'
  <2> SUFFICES ASSUME NEW n \in Notifiers PROVE Skips(n)'
    OBVIOUS
  <2>1. /\ UNCHANGED <<owner, latest, live, hasRun, callback, skipNext, skipped, asked, bare,
                       sgVersion, skipVersion, worker>>
        /\ rpc[r] \in Delivered
        /\ rpc' = [rpc EXCEPT ![r] = IF rpc[r] = "begin" THEN "writing" ELSE "idle"]
    BY <1>0, <1>14, DeliveryFrame DEF program, file, coordinator, results
  <2>2. LeftAlone(r, n) \/ Dropped(r, n) \/ Told(r, n) BY <1>0, <1>14, DeliveryOutcome
  <2>3. (initial[n] => initial'[n]) /\ (accumulated[n] = {} => accumulated'[n] = {})
    BY <1>1, <2>2 DEF LeftAlone, Untouched, Dropped, Told
  <2>4. ASSUME live[n], rpc'[owner[n]] = "writing" PROVE initial'[n]
    <3>1. CASE owner[n] # r BY <1>1, <2>1, <2>3, <2>4, <3>1 DEF Skips
    <3>2. CASE owner[n] = r
      <4>1. rpc[r] = "begin" BY <1>1, <2>1, <2>4, <3>2
      <4>2. PromoteToWrite(r)
        BY <1>14, <4>1 DEF Delivers, AdvanceToLatest, ProcessAvailableAsync, AdvanceToReady, At
      <4>3. callback[n] BY <2>4, <3>2, <4>1 DEF Adds
      <4>4. n \in NotifiersForRealm(r)
        BY <1>0, <2>4, <3>2 DEF NotifiersForRealm, Struct, PlaceInv
      <4>5. hasRun[n] BY <4>2, <4>3, <4>4 DEF PromoteToWrite, Ready
      <4>6. n \in Packaged(r) BY <4>4, <4>5 DEF Packaged
      <4> QED BY <2>2, <2>4, <3>2, <4>3, <4>6 DEF LeftAlone, Dropped, Told
    <3> QED BY <3>1, <3>2
  <2>5. rpc[owner[n]] = "writing" => rpc'[owner[n]] = "writing"
    BY <1>1, <2>1 DEF Delivered
  <2> QED BY <2>1, <2>3, <2>4, <2>5 DEF Skips, worker
<1>15. ASSUME NEW r \in Realms, Notify(r) \/ BeginTransaction(r) \/ Refresh(r)
       PROVE  \A n \in Notifiers : Skips(n)'
  BY <1>4, <1>5, <1>15
  DEF Notify, BeginTransaction, Refresh, MayCall, At, Goto, program, file, coordinator, results,
      callbacks, history
<1>16. ASSUME NEW r \in Realms, CommitWrite(r) PROVE \A n \in Notifiers : Skips(n)'
  <2>1. /\ rpc[r] = "writing" /\ rpc' = [rpc EXCEPT ![r] = "idle"] /\ latest' = latest + 1
        /\ skipVersion' = SkipVersionFor(r)
        /\ UNCHANGED <<owner, live, callback, initial, accumulated, skipNext, bare, sgVersion, worker>>
    BY <1>16 DEF CommitWrite, At, Goto, program, results, callbacks
  <2>2. \A n \in Notifiers : /\ skipped'[n] = IF asked[n] /\ owner[n] = r THEN skipped[n] \cup {latest + 1}
                                                                          ELSE skipped[n]
    BY <1>1, <1>16 DEF CommitWrite, Set
  <2>3. \A n \in Notifiers : asked'[n] <=> asked[n] /\ owner[n] # r
    <3>1. asked' = [n \in Notifiers |-> IF n \in {k \in Notifiers : owner[k] = r} THEN FALSE ELSE asked[n]]
      BY <1>1, <1>16 DEF CommitWrite, Set
    <3> QED BY <1>1, <3>1
  <2>4. \A s \in Realms : s # r => rpc[s] # "writing"
    BY <1>0, <2>1 DEF Struct, LockInv
  <2>5. ASSUME NEW n \in Notifiers, live[n], skipNext[n], asked[n], owner[n] = r
        PROVE  /\ sgVersion[n] + 1 \in skipped'[n] /\ sgVersion[n] < latest'
               /\ skipVersion' = sgVersion[n] + 1
               /\ wpc \notin {"skip", "skipped"}
               /\ wpc \in {"run", "ran"} => target = sgVersion[n]
    <3>1. sgVersion[n] = latest BY <1>3, <2>1, <2>5 DEF Abreast
    <3>2. skipVersion' = latest + 1 BY <1>3, <2>1, <2>5 DEF SkipVersionFor
    <3>3. sgVersion[n] <= notifierSg /\ n \in Main /\ n \notin fresh BY <1>3, <2>5
    <3>4. wpc # "skip"
      BY <1>0, <1>1, <3>1, <3>3 DEF Struct, WorkerInv, TypeOK
    <3>5. wpc # "skipped"
      <4>1. wpc = "skipped" => n \in batch BY <1>0, <3>3 DEF Struct, WorkerInv
      <4>2. wpc = "skipped" => sgVersion[n] < skipTo /\ skipTo <= target /\ target <= latest
        BY <1>0, <4>1 DEF Struct, WorkerInv
      <4>3. skipTo \in Nat BY <1>0 DEF TypeOK
      <4> QED BY <1>1, <3>1, <4>2, <4>3
    <3>6. wpc \in {"run", "ran"} => target = sgVersion[n]
      <4>1. wpc \in {"run", "ran"} => notifierSg <= target /\ target <= latest
        BY <1>0 DEF Struct, WorkerInv
      <4> QED BY <1>1, <3>1, <3>3, <4>1
    <3>7. latest + 1 \in skipped'[n] BY <2>2, <2>5
    <3>8. sgVersion[n] < latest' BY <1>1, <2>1, <3>1
    <3> QED BY <3>1, <3>2, <3>4, <3>5, <3>6, <3>7, <3>8
  <2>6. ASSUME NEW n \in Notifiers, live[n], skipNext[n], ~asked[n]
        PROVE  owner[n] # r /\ skipVersion' = skipVersion
    <3>1. sgVersion[n] < latest BY <2>6 DEF Skips
    <3>2. owner[n] # r BY <1>1, <1>3, <2>1, <2>6, <3>1 DEF Abreast
    <3>3. ASSUME NEW m \in Alive("main"), owner[m] = r PROVE FALSE
      <4>1. m \in Notifiers /\ live[m] /\ m \in Main BY <3>3 DEF Alive, Main
      <4>2. initial[m] BY <2>1, <3>3, <4>1 DEF Skips
      <4>3. hasRun[m] /\ sgVersion[m] = latest
        BY <2>1, <3>3, <4>1, <4>2 DEF HearInv, Hears, Abreast
      <4>4. sgVersion[n] = sgVersion[m]
        BY <1>0, <1>3, <2>6, <4>1, <4>3 DEF Struct, VersionInv
      <4> QED BY <1>1, <3>1, <4>3, <4>4
    <3> QED BY <2>1, <3>2, <3>3 DEF SkipVersionFor
  <2>7. ASSUME NEW n \in Notifiers PROVE Skips(n)'
    <3>1. asked'[n] => FALSE
      BY <1>1, <2>3, <2>4 DEF Skips
    <3>2. \A s \in Realms : rpc'[s] # "writing" BY <1>1, <2>1, <2>4
    <3>3. CASE live[n] /\ skipNext[n] /\ asked[n]
      <4>1. owner[n] = r BY <1>1, <2>4, <3>3 DEF Skips
      <4> QED BY <1>1, <2>1, <2>5, <3>1, <3>2, <3>3, <4>1 DEF Skips, worker
    <3>4. CASE live[n] /\ skipNext[n] /\ ~asked[n]
      <4>1. skipVersion' = skipVersion /\ skipped'[n] = skipped[n] BY <2>2, <2>6, <3>4
      <4> QED BY <1>1, <2>1, <3>1, <3>2, <3>4, <4>1 DEF Skips, worker
    <3>5. CASE ~(live[n] /\ skipNext[n])
      BY <1>1, <2>1, <3>1, <3>2, <3>5 DEF Skips
    <3> QED BY <3>3, <3>4, <3>5
  <2> QED BY <2>7
<1>17. ASSUME NEW r \in Realms, CancelTransaction(r) PROVE FALSE
  BY <1>2, <1>17 DEF CancelTransaction
<1>18. CASE OtherCommit
  <2>1. /\ latest' = latest + 1
        /\ UNCHANGED <<owner, live, callback, initial, accumulated, skipNext, skipped, asked, bare,
                       sgVersion, skipVersion, worker, rpc>>
    BY <1>18 DEF OtherCommit, program, realms, results, callbacks, history
  <2> QED BY <1>1, <2>1 DEF Skips, worker
<1>19. CASE UNCHANGED vars
  BY <1>4, <1>19 DEF vars, program, file, realms, coordinator, results, callbacks, history
<1> QED
  BY <1>1, <1>6, <1>7, <1>8, <1>9, <1>10, <1>11, <1>12, <1>13, <1>14, <1>15, <1>16, <1>17, <1>18, <1>19
  DEF Next, Worker, Proceed, EndWrite, Delivers

-----------------------------------------------------------------------------
(* Together.                                                               *)

FullInv == BaseInv /\ HearInv /\ SkipInv /\ NothingMissed

LEMMA FullInvariant ==
    ASSUME \A p \in Programs : SkipsAlone(p.calls)
    PROVE  Spec => []FullInv
<1>1. Init => FullInv
  <2> SUFFICES ASSUME Init PROVE FullInv
    OBVIOUS
  <2>1. BaseInv BY BaseInit
  <2>2. HearInv BY DEF Init, HearInv, Hears, FoundOut, Pending
  <2>3. SkipInv BY DEF Init, SkipInv, Adds, Skips
  <2>4. NothingMissed BY DEF Init, NothingMissed
  <2> QED BY <2>1, <2>2, <2>3, <2>4 DEF FullInv
<1>2. FullInv /\ [Next]_vars => FullInv'
  <2> SUFFICES ASSUME FullInv, [Next]_vars PROVE FullInv'
    OBVIOUS
  <2>1. BaseInv /\ HearInv /\ SkipInv /\ NothingMissed BY DEF FullInv
  <2>2. SkipsAlone(calls)
    <3>1. [calls |-> calls, owner |-> owner] \in Programs BY <2>1 DEF BaseInv, TypeOK
    <3> QED BY <3>1
  <2>3. Skipping' <=> Skipping
    <3>1. calls' = calls BY <2>1, FrameStep DEF BaseInv, program
    <3> QED BY <3>1 DEF Skipping
  <2>4. SkipInv'
    <3>1. CASE Skipping
      <4>1. \A n \in Notifiers : Adds(n) BY <2>1, <3>1 DEF SkipInv
      <4>2. \A n \in Notifiers : Adds(n)' BY <2>1, <2>2, <3>1, <4>1, AddsStep
      <4>3. \A n \in Notifiers : Adds(n) /\ Skips(n) BY <2>1, <3>1 DEF SkipInv
      <4>4. \A n \in Notifiers : Skips(n)' BY <2>1, <2>2, <3>1, <4>3, SkipsStep
      <4> QED BY <2>3, <3>1, <4>2, <4>4 DEF SkipInv
    <3>2. CASE ~Skipping
      BY <2>1, <2>3, <3>2, NoSkipStep DEF SkipInv
    <3> QED BY <3>1, <3>2
  <2> QED BY <2>1, <2>4, BaseStep, HearStep, MissedStep DEF FullInv
<1> QED BY <1>1, <1>2, PTL DEF Spec

\* Every change after a callback's first call is waiting for it or was reported, unless the
\* application asked not to be told of it, for any number of Realms, of notifiers and of
\* versions; of the applications that use suppress_next(), for the ones SkipsAlone describes.
THEOREM NothingIsMissed ==
    ASSUME \A p \in Programs : SkipsAlone(p.calls)
    PROVE  Spec => []NothingMissed
<1>1. FullInv => NothingMissed BY DEF FullInv
<1> QED BY <1>1, FullInvariant, PTL

\* add_changes() has nothing accumulated when it is to drop a change, as it asserts, for the
\* same applications.
THEOREM SkipsFindNothing ==
    ASSUME \A p \in Programs : SkipsAlone(p.calls)
    PROVE  Spec => []SkipFindsNothing
<1>1. FullInv => SkipFindsNothing BY DEF FullInv, SkipInv, Skips, SkipFindsNothing
<1> QED BY <1>1, FullInvariant, PTL
=============================================================================
