------------------------- MODULE NotifierCallbacks -------------------------
(***************************************************************************)
(* The callbacks of one CollectionNotifier.  The worker adds changes to    *)
(* each of them; the Realm's thread packages what has accumulated and goes *)
(* through the list, first before and then after it advances, releasing    *)
(* m_callback_mutex while a callback runs.  A callback may add and remove  *)
(* callbacks, and any thread may remove one, so the position in the list   *)
(* (m_callback_index) and the number of callbacks to call                  *)
(* (m_callback_count) are corrected as the list shrinks under the loop.    *)
(*                                                                         *)
(* A critical section of m_callback_mutex is one action.  A change is the  *)
(* number of its handover.                                                 *)
(***************************************************************************)
EXTENDS Integers, Sequences

CONSTANTS
    MaxTokens,  \* bound on the callbacks ever added
    MaxChanges, \* bound on the handovers
    SizeMax     \* the largest size_t: npos

ASSUME BoundsAssumption ==
    MaxTokens \in Nat /\ MaxChanges \in Nat /\ SizeMax \in Nat /\ SizeMax > MaxTokens + 1

Tokens == 1..MaxTokens
Changes == 1..MaxChanges
Nobody == 0
Phases == {"idle", "packaged", "before", "advanced", "after"}

VARIABLES
    list,       \* m_callbacks, in order
    added,      \* m_next_token
    have,       \* m_have_callbacks
    index,      \* m_callback_index
    count,      \* m_callback_count
    accumulated, toDeliver, initial, skipNext, \* of each callback
    phase,      \* what the Realm's thread is doing
    running,    \* the callback it has called, or Nobody
    failed,     \* did the loop leave the list?
    \* history
    changes,    \* the handovers so far
    given,      \* those a callback was there for, and did not skip
    told,       \* those it was told of
    due,        \* the callbacks this loop still has to call
    extra,      \* was a callback called that was not due?
    newcomers,      \* the callbacks added since the notifier was packaged
    freshGone   \* was one ever removed before the delivery ended?

listVars == <<list, added, have>>
loop == <<index, count, phase, running, failed>>
data == <<accumulated, toDeliver, initial, skipNext>>
history == <<changes, given, told, due, extra, newcomers, freshGone>>
ncVars == <<listVars, loop, data, history>>

Elements(s) == {s[i] : i \in DOMAIN s}
Added == 1..added

\* Every variable has the type of what it stands for.
TypeOK ==
    /\ list \in Seq(Tokens) /\ added \in 0..MaxTokens
    /\ have \in BOOLEAN /\ failed \in BOOLEAN
    /\ index \in 0..SizeMax /\ count \in 0..SizeMax
    /\ accumulated \in [Tokens -> SUBSET Changes]
    /\ toDeliver \in [Tokens -> SUBSET Changes]
    /\ initial \in [Tokens -> BOOLEAN] /\ skipNext \in [Tokens -> BOOLEAN]
    /\ phase \in Phases /\ running \in Tokens \cup {Nobody}
    /\ changes \in 0..MaxChanges
    /\ given \in [Tokens -> SUBSET Changes] /\ told \in [Tokens -> SUBSET Changes]
    /\ due \subseteq Tokens /\ newcomers \subseteq Tokens
    /\ extra \in BOOLEAN /\ freshGone \in BOOLEAN

\* ++ and -- of a size_t
Inc(n) == IF n = SizeMax THEN 0 ELSE n + 1
Dec(n) == IF n = 0 THEN SizeMax ELSE n - 1
npos == SizeMax

-----------------------------------------------------------------------------
(* The list *)

\* The Realm's thread runs the application's code: between deliveries, in a
\* callback, or in what is called on the way from the one loop to the other.
InApplication == ~failed /\ (phase \notin {"before", "after"} \/ running # Nobody)

\* add_callback() sets m_have_callbacks unless the loop is running.
HaveAfterAdd == have \/ index = npos

\* CollectionNotifier::add_callback()
AddCallback ==
    /\ InApplication
    /\ added < MaxTokens
    /\ added' = added + 1
    /\ list' = Append(list, added + 1)
    /\ have' = HaveAfterAdd
    /\ newcomers' = IF phase = "idle" THEN newcomers ELSE newcomers \cup {added + 1}
    /\ UNCHANGED <<loop, data, changes, given, told, due, extra, freshGone>>

\* What remove_callback() makes of m_callback_index and m_callback_count when
\* it takes out the callback at position i, counted from 0.
IndexKept(i) == index \* mutant: the loop is not told
IndexAfterRemove(i) == IF index # npos /\ index >= i THEN Dec(index) ELSE index
CountAfterRemove == Dec(count)
HaveStays(l) == have \* mutant: the flag is not updated
HaveAfterRemove(l) == l # <<>>

\* CollectionNotifier::remove_callback(), on any thread
RemoveCallback(i) ==
    LET t == list[i]
        rest == SubSeq(list, 1, i - 1) \o SubSeq(list, i + 1, Len(list))
    IN  /\ ~failed
        /\ list' = rest
        /\ index' = IndexAfterRemove(i - 1)
        /\ count' = CountAfterRemove
        /\ have' = HaveAfterRemove(rest)
        /\ due' = due \ {t}
        /\ freshGone' = (freshGone \/ t \in newcomers)
        /\ newcomers' = newcomers \ {t}
        /\ UNCHANGED <<added, phase, running, failed, data, changes, given, told, extra>>

\* CollectionNotifier::suppress_next_notification()
SuppressNext(t) ==
    /\ InApplication
    /\ t \in Elements(list)
    /\ skipNext' = [skipNext EXCEPT ![t] = TRUE]
    /\ UNCHANGED <<listVars, loop, accumulated, toDeliver, initial, history>>

-----------------------------------------------------------------------------
(* The worker *)

Replaced(t, c) == {c} \* mutant: what has accumulated is overwritten
Merged(t, c) == accumulated[t] \cup {c}

\* CollectionNotifier::add_changes()
AddChanges ==
    LET c == changes + 1
        told_of == {t \in Elements(list) : ~skipNext[t]}
    IN  /\ ~failed /\ changes < MaxChanges
        /\ changes' = c
        /\ accumulated' = [t \in Tokens |->
                             IF t \in told_of THEN Merged(t, c) ELSE accumulated[t]]
        /\ skipNext' = [t \in Tokens |-> skipNext[t] /\ t \notin Elements(list)]
        /\ given' = [t \in Tokens |->
                       IF t \in told_of THEN given[t] \cup {c} ELSE given[t]]
        /\ UNCHANGED <<listVars, loop, toDeliver, initial, told, due, extra, newcomers,
                       freshGone>>

-----------------------------------------------------------------------------
(* Delivery *)

\* CollectionNotifier::package_for_delivery()
PackageForDelivery ==
    /\ ~failed /\ phase = "idle"
    /\ toDeliver' = [t \in Tokens |-> IF t \in Elements(list) THEN accumulated[t]
                                                           ELSE toDeliver[t]]
    /\ accumulated' = [t \in Tokens |-> IF t \in Elements(list) THEN {}
                                                             ELSE accumulated[t]]
    /\ count' = Len(list)
    /\ phase' = "packaged"
    /\ UNCHANGED <<listVars, index, running, failed, initial, skipNext, history>>

\* Does the callback t have anything to be told in the loop p?
Wants(p, t) == toDeliver[t] # {} \/ (p = "after" /\ ~initial[t])

\* The positions, counted from 0, at which the loop may go on.
LoopLimitList == Len(list) \* mutant: the loop goes to the end of the list
LoopLimit == count
Ahead(p, i) == {j \in 0..SizeMax : /\ j >= i /\ j < LoopLimit
                                   /\ j >= Len(list) \/ Wants(p, list[j + 1])}

(***************************************************************************)
(* for_each_callback() in the loop p, with m_callback_index already moved  *)
(* on to i and the callbacks D still due: call the next one that has       *)
(* something to be told, or end the loop and go to the phase q.            *)
(***************************************************************************)
CallNext(p, i, q, D) ==
    \/ /\ Ahead(p, i) = {}
       /\ index' = npos
       /\ running' = Nobody
       /\ phase' = q
       /\ due' = D
       /\ newcomers' = IF q = "idle" THEN {} ELSE newcomers
       /\ UNCHANGED <<failed, toDeliver, initial, told, extra, freshGone>>
    \/ \E j \in Ahead(p, i) :
         /\ \A k \in Ahead(p, i) : j <= k
         /\ j >= Len(list)
         /\ failed' = TRUE
         /\ phase' = p
         /\ due' = D
         /\ UNCHANGED <<index, running, toDeliver, initial, told, extra, newcomers, freshGone>>
    \/ \E j \in Ahead(p, i) :
         /\ \A k \in Ahead(p, i) : j <= k
         /\ j < Len(list)
         /\ LET t == list[j + 1]
            IN  /\ running' = t
                /\ due' = D \ {t}
                /\ extra' = (extra \/ t \notin D)
                /\ IF p = "before" THEN UNCHANGED <<toDeliver, initial, told>>
                   ELSE /\ initial' = [initial EXCEPT ![t] = TRUE]
                        /\ told' = [told EXCEPT ![t] = @ \cup toDeliver[t]]
                        /\ toDeliver' = [toDeliver EXCEPT ![t] = {}]
         /\ index' = j
         /\ phase' = p
         /\ UNCHANGED <<failed, newcomers, freshGone>>

\* The callbacks that were packaged and have something to be told in the loop p.
Packaged(p) == {t \in Elements(list) \ newcomers : Wants(p, t)}

\* before_advance() and after_advance() begin their loop ...
BeforeAdvance ==
    /\ ~failed /\ phase = "packaged"
    /\ CallNext("before", Inc(index), "advanced", Packaged("before"))
    /\ UNCHANGED <<listVars, count, accumulated, skipNext, changes, given>>
AfterAdvance ==
    /\ ~failed /\ phase \in {"packaged", "advanced"}
    /\ CallNext("after", Inc(index), "idle", Packaged("after"))
    /\ UNCHANGED <<listVars, count, accumulated, skipNext, changes, given>>

\* ... and go on when the callback returns.
CallbackReturns ==
    /\ ~failed /\ running # Nobody
    /\ CallNext(phase, Inc(index), IF phase = "before" THEN "advanced" ELSE "idle", due)
    /\ UNCHANGED <<listVars, count, accumulated, skipNext, changes, given>>

-----------------------------------------------------------------------------
NotifierCallbacksInit ==
    /\ list = <<>> /\ added = 0 /\ have = FALSE
    /\ index = npos /\ count = npos
    /\ accumulated = [t \in Tokens |-> {}] /\ toDeliver = [t \in Tokens |-> {}]
    /\ initial = [t \in Tokens |-> FALSE] /\ skipNext = [t \in Tokens |-> FALSE]
    /\ phase = "idle" /\ running = Nobody /\ failed = FALSE
    /\ changes = 0
    /\ given = [t \in Tokens |-> {}] /\ told = [t \in Tokens |-> {}]
    /\ due = {} /\ extra = FALSE /\ newcomers = {} /\ freshGone = FALSE

NotifierCallbacksNext ==
    \/ AddCallback
    \/ \E i \in DOMAIN list : RemoveCallback(i)
    \/ \E t \in Added : SuppressNext(t)
    \/ AddChanges
    \/ PackageForDelivery
    \/ BeforeAdvance
    \/ AfterAdvance
    \/ CallbackReturns

NotifierCallbacksSpec == NotifierCallbacksInit /\ [][NotifierCallbacksNext]_ncVars

-----------------------------------------------------------------------------
(* What the list promises *)

\* m_have_callbacks is what its comment says, a cached m_callbacks.empty(),
\* although add_callback() does not set it in the middle of a loop.
HaveIsCached == have = (list # <<>>)

\* As long as no callback added during a delivery is removed in it, the loop
\* stays in the list, and calls neither a callback added during the delivery
\* nor one a second time.  (Removing one of those decrements m_callback_count
\* although it was not counted, see README.)
OnlyDueCalled == ~freshGone => ~failed /\ ~extra

\* ... and it ends when every packaged callback that is still there and had
\* something to be told has been called.
AllDueCalled == ~freshGone /\ phase \in {"idle", "advanced"} => due = {}

\* Every change a callback was there for waits to be packaged, waits to be
\* delivered, or was told: a callback is not passed over for good.
NothingPassedOver ==
    ~freshGone => \A t \in Elements(list) :
        given[t] = accumulated[t] \cup toDeliver[t] \cup told[t]
                   /\ (phase = "idle" => toDeliver[t] = {})
=============================================================================
