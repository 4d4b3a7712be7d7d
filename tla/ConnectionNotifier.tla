-------------------------- MODULE ConnectionNotifier --------------------------
(***************************************************************************)
(* SyncSession::ConnectionChangeNotifier: the connection state callbacks   *)
(* of a session (sync_session.cpp).                                        *)
(*                                                                         *)
(* The listener on the sync client's thread and any thread that makes the  *)
(* session inactive change m_connection_state under m_state_mutex, unlock  *)
(* it, and only then enter invoke_callbacks, which takes m_callback_mutex: *)
(* a later change can be told before an earlier one.  The iteration        *)
(* releases its mutex around each call: meanwhile callbacks are added and  *)
(* removed and the other thread may iterate as well; the two share         *)
(* m_callback_index and m_callback_count.                                  *)
(***************************************************************************)
EXTENDS Integers, Sequences, FiniteSets

CONSTANTS
    InvokeThreads, \* the threads that change the connection state
    ClientThread,  \* the one of them that runs the sync client's event loop
    MaxTokens,     \* bound: callbacks registered over time
    MaxChanges     \* bound: changes of the connection state

ASSUME ConnectionBounds == MaxTokens \in Nat /\ MaxChanges \in Nat
ASSUME ClientIsAThread == ClientThread \in InvokeThreads

VARIABLES
    connection,   \* m_connection_state
    nextToken,    \* m_next_token
    registered,   \* m_callbacks, by their tokens
    position,     \* m_callback_index; -1 is npos
    total,        \* m_callback_count
    changed,      \* the number of changes made so far
    stage,        \* for each thread: how far it has got with a change it made
    making,       \* for each thread: the number of that change, or 0
    newState,     \* for each thread: the state it tells the callbacks of
    listening,    \* for each change: the callbacks registered when its iteration began
    heard,        \* for each callback: the calls it got
    disturbed,    \* have two iterations overlapped, or was a callback removed by the
                  \* iteration during which it was added?
    overtaken     \* has an iteration begun before the end of that of an earlier change?

cnVars == <<connection, nextToken, registered, position, total, changed, stage, making, newState,
            listening, heard, disturbed, overtaken>>

Npos == -1

ConnectionStates == {"disconnected", "connecting", "connected"}

\* "reading": m_state_mutex released, connection_state() not evaluated yet; "ready": about
\* to enter invoke_callbacks; "calling": inside a callback.
TellStages == {"idle", "reading", "ready", "calling"}

Listeners == 0 .. MaxTokens - 1

IsRegistered(l) == \E i \in DOMAIN registered : registered[i] = l

ConnectionNotifierInit ==
    /\ connection = "disconnected"
    /\ nextToken = 0
    /\ registered = <<>>
    /\ position = Npos
    /\ total = Npos
    /\ changed = 0
    /\ stage = [t \in InvokeThreads |-> "idle"]
    /\ making = [t \in InvokeThreads |-> 0]
    /\ newState = [t \in InvokeThreads |-> "disconnected"]
    /\ listening = [c \in 1 .. MaxChanges |-> {}]
    /\ heard = [l \in Listeners |-> <<>>]
    /\ disturbed = FALSE
    /\ overtaken = FALSE

-----------------------------------------------------------------------------
(* The changes, under m_state_mutex.                                       *)

\* Thread t has changed the connection state to s and goes on at the stage `next`.
Changes(t, s, next) ==
    /\ stage[t] = "idle" /\ changed < MaxChanges
    /\ connection' = s
    /\ changed' = changed + 1
    /\ making' = [making EXCEPT ![t] = changed + 1]
    /\ newState' = [newState EXCEPT ![t] = s]
    /\ stage' = [stage EXCEPT ![t] = next]
    /\ UNCHANGED <<nextToken, registered, position, total, listening, heard, disturbed, overtaken>>

\* The connection state listener of the sync::Session; it tells of every call.
ListenerCalled(s) == Changes(ClientThread, s, "ready")

\* Variant for the mutation check: the callbacks are not told.
EnterInactiveSilently(t) ==
    /\ connection # "disconnected" /\ stage[t] = "idle"
    /\ connection' = "disconnected"
    /\ UNCHANGED <<nextToken, registered, position, total, changed, stage, making, newState,
                   listening, heard, disturbed, overtaken>>

\* Inactive::enter_state, which tells only of a change.
EnterInactive(t) == connection # "disconnected" /\ Changes(t, "disconnected", "reading")

\* ... and evaluates connection_state() after it has released the mutex.
ReadState(t) ==
    /\ stage[t] = "reading"
    /\ newState' = [newState EXCEPT ![t] = connection]
    /\ stage' = [stage EXCEPT ![t] = "ready"]
    /\ UNCHANGED <<connection, nextToken, registered, position, total, changed, making,
                   listening, heard, disturbed, overtaken>>

-----------------------------------------------------------------------------
(* The callbacks, under m_callback_mutex.                                  *)

\* add_callback: at the end, and past the count of an iteration that is under way.
AddCallback ==
    /\ nextToken < MaxTokens
    /\ nextToken' = nextToken + 1
    /\ registered' = Append(registered, nextToken)
    /\ UNCHANGED <<connection, position, total, changed, stage, making, newState, listening,
                   heard, disturbed, overtaken>>

\* Was l added after the iteration that is under way counted the callbacks?
Late(l) == \E t \in InvokeThreads : stage[t] = "calling" /\ l \notin listening[making[t]]

\* Variant for the mutation check: the index stays when a callback before it goes.
RemoveCallbackIndexKept(l) ==
    \E i \in DOMAIN registered :
       /\ registered[i] = l
       /\ registered' = SubSeq(registered, 1, i - 1) \o SubSeq(registered, i + 1, Len(registered))
       /\ total' = total - 1
       /\ disturbed' = (disturbed \/ Late(l))
       /\ UNCHANGED <<connection, nextToken, position, changed, stage, making, newState, listening,
                      heard, overtaken>>

\* remove_callback.  The index counts from 0; the count goes down even for a callback
\* that is not among the counted ones.
RemoveCallback(l) ==
    \E i \in DOMAIN registered :
       /\ registered[i] = l
       /\ registered' = SubSeq(registered, 1, i - 1) \o SubSeq(registered, i + 1, Len(registered))
       /\ position' = IF position # Npos /\ position >= i - 1 THEN position - 1 ELSE position
       /\ total' = total - 1
       /\ disturbed' = (disturbed \/ Late(l))
       /\ UNCHANGED <<connection, nextToken, changed, stage, making, newState, listening, heard,
                      overtaken>>

\* One turn of the loop of invoke_callbacks: the call of the next callback, or the end.
\* The count is unsigned, so one that went below 0 is larger than every index.  What a
\* read past the end of m_callbacks does is not defined; the thread takes no further step.
Turn(t, count) ==
    \/ /\ position + 1 < count \/ count < 0
       /\ position + 2 \in DOMAIN registered
       /\ position' = position + 1
       /\ heard' = [heard EXCEPT ![registered[position + 2]] =
                       Append(@, [change |-> making[t], state |-> newState[t]])]
       /\ stage' = [stage EXCEPT ![t] = "calling"]
       /\ UNCHANGED making
    \/ /\ count >= 0 /\ position + 1 >= count
       /\ position' = Npos
       /\ stage' = [stage EXCEPT ![t] = "idle"]
       /\ making' = [making EXCEPT ![t] = 0]
       /\ UNCHANGED heard

\* invoke_callbacks begins.
InvokeCallbacks(t) ==
    /\ stage[t] = "ready"
    /\ total' = Len(registered)
    /\ listening' = [listening EXCEPT ![making[t]] = {l \in Listeners : IsRegistered(l)}]
    /\ disturbed' = (disturbed \/ \E u \in InvokeThreads : stage[u] = "calling")
    /\ overtaken' = (overtaken \/ \E u \in InvokeThreads : making[u] # 0 /\ making[u] < making[t])
    /\ Turn(t, Len(registered))
    /\ UNCHANGED <<connection, nextToken, registered, changed, newState>>

\* The callback has returned and the mutex is held again.
CallbackReturned(t) ==
    /\ stage[t] = "calling"
    /\ Turn(t, total)
    /\ UNCHANGED <<connection, nextToken, registered, total, changed, newState, listening,
                   disturbed, overtaken>>

ConnectionNotifierNext ==
    \/ AddCallback
    \/ \E l \in Listeners : RemoveCallback(l)
    \/ \E s \in ConnectionStates : ListenerCalled(s)
    \/ \E t \in InvokeThreads :
          EnterInactive(t) \/ ReadState(t) \/ InvokeCallbacks(t) \/ CallbackReturned(t)

ConnectionNotifierSpec == ConnectionNotifierInit /\ [][ConnectionNotifierNext]_cnVars

-----------------------------------------------------------------------------
HasHeard(l, c) == \E k \in DOMAIN heard[l] : heard[l][k].change = c

\* As long as no two iterations have overlapped and no iteration removed a callback that
\* was added during it, invoke_callbacks calls no callback twice with one change, and one
\* that stays registered from the beginning of a change's iteration to its end hears of it,
\* whatever is added and removed during the calls.  If no change was overtaken between the
\* two mutexes either, callbacks hear of the changes in the order in which they were made.
HeardInOrder ==
    ~disturbed =>
       /\ \A l \in Listeners : \A i, j \in DOMAIN heard[l] :
             i < j => /\ heard[l][i].change # heard[l][j].change
                      /\ ~overtaken => heard[l][i].change < heard[l][j].change
       /\ \A c \in 1 .. MaxChanges :
             (\A t \in InvokeThreads : making[t] # c) =>
                \A l \in listening[c] : IsRegistered(l) => HasHeard(l, c)

\* Under the same conditions, when no change is being told any more, the last state a
\* registered callback was told of is the session's connection state, although the listener
\* and Inactive::enter_state pick up the state they tell in different ways
\* (sync_session.cpp:650 and 240).
LastStateTold ==
    (~disturbed /\ ~overtaken /\ \A t \in InvokeThreads : making[t] = 0) =>
       \A l \in Listeners :
          (IsRegistered(l) /\ heard[l] # <<>>) => heard[l][Len(heard[l])].state = connection
=============================================================================
