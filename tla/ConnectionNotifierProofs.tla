----------------------- MODULE ConnectionNotifierProofs -----------------------
(***************************************************************************)
(* Proofs about ConnectionNotifier, for any number of threads, callbacks   *)
(* and changes of the connection state.                                    *)
(***************************************************************************)
EXTENDS ConnectionNotifier, SequenceTheorems, TLAPS

-----------------------------------------------------------------------------
(* The inductive invariant.                                                *)

Calls == [change : Nat, state : ConnectionStates]

CnTypeOK ==
    /\ connection \in ConnectionStates
    /\ nextToken \in 0 .. MaxTokens
    /\ registered \in Seq(Listeners)
    /\ position \in Int /\ total \in Int /\ changed \in 0 .. MaxChanges
    /\ stage \in [InvokeThreads -> TellStages]
    /\ making \in [InvokeThreads -> 0 .. MaxChanges]
    /\ newState \in [InvokeThreads -> ConnectionStates]
    /\ listening \in [1 .. MaxChanges -> SUBSET Listeners]
    /\ heard \in [Listeners -> Seq(Calls)]
    /\ disturbed \in BOOLEAN /\ overtaken \in BOOLEAN

\* A token is given to one callback, and what is known of it dates from then on.
TokenInv ==
    /\ \A i \in DOMAIN registered : registered[i] < nextToken
    /\ \A i, j \in DOMAIN registered : registered[i] = registered[j] => i = j
    /\ \A c \in 1 .. MaxChanges : \A l \in listening[c] : l < nextToken /\ c <= changed
    /\ \A l \in Listeners : l >= nextToken => heard[l] = <<>>

\* A change is told by the thread that made it, and by nobody before its iteration.
PendingInv ==
    /\ \A t \in InvokeThreads : (stage[t] = "idle" <=> making[t] = 0) /\ making[t] <= changed
    /\ \A t, u \in InvokeThreads : making[t] # 0 /\ making[t] = making[u] => t = u
    /\ \A l \in Listeners : \A k \in DOMAIN heard[l] : heard[l][k].change <= changed
    /\ \A t \in InvokeThreads : stage[t] \in {"reading", "ready"} =>
          \A l \in Listeners : ~HasHeard(l, making[t])

\* What is told of the newest change is the connection state, however it was picked up.
ToldInv ==
    /\ \A t \in InvokeThreads :
          (making[t] = changed /\ stage[t] \in {"ready", "calling"}) => newState[t] = connection
    /\ \A l \in Listeners : \A k \in DOMAIN heard[l] :
          heard[l][k].change = changed => heard[l][k].state = connection

\* The iteration of change c over the first count callbacks: they are the ones that listen,
\* the first of them have been called, and callbacks after them have not been called yet.
Iterates(c, count) ==
    /\ -1 <= position /\ position + 1 <= count /\ count <= Len(registered)
    /\ \A i \in DOMAIN registered :
         /\ i <= count <=> registered[i] \in listening[c]
         /\ i <= position + 1 => HasHeard(registered[i], c)
         /\ position + 1 < i => ~HasHeard(registered[i], c)
         /\ count < i => heard[registered[i]] = <<>>

OneIteration ==
    /\ \A t, u \in InvokeThreads : stage[t] = "calling" /\ stage[u] = "calling" => t = u
    /\ (\A t \in InvokeThreads : stage[t] # "calling") => position = -1
    /\ \A t \in InvokeThreads : stage[t] = "calling" => Iterates(making[t], total)

\* No callback is called twice with one change, and none is forgotten.
Once ==
    \A l \in Listeners : \A i, j \in DOMAIN heard[l] :
       i < j => heard[l][i].change # heard[l][j].change
AllHeard ==
    \A c \in 1 .. MaxChanges :
       (\A t \in InvokeThreads : making[t] # c) =>
          \A l \in listening[c] : IsRegistered(l) => HasHeard(l, c)

\* A change that needs no telling any more.
Done(c) == c \in 1 .. changed /\ \A t \in InvokeThreads : making[t] # c

\* Changes are told in the order in which they were made, and a callback that was ever
\* called knows of every later change that is done.
InTurn ==
    /\ \A c \in Nat, u \in InvokeThreads : Done(c) /\ making[u] # 0 => c < making[u]
    /\ \A t, u \in InvokeThreads :
          stage[t] = "calling" /\ making[u] # 0 => making[t] <= making[u]
InOrder ==
    \A l \in Listeners : \A i, j \in DOMAIN heard[l] :
       i < j => heard[l][i].change < heard[l][j].change
Informed ==
    \A i \in DOMAIN registered : heard[registered[i]] # <<>> =>
       \A c \in Nat : Done(c) =>
          \E k \in DOMAIN heard[registered[i]] : c <= heard[registered[i]][k].change

Undisturbed == OneIteration /\ Once /\ AllHeard
Ordered == InTurn /\ InOrder /\ Informed

CnInv ==
    /\ CnTypeOK /\ TokenInv /\ PendingInv /\ ToldInv
    /\ ~disturbed => Undisturbed
    /\ ~disturbed /\ ~overtaken => Ordered

-----------------------------------------------------------------------------
(* What the operations on m_callbacks do.                                  *)

Without(s, i) == SubSeq(s, 1, i - 1) \o SubSeq(s, i + 1, Len(s))

\* A sequence without its element at i.
LEMMA WithoutElement ==
    ASSUME NEW S, NEW s \in Seq(S), NEW i \in DOMAIN s
    PROVE  /\ Without(s, i) \in Seq(S) /\ Len(Without(s, i)) = Len(s) - 1
           /\ \A j \in 1 .. Len(s) - 1 : Without(s, i)[j] = IF j < i THEN s[j] ELSE s[j + 1]
<1> DEFINE a == SubSeq(s, 1, i - 1)
           b == SubSeq(s, i + 1, Len(s))
           r == Without(s, i)
<1>0. i \in 1 .. Len(s) /\ Len(s) \in Nat BY LenProperties
<1>1. a \in Seq(S) /\ Len(a) = i - 1 /\ \A j \in 1 .. i - 1 : a[j] = s[j]
  BY <1>0, SubSeqProperties
<1>2. b \in Seq(S) /\ Len(b) = Len(s) - i /\ \A j \in 1 .. Len(s) - i : b[j] = s[i + j]
  BY <1>0, SubSeqProperties
<1>3. r = a \o b BY DEF Without
<1> HIDE DEF a, b, r
<1>4. /\ r \in Seq(S) /\ Len(r) = Len(a) + Len(b)
      /\ \A j \in 1 .. Len(a) + Len(b) : r[j] = IF j <= Len(a) THEN a[j] ELSE b[j - Len(a)]
  BY <1>1, <1>2, <1>3, ConcatProperties
<1>5. ASSUME NEW j \in 1 .. Len(s) - 1 PROVE r[j] = IF j < i THEN s[j] ELSE s[j + 1]
  <2>1. CASE j < i
    <3>1. j \in 1 .. Len(a) + Len(b) /\ j <= Len(a) /\ j \in 1 .. i - 1 BY <1>0, <1>1, <1>2, <2>1
    <3> QED BY <1>1, <1>4, <2>1, <3>1
  <2>2. CASE ~(j < i)
    <3>1. j - (i - 1) \in 1 .. Len(s) - i /\ i + (j - (i - 1)) = j + 1 BY <1>0, <2>2
    <3>2. r[j] = b[j - (i - 1)]
      <4>1. j \in 1 .. Len(a) + Len(b) /\ ~(j <= Len(a)) BY <1>0, <1>1, <1>2, <2>2
      <4> QED BY <1>1, <1>4, <4>1
    <3> QED BY <1>2, <2>2, <3>1, <3>2
  <2> QED BY <2>1, <2>2
<1>6. Len(r) = Len(s) - 1 BY <1>0, <1>1, <1>2, <1>4
<1>7. r = Without(s, i) BY DEF r
<1> QED BY <1>4, <1>5, <1>6, <1>7

\* A sequence with an element more.
LEMMA WithElement ==
    ASSUME NEW S, NEW s \in Seq(S), NEW e \in S
    PROVE  /\ Append(s, e) \in Seq(S) /\ Len(Append(s, e)) = Len(s) + 1
           /\ DOMAIN s = 1 .. Len(s) /\ Len(s) \in Nat
           /\ DOMAIN Append(s, e) = 1 .. Len(s) + 1
           /\ \A j \in 1 .. Len(s) : Append(s, e)[j] = s[j]
           /\ Append(s, e)[Len(s) + 1] = e
BY AppendProperties, LenProperties

\* The two promises follow from the invariant.
LEMMA Promised == CnInv => HeardInOrder /\ LastStateTold
<1> SUFFICES ASSUME CnInv PROVE HeardInOrder /\ LastStateTold
  OBVIOUS
<1>1. HeardInOrder
  BY DEF CnInv, Undisturbed, Ordered, Once, AllHeard, InOrder, HeardInOrder
<1>2. ASSUME ~disturbed, ~overtaken, \A t \in InvokeThreads : making[t] = 0,
             NEW l \in Listeners, IsRegistered(l), heard[l] # <<>>
      PROVE  heard[l][Len(heard[l])].state = connection
  <2>1. heard[l] \in Seq(Calls) /\ changed \in Nat BY ConnectionBounds DEF CnInv, CnTypeOK
  <2>2. /\ DOMAIN heard[l] = 1 .. Len(heard[l]) /\ Len(heard[l]) \in Nat
        /\ Len(heard[l]) \in DOMAIN heard[l]
    BY <1>2, <2>1, LenProperties, EmptySeq
  <2>3. \A k \in DOMAIN heard[l] :
           heard[l][k].change \in Nat /\ heard[l][k].change <= changed
    <3> SUFFICES ASSUME NEW k \in DOMAIN heard[l]
                 PROVE  heard[l][k].change \in Nat /\ heard[l][k].change <= changed
      OBVIOUS
    <3>1. heard[l][k] \in Calls BY <2>1, <2>2, ElementOfSeq
    <3> QED BY <3>1 DEF CnInv, PendingInv, Calls
  <2>4. Done(changed) \/ changed = 0 BY <1>2, <2>1 DEF Done
  <2>5. \E k \in DOMAIN heard[l] : changed <= heard[l][k].change
    <3>1. CASE changed = 0 BY <2>2, <2>3, <3>1
    <3>2. CASE Done(changed) BY <1>2, <2>1, <3>2 DEF CnInv, Ordered, Informed, IsRegistered
    <3> QED BY <2>4, <3>1, <3>2
  <2>6. PICK k \in DOMAIN heard[l] : changed <= heard[l][k].change BY <2>5
  <2>7. k = Len(heard[l])
    <3>1. \A i, j \in DOMAIN heard[l] : i < j => heard[l][i].change < heard[l][j].change
      BY <1>2 DEF CnInv, Ordered, InOrder
    <3>2. k < Len(heard[l]) => heard[l][k].change < heard[l][Len(heard[l])].change
      BY <2>2, <3>1
    <3> QED BY <2>1, <2>2, <2>3, <2>6, <3>2
  <2> QED BY <2>1, <2>3, <2>6, <2>7 DEF CnInv, ToldInv
<1>3. LastStateTold BY <1>2 DEF LastStateTold
<1> QED BY <1>1, <1>3

-----------------------------------------------------------------------------
(* Every step keeps the invariant.                                         *)

LEMMA ChangeStep ==
    ASSUME CnInv, NEW t \in InvokeThreads, NEW s \in ConnectionStates, NEW next,
           next = "ready" \/ next = "reading", Changes(t, s, next)
    PROVE  CnInv'
<1>1. /\ stage[t] = "idle" /\ changed \in Nat /\ changed + 1 \in 1 .. MaxChanges
      /\ connection' = s /\ changed' = changed + 1
      /\ making' = [making EXCEPT ![t] = changed + 1]
      /\ newState' = [newState EXCEPT ![t] = s]
      /\ stage' = [stage EXCEPT ![t] = next] /\ next \in TellStages
      /\ UNCHANGED <<nextToken, registered, position, total, listening, heard, disturbed, overtaken>>
  BY ConnectionBounds DEF CnInv, CnTypeOK, Changes, TellStages
<1>2. /\ stage \in [InvokeThreads -> TellStages] /\ making \in [InvokeThreads -> 0 .. MaxChanges]
      /\ newState \in [InvokeThreads -> ConnectionStates] /\ heard \in [Listeners -> Seq(Calls)]
      /\ MaxChanges \in Nat
  BY ConnectionBounds DEF CnInv, CnTypeOK
<1>3. CnTypeOK' BY <1>1, <1>2 DEF CnInv, CnTypeOK
<1>4. /\ making'[t] = changed + 1 /\ stage'[t] = next /\ newState'[t] = s
      /\ \A u \in InvokeThreads : u # t =>
            making'[u] = making[u] /\ stage'[u] = stage[u] /\ newState'[u] = newState[u]
      /\ \A u \in InvokeThreads : making[u] \in Nat /\ making[u] <= changed
  BY <1>1, <1>2 DEF CnInv, PendingInv
<1>5. \A l \in Listeners : \A k \in DOMAIN heard[l] :
         heard[l][k].change \in Nat /\ heard[l][k].change <= changed
  <2> SUFFICES ASSUME NEW l \in Listeners, NEW k \in DOMAIN heard[l]
               PROVE  heard[l][k].change \in Nat /\ heard[l][k].change <= changed
    OBVIOUS
  <2>1. heard[l][k] \in Calls BY <1>2, LenProperties, ElementOfSeq
  <2> QED BY <2>1 DEF CnInv, PendingInv, Calls
<1>6. TokenInv'
  <2>1. \A c \in 1 .. MaxChanges : \A l \in listening[c] : l < nextToken /\ c <= changed + 1
    BY <1>1, <1>2 DEF CnInv, TokenInv
  <2> QED BY <1>1, <2>1 DEF CnInv, TokenInv
<1>7. PendingInv'
  <2>1. \A u \in InvokeThreads : (stage'[u] = "idle" <=> making'[u] = 0) /\ making'[u] <= changed'
    BY <1>1, <1>4 DEF CnInv, PendingInv
  <2>2. \A u, v \in InvokeThreads : making'[u] # 0 /\ making'[u] = making'[v] => u = v
    BY <1>1, <1>4 DEF CnInv, PendingInv
  <2>3. \A l \in Listeners : \A k \in DOMAIN heard[l] : heard[l][k].change <= changed + 1
    BY <1>1, <1>5
  <2>4. \A l \in Listeners : \A k \in DOMAIN heard'[l] : heard'[l][k].change # changed + 1
    BY <1>1, <1>5
  <2>5. \A u \in InvokeThreads : stage'[u] \in {"reading", "ready"} =>
           \A l \in Listeners : \A k \in DOMAIN heard'[l] : heard'[l][k].change # making'[u]
    BY <1>1, <1>4, <2>4 DEF CnInv, PendingInv, HasHeard
  <2> QED BY <1>1, <2>1, <2>2, <2>3, <2>5 DEF PendingInv, HasHeard
<1>8. ToldInv'
  <2>1. \A u \in InvokeThreads : making'[u] = changed' => u = t BY <1>1, <1>4
  <2>2. \A l \in Listeners : \A k \in DOMAIN heard[l] : heard[l][k].change # changed + 1
    BY <1>1, <1>5
  <2> QED BY <1>1, <1>4, <2>1, <2>2 DEF ToldInv
<1>9. ASSUME ~disturbed' PROVE Undisturbed'
  <2>1. Undisturbed BY <1>1, <1>9 DEF CnInv
  <2>2. \A u \in InvokeThreads :
           /\ stage'[u] = "calling" <=> stage[u] = "calling"
           /\ stage[u] = "calling" => making'[u] = making[u]
    BY <1>1, <1>4
  <2>3. OneIteration' BY <1>1, <2>1, <2>2 DEF Undisturbed, OneIteration, Iterates, HasHeard
  <2>4. \A c \in 1 .. MaxChanges : (\A u \in InvokeThreads : making'[u] # c) =>
           \A u \in InvokeThreads : making[u] # c
    BY <1>1, <1>4 DEF CnInv, PendingInv
  <2>5. AllHeard' BY <1>1, <2>1, <2>4 DEF Undisturbed, AllHeard, IsRegistered, HasHeard
  <2>6. Once' BY <1>1, <2>1 DEF Undisturbed, Once
  <2> QED BY <2>3, <2>5, <2>6 DEF Undisturbed
<1>10. ASSUME ~disturbed', ~overtaken' PROVE Ordered'
  <2>1. Ordered BY <1>1, <1>10 DEF CnInv
  <2>2. \A c \in Nat : Done(c)' => Done(c) /\ c <= changed
    <3> SUFFICES ASSUME NEW c \in Nat, Done(c)' PROVE Done(c) /\ c <= changed
      OBVIOUS
    <3>1. c \in 1 .. changed + 1 /\ \A u \in InvokeThreads : making'[u] # c BY <1>1 DEF Done
    <3>2. c \in 1 .. changed BY <1>1, <1>4, <3>1
    <3>3. \A u \in InvokeThreads : making[u] # c
      BY <1>1, <1>4, <3>1, <3>2 DEF CnInv, PendingInv
    <3> QED BY <1>1, <3>2, <3>3 DEF Done
  <2>3. \A c \in Nat, u \in InvokeThreads : Done(c)' /\ making'[u] # 0 => c < making'[u]
    BY <1>1, <1>4, <2>1, <2>2 DEF Ordered, InTurn
  <2>4. \A u, v \in InvokeThreads :
           stage'[u] = "calling" /\ making'[v] # 0 => making'[u] <= making'[v]
    BY <1>1, <1>4, <2>1 DEF Ordered, InTurn
  <2>5. InTurn' BY <2>3, <2>4 DEF InTurn
  <2>6. InOrder' BY <1>1, <2>1 DEF Ordered, InOrder
  <2>7. Informed' BY <1>1, <2>1, <2>2 DEF Ordered, Informed
  <2> QED BY <2>5, <2>6, <2>7 DEF Ordered
<1> QED BY <1>3, <1>6, <1>7, <1>8, <1>9, <1>10 DEF CnInv

LEMMA ReadStep ==
    ASSUME CnInv, NEW t \in InvokeThreads, ReadState(t) PROVE CnInv'
<1>1. /\ stage[t] = "reading" /\ newState' = [newState EXCEPT ![t] = connection]
      /\ stage' = [stage EXCEPT ![t] = "ready"]
      /\ UNCHANGED <<connection, nextToken, registered, position, total, changed, making,
                     listening, heard, disturbed, overtaken>>
  BY DEF ReadState
<1>2. /\ stage \in [InvokeThreads -> TellStages] /\ newState \in [InvokeThreads -> ConnectionStates]
      /\ connection \in ConnectionStates
  BY DEF CnInv, CnTypeOK
<1>3. CnTypeOK' BY <1>1, <1>2 DEF CnInv, CnTypeOK, TellStages
<1>4. /\ stage'[t] = "ready" /\ newState'[t] = connection
      /\ \A u \in InvokeThreads : u # t => stage'[u] = stage[u] /\ newState'[u] = newState[u]
  BY <1>1, <1>2
<1>5. TokenInv' BY <1>1 DEF CnInv, TokenInv
<1>6. PendingInv' BY <1>1, <1>4 DEF CnInv, PendingInv, HasHeard
<1>7. ToldInv' BY <1>1, <1>4 DEF CnInv, ToldInv
<1>8. \A u \in InvokeThreads : stage'[u] = "calling" <=> stage[u] = "calling" BY <1>1, <1>4
<1>9. Undisturbed => Undisturbed'
  BY <1>1, <1>8 DEF Undisturbed, OneIteration, Iterates, Once, AllHeard, IsRegistered, HasHeard
<1>10. Ordered => Ordered' BY <1>1, <1>8 DEF Ordered, InTurn, InOrder, Informed, Done
<1> QED BY <1>1, <1>3, <1>5, <1>6, <1>7, <1>9, <1>10 DEF CnInv

LEMMA AddStep ==
    ASSUME CnInv, AddCallback PROVE CnInv'
<1> USE ConnectionBounds DEF Listeners
<1>1. /\ nextToken \in Nat /\ nextToken \in Listeners /\ nextToken' = nextToken + 1
      /\ nextToken' \in 0 .. MaxTokens /\ registered' = Append(registered, nextToken)
      /\ UNCHANGED <<connection, position, total, changed, stage, making, newState, listening,
                     heard, disturbed, overtaken>>
  BY DEF CnInv, CnTypeOK, AddCallback
<1>2. registered \in Seq(Listeners) BY DEF CnInv, CnTypeOK
<1>3. /\ registered' \in Seq(Listeners) /\ Len(registered') = Len(registered) + 1
      /\ DOMAIN registered = 1 .. Len(registered) /\ Len(registered) \in Nat
      /\ DOMAIN registered' = 1 .. Len(registered) + 1
      /\ \A j \in 1 .. Len(registered) : registered'[j] = registered[j]
      /\ registered'[Len(registered) + 1] = nextToken
  BY <1>1, <1>2, WithElement
<1>4. CnTypeOK' BY <1>1, <1>3 DEF CnInv, CnTypeOK
<1>5. \A i \in DOMAIN registered : registered[i] \in Nat /\ registered[i] < nextToken
  BY <1>2, <1>3, ElementOfSeq DEF CnInv, TokenInv
<1>6. /\ \A c \in 1 .. MaxChanges : nextToken \notin listening[c]
      /\ heard[nextToken] = <<>>
  BY <1>1 DEF CnInv, TokenInv
<1>7. TokenInv'
  <2>1. \A i \in DOMAIN registered' : registered'[i] < nextToken' BY <1>1, <1>3, <1>5
  <2>2. \A i, j \in DOMAIN registered' : registered'[i] = registered'[j] => i = j
    BY <1>1, <1>3, <1>5 DEF CnInv, TokenInv
  <2>3. \A c \in 1 .. MaxChanges : \A l \in listening[c] : l \in Nat
    BY DEF CnInv, CnTypeOK
  <2>4. \A c \in 1 .. MaxChanges : \A l \in listening'[c] : l < nextToken' /\ c <= changed'
    BY <1>1, <2>3 DEF CnInv, TokenInv
  <2>5. \A l \in Listeners : l >= nextToken' => heard'[l] = <<>>
    BY <1>1 DEF CnInv, TokenInv
  <2> QED BY <2>1, <2>2, <2>4, <2>5 DEF TokenInv
<1>8. PendingInv' /\ ToldInv' BY <1>1 DEF CnInv, PendingInv, ToldInv, HasHeard
<1>9. ASSUME ~disturbed' PROVE Undisturbed'
  <2>1. OneIteration /\ Once /\ AllHeard BY <1>1, <1>9 DEF CnInv, Undisturbed
  <2>2. ASSUME NEW t \in InvokeThreads, stage[t] = "calling" PROVE Iterates(making[t], total)'
    <3>1. Iterates(making[t], total) BY <2>1, <2>2 DEF OneIteration
    <3>2. total \in Int /\ position \in Int /\ making[t] \in 1 .. MaxChanges
      BY <2>2 DEF CnInv, CnTypeOK, PendingInv
    <3>3. total <= Len(registered') BY <1>3, <3>1, <3>2 DEF Iterates
    <3>4. ASSUME NEW i \in DOMAIN registered'
          PROVE  /\ i <= total <=> registered'[i] \in listening[making[t]]
                 /\ i <= position + 1 => HasHeard(registered'[i], making[t])
                 /\ position + 1 < i => ~HasHeard(registered'[i], making[t])
                 /\ total < i => heard[registered'[i]] = <<>>
      <4>1. CASE i \in DOMAIN registered
        BY <1>3, <3>1, <4>1 DEF Iterates
      <4>2. CASE i = Len(registered) + 1
        <5>1. ~(i <= total) /\ ~(i <= position + 1) BY <1>3, <3>1, <3>2, <4>2 DEF Iterates
        <5>2. ~HasHeard(nextToken, making[t]) BY <1>6 DEF HasHeard
        <5> QED BY <1>3, <1>6, <3>2, <4>2, <5>1, <5>2
      <4> QED BY <1>3, <4>1, <4>2
    <3> QED BY <1>1, <3>1, <3>3, <3>4 DEF Iterates, HasHeard
  <2>3. OneIteration' BY <1>1, <2>1, <2>2 DEF OneIteration
  <2>4. \A c \in 1 .. MaxChanges : \A l \in listening[c] : IsRegistered(l)' => IsRegistered(l)
    BY <1>3, <1>6 DEF IsRegistered
  <2>5. AllHeard' BY <1>1, <2>1, <2>4 DEF AllHeard, HasHeard
  <2>6. Once' BY <1>1, <2>1 DEF Once
  <2> QED BY <2>3, <2>5, <2>6 DEF Undisturbed
<1>10. ASSUME ~disturbed', ~overtaken' PROVE Ordered'
  <2>1. InTurn /\ InOrder /\ Informed BY <1>1, <1>10 DEF CnInv, Ordered
  <2>2. InTurn' /\ InOrder' BY <1>1, <2>1 DEF InTurn, InOrder, Done
  <2>3. \A i \in DOMAIN registered' :
           heard[registered'[i]] # <<>> => i \in DOMAIN registered /\ registered'[i] = registered[i]
    BY <1>3, <1>6
  <2>4. ASSUME NEW i \in DOMAIN registered', heard[registered'[i]] # <<>>, NEW c \in Nat, Done(c)
        PROVE  \E k \in DOMAIN heard[registered'[i]] : c <= heard[registered'[i]][k].change
    BY <2>1, <2>3, <2>4 DEF Informed
  <2>5. Informed' BY <1>1, <2>4 DEF Informed, Done
  <2> QED BY <2>2, <2>5 DEF Ordered
<1> QED BY <1>4, <1>7, <1>8, <1>9, <1>10 DEF CnInv

LEMMA RemoveStep ==
    ASSUME CnInv, NEW l \in Listeners, RemoveCallback(l) PROVE CnInv'
<1>1. PICK i \in DOMAIN registered :
         /\ registered[i] = l /\ registered' = Without(registered, i)
         /\ position' = IF position # Npos /\ position >= i - 1 THEN position - 1 ELSE position
         /\ total' = total - 1
         /\ disturbed' = (disturbed \/ Late(l))
         /\ UNCHANGED <<connection, nextToken, changed, stage, making, newState, listening, heard,
                        overtaken>>
  BY DEF RemoveCallback, Without
<1>2. registered \in Seq(Listeners) /\ position \in Int /\ total \in Int /\ disturbed \in BOOLEAN
  BY DEF CnInv, CnTypeOK
<1> DEFINE Old(j) == IF j < i THEN j ELSE j + 1
<1>3. /\ DOMAIN registered = 1 .. Len(registered) /\ Len(registered) \in Nat /\ i \in Int
      /\ registered' \in Seq(Listeners) /\ Len(registered') = Len(registered) - 1
      /\ DOMAIN registered' = 1 .. Len(registered) - 1
  BY <1>1, <1>2, WithoutElement, LenProperties
<1>4. \A j \in DOMAIN registered' : /\ registered'[j] = registered[Old(j)]
                                    /\ Old(j) \in DOMAIN registered /\ j \in Int
  <2> SUFFICES ASSUME NEW j \in DOMAIN registered'
               PROVE  /\ registered'[j] = registered[Old(j)] /\ Old(j) \in DOMAIN registered
                      /\ j \in Int
    OBVIOUS
  <2>1. j \in 1 .. Len(registered) - 1 BY <1>3
  <2>2. Without(registered, i)[j] = IF j < i THEN registered[j] ELSE registered[j + 1]
    BY <1>2, <2>1, WithoutElement
  <2>3. registered'[j] = registered[Old(j)] BY <1>1, <2>2
  <2>4. Old(j) \in 1 .. Len(registered) BY <1>3, <2>1
  <2> QED BY <1>3, <2>1, <2>3, <2>4
<1>5. CnTypeOK'
  <2>1. position' \in Int BY <1>1, <1>2
  <2>2. disturbed' \in BOOLEAN BY <1>1, <1>2
  <2> QED BY <1>1, <1>2, <1>3, <2>1, <2>2 DEF CnInv, CnTypeOK
<1>6. TokenInv'
  <2>1. \A j \in DOMAIN registered' : registered'[j] < nextToken'
    BY <1>1, <1>4 DEF CnInv, TokenInv
  <2>2. ASSUME NEW j \in DOMAIN registered', NEW k \in DOMAIN registered', registered'[j] = registered'[k]
        PROVE  j = k
    <3>1. Old(j) = Old(k) BY <1>4, <2>2 DEF CnInv, TokenInv
    <3> QED BY <1>3, <1>4, <3>1
  <2> QED BY <1>1, <2>1, <2>2 DEF CnInv, TokenInv
<1>7. PendingInv' /\ ToldInv' BY <1>1 DEF CnInv, PendingInv, ToldInv, HasHeard
<1>8. ASSUME ~disturbed' PROVE Undisturbed'
  <2>1. ~disturbed /\ ~Late(l) /\ OneIteration /\ Once /\ AllHeard
    BY <1>1, <1>2, <1>8 DEF CnInv, Undisturbed
  <2>2. ASSUME NEW t \in InvokeThreads, stage[t] = "calling" PROVE Iterates(making[t], total)'
    <3>1. Iterates(making[t], total) /\ l \in listening[making[t]]
      BY <1>1, <2>1, <2>2 DEF OneIteration, Late
    <3>2. i <= total BY <1>1, <3>1 DEF Iterates
    <3>3. \/ position >= i - 1 /\ position' = position - 1
          \/ position < i - 1 /\ position' = position
      BY <1>1, <1>2, <1>3 DEF Npos
    <3>4. -1 <= position' /\ position' + 1 <= total' /\ total' <= Len(registered')
      BY <1>1, <1>2, <1>3, <3>1, <3>2, <3>3 DEF Iterates
    <3>5. ASSUME NEW j \in DOMAIN registered'
          PROVE  /\ j <= total' <=> Old(j) <= total
                 /\ total' < j => total < Old(j)
                 /\ j <= position' + 1 => Old(j) <= position + 1
                 /\ position' + 1 < j => position + 1 < Old(j)
      BY <1>1, <1>2, <1>3, <1>4, <3>2, <3>3
    <3>6. ASSUME NEW j \in DOMAIN registered'
          PROVE  /\ j <= total' <=> registered'[j] \in listening[making[t]]
                 /\ j <= position' + 1 => HasHeard(registered'[j], making[t])
                 /\ position' + 1 < j => ~HasHeard(registered'[j], making[t])
                 /\ total' < j => heard[registered'[j]] = <<>>
      <4> DEFINE o == Old(j)
      <4>1. o \in DOMAIN registered /\ registered'[j] = registered[o] BY <1>4
      <4>2. /\ j <= total' <=> o <= total
            /\ total' < j => total < o
            /\ j <= position' + 1 => o <= position + 1
            /\ position' + 1 < j => position + 1 < o
        BY <3>5
      <4> HIDE DEF o
      <4> QED BY <3>1, <4>1, <4>2 DEF Iterates
    <3> QED BY <1>1, <3>1, <3>4, <3>6 DEF Iterates, HasHeard
  <2>3. position = -1 => position' = -1 BY <1>1 DEF Npos
  <2>4. OneIteration' BY <1>1, <2>1, <2>2, <2>3 DEF OneIteration
  <2>5. \A m \in Listeners : IsRegistered(m)' => IsRegistered(m)
    BY <1>4 DEF IsRegistered
  <2>6. \A c \in 1 .. MaxChanges : listening[c] \subseteq Listeners BY DEF CnInv, CnTypeOK
  <2>7. AllHeard' BY <1>1, <2>1, <2>5, <2>6 DEF AllHeard, HasHeard
  <2>8. Once' BY <1>1, <2>1 DEF Once
  <2> QED BY <2>4, <2>7, <2>8 DEF Undisturbed
<1>9. ASSUME ~disturbed', ~overtaken' PROVE Ordered'
  <2>1. InTurn /\ InOrder /\ Informed BY <1>1, <1>2, <1>9 DEF CnInv, Ordered
  <2>2. InTurn' /\ InOrder' BY <1>1, <2>1 DEF InTurn, InOrder, Done
  <2>3. ASSUME NEW j \in DOMAIN registered', heard[registered'[j]] # <<>>, NEW c \in Nat, Done(c)
        PROVE  \E k \in DOMAIN heard[registered'[j]] : c <= heard[registered'[j]][k].change
    <3> DEFINE o == Old(j)
    <3>1. o \in DOMAIN registered /\ registered'[j] = registered[o] BY <1>4
    <3> HIDE DEF o
    <3> QED BY <2>1, <2>3, <3>1 DEF Informed
  <2>4. Informed' BY <1>1, <2>3 DEF Informed, Done
  <2> QED BY <2>2, <2>4 DEF Ordered
<1> QED BY <1>5, <1>6, <1>7, <1>8, <1>9 DEF CnInv

\* A turn of the loop by thread t, either as the iteration begins or after a callback.
TurnOf(t, count) ==
    /\ stage[t] \in {"ready", "calling"}
    /\ Turn(t, count) /\ total' = count
    /\ UNCHANGED <<connection, nextToken, registered, changed, newState>>
    /\ listening' \in [1 .. MaxChanges -> SUBSET Listeners]
    /\ \A c \in 1 .. MaxChanges : c # making[t] => listening'[c] = listening[c]
    /\ \A l \in listening'[making[t]] : l < nextToken
    /\ disturbed' \in BOOLEAN /\ overtaken' \in BOOLEAN

\* Its two outcomes.
Called(t) ==
    /\ position + 2 \in DOMAIN registered
    /\ position' = position + 1
    /\ heard' = [heard EXCEPT ![registered[position + 2]] =
                    Append(@, [change |-> making[t], state |-> newState[t]])]
    /\ stage' = [stage EXCEPT ![t] = "calling"]
    /\ making' = making
Ended(t) ==
    /\ position' = Npos
    /\ stage' = [stage EXCEPT ![t] = "idle"]
    /\ making' = [making EXCEPT ![t] = 0]
    /\ heard' = heard

LEMMA TurnFacts ==
    ASSUME CnTypeOK, TokenInv, PendingInv, NEW t \in InvokeThreads, NEW count \in Int, TurnOf(t, count)
    PROVE  /\ making[t] \in 1 .. MaxChanges /\ making[t] <= changed /\ changed \in Nat
           /\ newState[t] \in ConnectionStates
           /\ registered \in Seq(Listeners) /\ DOMAIN registered = 1 .. Len(registered)
           /\ Len(registered) \in Nat /\ position \in Int /\ registered' = registered
           /\ \A i \in DOMAIN registered : registered[i] \in Listeners
           /\ \A i, j \in DOMAIN registered : registered[i] = registered[j] => i = j
           /\ \A l \in Listeners : heard[l] \in Seq(Calls)
           /\ \A l \in Listeners : \A k \in DOMAIN heard[l] :
                 heard[l][k].change \in Nat /\ heard[l][k].change <= changed
           /\ \A u \in InvokeThreads : making[u] \in Nat /\ making[u] <= changed
           /\ \/ (position + 1 < count \/ count < 0) /\ Called(t)
              \/ count >= 0 /\ position + 1 >= count /\ Ended(t)
<1> USE ConnectionBounds
<1>1. making[t] \in 1 .. MaxChanges /\ making[t] <= changed /\ changed \in Nat
  BY DEF CnTypeOK, PendingInv, TurnOf
<1>2. /\ registered \in Seq(Listeners) /\ DOMAIN registered = 1 .. Len(registered)
      /\ Len(registered) \in Nat /\ position \in Int /\ registered' = registered
      /\ \A i \in DOMAIN registered : registered[i] \in Listeners
  BY LenProperties, ElementOfSeq DEF CnTypeOK, TurnOf
<1>3. newState[t] \in ConnectionStates /\ \A l \in Listeners : heard[l] \in Seq(Calls) BY DEF CnTypeOK
<1>4. ASSUME NEW l \in Listeners, NEW k \in DOMAIN heard[l]
      PROVE  heard[l][k].change \in Nat /\ heard[l][k].change <= changed
  <2>1. heard[l][k] \in Calls BY <1>3, LenProperties, ElementOfSeq
  <2> QED BY <2>1 DEF PendingInv, Calls
<1>5. \A u \in InvokeThreads : making[u] \in Nat /\ making[u] <= changed BY DEF CnTypeOK, PendingInv
<1>6. \/ (position + 1 < count \/ count < 0) /\ Called(t)
      \/ count >= 0 /\ position + 1 >= count /\ Ended(t)
  BY DEF TurnOf, Turn, Called, Ended
<1>7. \A i, j \in DOMAIN registered : registered[i] = registered[j] => i = j BY DEF TokenInv
<1> QED BY <1>1, <1>2, <1>3, <1>4, <1>5, <1>6, <1>7

\* A callback was called: what it has heard now, and what the others have.
LEMMA CalledFacts ==
    ASSUME CnTypeOK, TokenInv, PendingInv, NEW t \in InvokeThreads, NEW count \in Int,
           TurnOf(t, count), Called(t), NEW m, m = registered[position + 2]
    PROVE  /\ m \in Listeners /\ position + 2 \in DOMAIN registered
           /\ heard' \in [Listeners -> Seq(Calls)]
           /\ \A l \in Listeners : l # m => heard'[l] = heard[l]
           /\ DOMAIN heard[m] = 1 .. Len(heard[m]) /\ Len(heard[m]) \in Nat
           /\ DOMAIN heard'[m] = 1 .. Len(heard[m]) + 1
           /\ \A k \in DOMAIN heard[m] : heard'[m][k] = heard[m][k]
           /\ heard'[m][Len(heard[m]) + 1].change = making[t]
           /\ heard'[m][Len(heard[m]) + 1].state = newState[t]
           /\ \A l \in Listeners, c \in Nat :
                 HasHeard(l, c)' <=> HasHeard(l, c) \/ (l = m /\ c = making[t])
           /\ \A u \in InvokeThreads : stage'[u] = IF u = t THEN "calling" ELSE stage[u]
<1> DEFINE e == [change |-> making[t], state |-> newState[t]]
<1>1. e \in Calls /\ e.change = making[t] /\ e.state = newState[t] BY TurnFacts DEF Calls
<1>2. heard' = [heard EXCEPT ![m] = Append(@, e)] BY DEF Called
<1> HIDE DEF e
<1>3. position + 2 \in DOMAIN registered BY DEF Called
<1>4. m \in Listeners /\ heard[m] \in Seq(Calls) BY <1>3, TurnFacts
<1>5. /\ Append(heard[m], e) \in Seq(Calls)
      /\ DOMAIN heard[m] = 1 .. Len(heard[m]) /\ Len(heard[m]) \in Nat
      /\ DOMAIN Append(heard[m], e) = 1 .. Len(heard[m]) + 1
      /\ \A j \in 1 .. Len(heard[m]) : Append(heard[m], e)[j] = heard[m][j]
      /\ Append(heard[m], e)[Len(heard[m]) + 1] = e
  BY <1>1, <1>4, WithElement
<1>6. /\ heard'[m] = Append(heard[m], e)
      /\ \A l \in Listeners : l # m => heard'[l] = heard[l]
      /\ heard' \in [Listeners -> Seq(Calls)]
  BY <1>2, <1>4, <1>5 DEF CnTypeOK
<1>7. ASSUME NEW l \in Listeners, NEW c \in Nat
      PROVE  HasHeard(l, c)' <=> HasHeard(l, c) \/ (l = m /\ c = making[t])
  <2>1. CASE l # m BY <1>6, <2>1 DEF HasHeard
  <2>2. CASE l = m
    <3>1. \A k \in DOMAIN heard'[m] : k \in DOMAIN heard[m] \/ k = Len(heard[m]) + 1
      BY <1>5, <1>6
    <3>2. \A k \in DOMAIN heard[m] : k \in DOMAIN heard'[m] /\ heard'[m][k] = heard[m][k]
      BY <1>5, <1>6
    <3>3. Len(heard[m]) + 1 \in DOMAIN heard'[m] /\ heard'[m][Len(heard[m]) + 1].change = making[t]
      BY <1>1, <1>5, <1>6
    <3> QED BY <2>2, <3>1, <3>2, <3>3 DEF HasHeard
  <2> QED BY <2>1, <2>2
<1>8. \A u \in InvokeThreads : stage'[u] = IF u = t THEN "calling" ELSE stage[u]
  BY DEF Called, CnTypeOK
<1> QED BY <1>1, <1>3, <1>4, <1>5, <1>6, <1>7, <1>8

LEMMA EndedFacts ==
    ASSUME CnTypeOK, NEW t \in InvokeThreads, Ended(t)
    PROVE  /\ \A u \in InvokeThreads : /\ stage'[u] = IF u = t THEN "idle" ELSE stage[u]
                                       /\ making'[u] = IF u = t THEN 0 ELSE making[u]
           /\ \A l \in Listeners, c \in Nat : HasHeard(l, c)' <=> HasHeard(l, c)
<1>1. \A u \in InvokeThreads : /\ stage'[u] = IF u = t THEN "idle" ELSE stage[u]
                               /\ making'[u] = IF u = t THEN 0 ELSE making[u]
  BY DEF CnTypeOK, Ended
<1>2. \A l \in Listeners, c \in Nat : HasHeard(l, c)' <=> HasHeard(l, c) BY DEF Ended, HasHeard
<1> QED BY <1>1, <1>2

\* A turn, whether or not others disturb it.
LEMMA TurnBase ==
    ASSUME CnTypeOK, TokenInv, PendingInv, ToldInv, NEW t \in InvokeThreads, NEW count \in Int,
           TurnOf(t, count)
    PROVE  CnTypeOK' /\ TokenInv' /\ PendingInv' /\ ToldInv'
<1>0. /\ making[t] \in 1 .. MaxChanges /\ making[t] <= changed /\ changed \in Nat
      /\ registered' = registered /\ position \in Int
      /\ \A i \in DOMAIN registered : registered[i] \in Listeners
      /\ \A l \in Listeners : \A k \in DOMAIN heard[l] : heard[l][k].change \in Nat
      /\ \A u \in InvokeThreads : making[u] \in Nat /\ making[u] <= changed
      /\ \A l \in Listeners : l \in Nat /\ nextToken \in Nat
      /\ \A c \in 1 .. MaxChanges : \A l \in listening'[c] : l < nextToken /\ c <= changed
  <2>1. \A c \in 1 .. MaxChanges : \A l \in listening'[c] : l < nextToken /\ c <= changed
    BY TurnFacts DEF TurnOf, TokenInv
  <2>2. \A l \in Listeners : l \in Nat /\ nextToken \in Nat
    BY ConnectionBounds DEF Listeners, CnTypeOK
  <2> QED BY <2>1, <2>2, TurnFacts
<1>1. CASE Called(t)
  <2> DEFINE m == registered[position + 2]
  <2>0. m = registered[position + 2] OBVIOUS
  <2> HIDE DEF m
  <2>1. /\ m \in Listeners /\ position + 2 \in DOMAIN registered
        /\ heard' \in [Listeners -> Seq(Calls)]
        /\ \A l \in Listeners : l # m => heard'[l] = heard[l]
        /\ DOMAIN heard[m] = 1 .. Len(heard[m]) /\ Len(heard[m]) \in Nat
        /\ DOMAIN heard'[m] = 1 .. Len(heard[m]) + 1
        /\ \A k \in DOMAIN heard[m] : heard'[m][k] = heard[m][k]
        /\ heard'[m][Len(heard[m]) + 1].change = making[t]
        /\ heard'[m][Len(heard[m]) + 1].state = newState[t]
        /\ \A l \in Listeners, c \in Nat :
              HasHeard(l, c)' <=> HasHeard(l, c) \/ (l = m /\ c = making[t])
        /\ \A u \in InvokeThreads : stage'[u] = IF u = t THEN "calling" ELSE stage[u]
    BY <1>1, <2>0, CalledFacts
  <2> USE DEF m
  <2>2. m < nextToken BY <2>1 DEF TokenInv
  <2> HIDE DEF m
  <2>3. making' = making /\ position' = position + 1 /\ stage' = [stage EXCEPT ![t] = "calling"]
    BY <1>1 DEF Called
  <2>4. CnTypeOK'
    <3>1. stage' \in [InvokeThreads -> TellStages] BY <2>3 DEF CnTypeOK, TellStages
    <3> QED BY <1>0, <2>1, <2>3, <3>1 DEF CnTypeOK, TurnOf
  <2>5. TokenInv'
    <3>1. \A l \in Listeners : l >= nextToken => heard'[l] = <<>> BY <1>0, <2>1, <2>2 DEF TokenInv
    <3> QED BY <1>0, <3>1 DEF TokenInv, TurnOf
  <2>6. \A k \in DOMAIN heard'[m] : k \in DOMAIN heard[m] \/ k = Len(heard[m]) + 1 BY <2>1
  <2>7. PendingInv'
    <3>1. \A l \in Listeners : \A k \in DOMAIN heard'[l] : heard'[l][k].change <= changed
      BY <1>0, <2>1, <2>6 DEF PendingInv
    <3>2. ASSUME NEW u \in InvokeThreads, stage'[u] \in {"reading", "ready"}, NEW l \in Listeners
          PROVE  ~HasHeard(l, making[u])'
      <4>1. u # t /\ stage[u] = stage'[u] BY <2>1, <3>2
      <4>2. ~HasHeard(l, making[u]) BY <3>2, <4>1 DEF PendingInv
      <4>3. making[u] # making[t] BY <1>0, <4>1 DEF PendingInv
      <4>4. making[u] \in Nat /\ making'[u] = making[u] BY <1>0, <2>3
      <4>5. \A c \in Nat : c = making[u] => ~HasHeard(l, c)' BY <2>1, <4>2, <4>3
      <4> QED BY <4>4, <4>5 DEF HasHeard
    <3>3. \A u \in InvokeThreads : stage'[u] = "idle" <=> making[u] = 0
      BY <2>1 DEF PendingInv, TurnOf
    <3>4. changed' = changed BY DEF TurnOf
    <3> QED BY <1>0, <2>3, <3>1, <3>2, <3>3, <3>4 DEF PendingInv
  <2>8. ToldInv'
    <3>1. connection' = connection /\ changed' = changed /\ newState' = newState BY DEF TurnOf
    <3>2. making[t] = changed => newState[t] = connection BY DEF TurnOf, ToldInv
    <3>3. \A l \in Listeners : \A k \in DOMAIN heard'[l] :
             heard'[l][k].change = changed => heard'[l][k].state = connection
      <4>1. \A k \in DOMAIN heard'[m] :
               heard'[m][k].change = changed => heard'[m][k].state = connection
        BY <2>1, <2>6, <3>2 DEF ToldInv
      <4>2. ASSUME NEW l \in Listeners, l # m, NEW k \in DOMAIN heard'[l], heard'[l][k].change = changed
            PROVE  heard'[l][k].state = connection
        <5>1. heard'[l] = heard[l] BY <2>1, <4>2
        <5> QED BY <4>2, <5>1 DEF ToldInv
      <4> QED BY <4>1, <4>2
    <3>4. \A u \in InvokeThreads : (making[u] = changed /\ stage'[u] \in {"ready", "calling"})
                                      => newState[u] = connection
      BY <2>1, <3>2 DEF ToldInv
    <3> QED BY <2>3, <3>1, <3>3, <3>4 DEF ToldInv
  <2> QED BY <2>4, <2>5, <2>7, <2>8
<1>2. CASE Ended(t)
  <2>1. /\ \A u \in InvokeThreads : /\ stage'[u] = IF u = t THEN "idle" ELSE stage[u]
                                    /\ making'[u] = IF u = t THEN 0 ELSE making[u]
        /\ \A l \in Listeners, c \in Nat : HasHeard(l, c)' <=> HasHeard(l, c)
    BY <1>2, EndedFacts
  <2>2. CnTypeOK'
    <3>1. stage' \in [InvokeThreads -> TellStages] /\ making' \in [InvokeThreads -> 0 .. MaxChanges]
      BY <1>2, ConnectionBounds DEF CnTypeOK, TellStages, Ended
    <3> QED BY <1>2, <3>1 DEF CnTypeOK, TurnOf, Ended, Npos
  <2>3. TokenInv' BY <1>0, <1>2 DEF TokenInv, TurnOf, Ended
  <2>4. PendingInv'
    <3>1. \A u \in InvokeThreads :
             (stage'[u] = "idle" <=> making'[u] = 0) /\ making'[u] <= changed
      BY <1>0, <2>1 DEF PendingInv
    <3>2. \A u, v \in InvokeThreads : making'[u] # 0 /\ making'[u] = making'[v] => u = v
      BY <2>1 DEF PendingInv
    <3>3. ASSUME NEW u \in InvokeThreads, stage'[u] \in {"reading", "ready"}, NEW l \in Listeners
          PROVE  ~HasHeard(l, making[u])'
      <4>1. u # t /\ stage[u] = stage'[u] /\ making'[u] = making[u] BY <2>1, <3>3
      <4>2. ~HasHeard(l, making[u]) BY <3>3, <4>1 DEF PendingInv
      <4> QED BY <1>2, <4>1, <4>2 DEF HasHeard, Ended
    <3> QED BY <1>2, <3>1, <3>2, <3>3 DEF PendingInv, TurnOf, Ended
  <2>5. ToldInv'
    <3>1. \A u \in InvokeThreads : (making'[u] = changed /\ stage'[u] \in {"ready", "calling"})
                                      => newState[u] = connection
      BY <2>1 DEF ToldInv
    <3> QED BY <1>2, <3>1 DEF ToldInv, TurnOf, Ended
  <2> QED BY <2>2, <2>3, <2>4, <2>5
<1> QED BY <1>1, <1>2, TurnFacts

\* Where the iteration of change c over the first count callbacks is before a turn.
Underway(c, count) ==
    /\ -1 <= position /\ position + 1 <= count /\ count <= Len(registered)
    /\ \A i \in DOMAIN registered :
         /\ i <= count <=> registered[i] \in listening'[c]
         /\ i <= position + 1 => HasHeard(registered[i], c)
         /\ position + 1 < i => ~HasHeard(registered[i], c)
         /\ count < i => heard[registered[i]] = <<>>

\* A turn of the only iteration that is under way.
LEMMA TurnUndisturbed ==
    ASSUME CnTypeOK, TokenInv, PendingInv, NEW t \in InvokeThreads, NEW count \in Int,
           TurnOf(t, count), \A u \in InvokeThreads : u # t => stage[u] # "calling",
           Underway(making[t], count), Once, AllHeard
    PROVE  Undisturbed'
<1>0. /\ making[t] \in 1 .. MaxChanges /\ making[t] \in Nat /\ making[t] # 0
      /\ registered' = registered /\ position \in Int /\ total' = count
      /\ DOMAIN registered = 1 .. Len(registered) /\ Len(registered) \in Nat
      /\ \A i \in DOMAIN registered : registered[i] \in Listeners
      /\ \A i, j \in DOMAIN registered : registered[i] = registered[j] => i = j
      /\ \A u \in InvokeThreads : making[u] \in Nat
      /\ listening' \in [1 .. MaxChanges -> SUBSET Listeners]
      /\ \A c \in 1 .. MaxChanges : c # making[t] => listening'[c] = listening[c]
  BY TurnFacts DEF TurnOf
<1>c. \A c \in 1 .. MaxChanges : c \in Nat /\ c # 0 BY ConnectionBounds
<1>1. CASE Called(t) /\ position + 1 < count
  <2> DEFINE m == registered[position + 2]
             n == Len(heard[m]) + 1
  <2>0. m = registered[position + 2] OBVIOUS
  <2> HIDE DEF m
  <2>1. /\ m \in Listeners /\ position + 2 \in DOMAIN registered
        /\ \A l \in Listeners : l # m => heard'[l] = heard[l]
        /\ DOMAIN heard[m] = 1 .. Len(heard[m]) /\ Len(heard[m]) \in Nat
        /\ DOMAIN heard'[m] = 1 .. Len(heard[m]) + 1
        /\ \A k \in DOMAIN heard[m] : heard'[m][k] = heard[m][k]
        /\ heard'[m][n].change = making[t]
        /\ \A l \in Listeners, c \in Nat :
              HasHeard(l, c)' <=> HasHeard(l, c) \/ (l = m /\ c = making[t])
        /\ \A u \in InvokeThreads : stage'[u] = IF u = t THEN "calling" ELSE stage[u]
    BY <1>1, <2>0, CalledFacts
  <2> USE DEF m
  <2>2. making' = making /\ position' = position + 1 BY <1>1 DEF Called
  <2>3. ~HasHeard(m, making[t])
    <3>1. position + 1 < position + 2 BY <1>0
    <3> QED BY <2>1, <3>1 DEF Underway
  <2>4. Once'
    <3>1. ASSUME NEW i \in DOMAIN heard'[m], NEW j \in DOMAIN heard'[m], i < j
          PROVE  heard'[m][i].change # heard'[m][j].change
      <4>1. i \in DOMAIN heard[m] /\ heard'[m][i] = heard[m][i] BY <2>1, <3>1
      <4>2. CASE j \in DOMAIN heard[m] BY <2>1, <3>1, <4>1, <4>2 DEF Once
      <4>3. CASE j = n BY <2>1, <2>3, <4>1, <4>3 DEF HasHeard
      <4> QED BY <2>1, <4>2, <4>3
    <3>2. ASSUME NEW l \in Listeners, l # m, NEW i \in DOMAIN heard'[l], NEW j \in DOMAIN heard'[l],
                 i < j
          PROVE  heard'[l][i].change # heard'[l][j].change
      <4>1. heard'[l] = heard[l] BY <2>1, <3>2
      <4> QED BY <3>2, <4>1 DEF Once
    <3> HIDE DEF m
    <3> QED BY <3>1, <3>2 DEF Once
  <2>5. OneIteration'
    <3>1. \A u \in InvokeThreads : stage'[u] = "calling" <=> u = t BY <2>1
    <3>2. -1 <= position' /\ position' + 1 <= count /\ count <= Len(registered)
      BY <1>0, <1>1, <2>2 DEF Underway
    <3>3. ASSUME NEW i \in DOMAIN registered, NEW c \in Nat, c = making[t],
                 NEW l \in Listeners, l = registered[i]
          PROVE  /\ i <= count <=> l \in listening'[c]
                 /\ i <= position' + 1 => HasHeard(l, c)'
                 /\ position' + 1 < i => ~HasHeard(l, c)'
                 /\ count < i => heard'[l] = <<>>
      <4>1. l = m <=> i = position + 2 BY <1>0, <2>1, <3>3
      <4>2. i <= position' + 1 <=> i <= position + 1 \/ i = position + 2 BY <1>0, <2>2
      <4>3. position' + 1 < i <=> position + 1 < i /\ i # position + 2 BY <1>0, <2>2
      <4>4. count < i => i # position + 2 BY <1>0, <1>1
      <4> HIDE DEF m
      <4>5. HasHeard(l, c)' <=> HasHeard(l, c) \/ i = position + 2 BY <2>1, <3>3, <4>1
      <4>6. i # position + 2 => heard'[l] = heard[l] BY <2>1, <4>1
      <4>7. /\ i <= count <=> l \in listening'[c]
            /\ i <= position + 1 => HasHeard(l, c)
            /\ position + 1 < i => ~HasHeard(l, c)
            /\ count < i => heard[l] = <<>>
        BY <3>3 DEF Underway
      <4> QED BY <4>2, <4>3, <4>4, <4>5, <4>6, <4>7
    <3>4. Iterates(making[t], total)'
      BY <1>0, <2>2, <3>2, <3>3 DEF Iterates, HasHeard
    <3> QED BY <3>1, <3>4 DEF OneIteration
  <2>6. AllHeard'
    <3>1. ASSUME NEW c \in 1 .. MaxChanges, \A u \in InvokeThreads : making[u] # c,
                 NEW l \in listening'[c], IsRegistered(l)
          PROVE  HasHeard(l, c)'
      <4>1. listening'[c] = listening[c] /\ l \in Listeners /\ c \in Nat BY <1>0, <1>c, <3>1
      <4>2. HasHeard(l, c) BY <3>1, <4>1 DEF AllHeard
      <4> QED BY <2>1, <4>1, <4>2
    <3> QED BY <1>0, <2>2, <3>1 DEF AllHeard, IsRegistered
  <2> QED BY <2>4, <2>5, <2>6 DEF Undisturbed
<1>2. CASE Ended(t) /\ position + 1 >= count
  <2>1. /\ \A u \in InvokeThreads : /\ stage'[u] = IF u = t THEN "idle" ELSE stage[u]
                                    /\ making'[u] = IF u = t THEN 0 ELSE making[u]
        /\ \A l \in Listeners, c \in Nat : HasHeard(l, c)' <=> HasHeard(l, c)
    BY <1>2, EndedFacts
  <2>2. heard' = heard /\ position' = -1 BY <1>2 DEF Ended, Npos
  <2>3. Once' BY <2>2 DEF Once
  <2>4. OneIteration' BY <2>1, <2>2 DEF OneIteration
  <2>5. AllHeard'
    <3>1. ASSUME NEW c \in 1 .. MaxChanges, \A u \in InvokeThreads : making'[u] # c,
                 NEW l \in listening'[c], IsRegistered(l)
          PROVE  HasHeard(l, c)'
      <4>1. l \in Listeners /\ c \in Nat BY <1>0, <1>c
      <4>2. CASE c = making[t]
        <5>1. PICK i \in DOMAIN registered : registered[i] = l BY <3>1 DEF IsRegistered
        <5>2. i <= count BY <3>1, <4>2, <5>1 DEF Underway
        <5>3. i <= position + 1 BY <1>0, <1>2, <5>2
        <5> QED BY <2>1, <4>1, <4>2, <5>1, <5>3 DEF Underway
      <4>3. CASE c # making[t]
        <5>1. listening'[c] = listening[c] BY <1>0, <4>3
        <5>2. \A u \in InvokeThreads : making[u] # c BY <2>1, <3>1, <4>3
        <5>3. HasHeard(l, c) BY <3>1, <5>1, <5>2 DEF AllHeard
        <5> QED BY <2>1, <4>1, <5>3
      <4> QED BY <4>2, <4>3
    <3> QED BY <1>0, <3>1 DEF AllHeard, IsRegistered
  <2> QED BY <2>3, <2>4, <2>5 DEF Undisturbed
<1>3. ~(count < 0) BY <1>0 DEF Underway
<1> QED BY <1>1, <1>2, <1>3, TurnFacts

\* ... and of the oldest change that is still to be told.
LEMMA TurnOrdered ==
    ASSUME CnTypeOK, TokenInv, PendingInv, NEW t \in InvokeThreads, NEW count \in Int,
           TurnOf(t, count), \A u \in InvokeThreads : u # t => stage[u] # "calling",
           Underway(making[t], count), Ordered,
           \A u \in InvokeThreads : making[u] # 0 => making[t] <= making[u]
    PROVE  Ordered'
<1>0. /\ making[t] \in 1 .. MaxChanges /\ making[t] \in Nat /\ making[t] # 0 /\ making[t] <= changed
      /\ changed \in Nat /\ changed' = changed
      /\ registered' = registered /\ position \in Int
      /\ DOMAIN registered = 1 .. Len(registered) /\ Len(registered) \in Nat
      /\ \A i \in DOMAIN registered : registered[i] \in Listeners
      /\ \A i, j \in DOMAIN registered : registered[i] = registered[j] => i = j
      /\ \A u \in InvokeThreads : making[u] \in Nat
      /\ \A l \in Listeners : \A k \in DOMAIN heard[l] :
            heard[l][k].change \in Nat /\ heard[l][k].change <= changed
  BY TurnFacts DEF TurnOf
<1>1. CASE Called(t) /\ position + 1 < count
  <2> DEFINE m == registered[position + 2]
             n == Len(heard[m]) + 1
  <2>0. m = registered[position + 2] OBVIOUS
  <2> HIDE DEF m
  <2>1. /\ m \in Listeners /\ position + 2 \in DOMAIN registered
        /\ \A l \in Listeners : l # m => heard'[l] = heard[l]
        /\ DOMAIN heard[m] = 1 .. Len(heard[m]) /\ Len(heard[m]) \in Nat
        /\ DOMAIN heard'[m] = 1 .. Len(heard[m]) + 1
        /\ \A k \in DOMAIN heard[m] : heard'[m][k] = heard[m][k]
        /\ heard'[m][n].change = making[t]
        /\ \A u \in InvokeThreads : stage'[u] = IF u = t THEN "calling" ELSE stage[u]
    BY <1>1, <2>0, CalledFacts
  <2> USE DEF m
  <2>2. making' = making BY <1>1 DEF Called
  <2>3. ~HasHeard(m, making[t])
    <3>1. position + 1 < position + 2 BY <1>0
    <3> QED BY <2>1, <3>1 DEF Underway
  <2>4. \A c \in Nat : Done(c)' <=> Done(c) BY <1>0, <2>2 DEF Done
  <2> HIDE DEF m, n
  <2>5. \A k \in DOMAIN heard[m] : heard[m][k].change < making[t]
    <3> SUFFICES ASSUME NEW k \in DOMAIN heard[m] PROVE heard[m][k].change < making[t]
      OBVIOUS
    <3> DEFINE c == heard[m][k].change
    <3>1. c \in Nat /\ c <= changed BY <1>0, <2>1
    <3>2. c # making[t] BY <2>3 DEF HasHeard
    <3>3. CASE Done(c) BY <1>0, <3>1, <3>3 DEF Ordered, InTurn
    <3>4. CASE c = 0 BY <1>0, <3>4
    <3>5. CASE c # 0 /\ ~Done(c)
      <4>1. PICK u \in InvokeThreads : making[u] = c BY <1>0, <3>1, <3>5 DEF Done
      <4>2. u # t /\ stage[u] # "calling" BY <3>2, <4>1
      <4>3. stage[u] \in {"reading", "ready"} BY <3>5, <4>1, <4>2 DEF CnTypeOK, PendingInv, TellStages
      <4>4. ~HasHeard(m, making[u]) BY <2>1, <4>3 DEF PendingInv
      <4> QED BY <4>1, <4>4 DEF HasHeard
    <3> QED BY <3>3, <3>4, <3>5
  <2>6. InTurn' BY <1>0, <2>1, <2>2, <2>4 DEF Ordered, InTurn
  <2>7. InOrder'
    <3>1. ASSUME NEW i \in DOMAIN heard'[m], NEW j \in DOMAIN heard'[m], i < j
          PROVE  heard'[m][i].change < heard'[m][j].change
      <4>1. i \in DOMAIN heard[m] /\ heard'[m][i] = heard[m][i] BY <2>1, <3>1
      <4>2. CASE j \in DOMAIN heard[m] BY <2>1, <3>1, <4>1, <4>2 DEF Ordered, InOrder
      <4>3. CASE j = n BY <2>1, <2>5, <4>1, <4>3
      <4> QED BY <2>1, <4>2, <4>3 DEF n
    <3> QED BY <2>1, <3>1 DEF Ordered, InOrder
  <2>8. Informed'
    <3>1. ASSUME NEW i \in DOMAIN registered, heard'[registered[i]] # <<>>, NEW c \in Nat, Done(c)
          PROVE  \E k \in DOMAIN heard'[registered[i]] : c <= heard'[registered[i]][k].change
      <4>1. CASE registered[i] = m
        <5>1. c < making[t] BY <1>0, <3>1 DEF Ordered, InTurn
        <5>2. n \in DOMAIN heard'[m] BY <2>1 DEF n
        <5> QED BY <1>0, <2>1, <4>1, <5>1, <5>2
      <4>2. CASE registered[i] # m BY <1>0, <2>1, <3>1, <4>2 DEF Ordered, Informed
      <4> QED BY <4>1, <4>2
    <3> QED BY <1>0, <2>4, <3>1 DEF Informed
  <2> QED BY <2>6, <2>7, <2>8 DEF Ordered
<1>2. CASE Ended(t) /\ position + 1 >= count
  <2>1. \A u \in InvokeThreads : /\ stage'[u] = IF u = t THEN "idle" ELSE stage[u]
                                 /\ making'[u] = IF u = t THEN 0 ELSE making[u]
    BY <1>2, EndedFacts
  <2>2. heard' = heard BY <1>2 DEF Ended
  <2>3. \A c \in Nat : Done(c)' => Done(c) \/ c = making[t] BY <1>0, <2>1 DEF Done
  <2>4. \A u \in InvokeThreads : u # t /\ making[u] # 0 => making[t] < making[u]
    BY <1>0 DEF PendingInv
  <2>5. InTurn'
    <3>1. \A c \in Nat, u \in InvokeThreads : Done(c)' /\ making'[u] # 0 => c < making'[u]
      BY <1>0, <2>1, <2>3, <2>4 DEF Ordered, InTurn
    <3>2. \A u \in InvokeThreads : stage'[u] # "calling" BY <2>1
    <3> QED BY <3>1, <3>2 DEF InTurn
  <2>6. InOrder' BY <2>2 DEF Ordered, InOrder
  <2>7. Informed'
    <3>1. ASSUME NEW i \in DOMAIN registered, heard[registered[i]] # <<>>
          PROVE  \E k \in DOMAIN heard[registered[i]] : making[t] <= heard[registered[i]][k].change
      <4>1. ~(count < i) BY <3>1 DEF Underway
      <4>2. i <= position + 1 BY <1>0, <1>2, <4>1
      <4>3. HasHeard(registered[i], making[t]) BY <4>2 DEF Underway
      <4> QED BY <1>0, <4>3 DEF HasHeard
    <3>2. ASSUME NEW i \in DOMAIN registered, heard[registered[i]] # <<>>, NEW c \in Nat, Done(c)'
          PROVE  \E k \in DOMAIN heard[registered[i]] : c <= heard[registered[i]][k].change
      BY <2>3, <3>1, <3>2 DEF Ordered, Informed
    <3> QED BY <1>0, <2>2, <3>2 DEF Informed
  <2> QED BY <2>5, <2>6, <2>7 DEF Ordered
<1>3. ~(count < 0) BY <1>0 DEF Underway
<1> QED BY <1>1, <1>2, <1>3, TurnFacts

LEMMA InvokeStep ==
    ASSUME CnInv, NEW t \in InvokeThreads, InvokeCallbacks(t) PROVE CnInv'
<1>0. CnTypeOK /\ TokenInv /\ PendingInv /\ ToldInv BY DEF CnInv
<1> DEFINE now == {l \in Listeners : IsRegistered(l)}
           count == Len(registered)
<1>1. /\ stage[t] = "ready" /\ registered \in Seq(Listeners) /\ DOMAIN registered = 1 .. count
      /\ count \in Nat /\ count \in Int /\ making[t] \in 1 .. MaxChanges
      /\ listening \in [1 .. MaxChanges -> SUBSET Listeners]
      /\ disturbed \in BOOLEAN /\ overtaken \in BOOLEAN
  BY <1>0, ConnectionBounds, LenProperties DEF CnTypeOK, PendingInv, InvokeCallbacks
<1>2. /\ total' = count /\ Turn(t, count) /\ listening' = [listening EXCEPT ![making[t]] = now]
      /\ disturbed' = (disturbed \/ \E u \in InvokeThreads : stage[u] = "calling")
      /\ overtaken' = (overtaken \/ \E u \in InvokeThreads : making[u] # 0 /\ making[u] < making[t])
      /\ UNCHANGED <<connection, nextToken, registered, changed, newState>>
  BY DEF InvokeCallbacks
<1> HIDE DEF count
<1>3. now \in SUBSET Listeners /\ \A l \in now : l < nextToken BY <1>0 DEF TokenInv, IsRegistered
<1>4. TurnOf(t, count)
  <2>1. listening' \in [1 .. MaxChanges -> SUBSET Listeners] /\ listening'[making[t]] = now
        /\ \A c \in 1 .. MaxChanges : c # making[t] => listening'[c] = listening[c]
    BY <1>1, <1>2, <1>3
  <2>2. disturbed' \in BOOLEAN /\ overtaken' \in BOOLEAN BY <1>1, <1>2
  <2> QED BY <1>1, <1>2, <1>3, <2>1, <2>2 DEF TurnOf
<1>5. CnTypeOK' /\ TokenInv' /\ PendingInv' /\ ToldInv' BY <1>0, <1>1, <1>4, TurnBase
<1>6. ASSUME ~disturbed'
      PROVE  ~disturbed /\ Undisturbed /\ Underway(making[t], count)
             /\ \A u \in InvokeThreads : stage[u] # "calling"
  <2>1. ~disturbed /\ \A u \in InvokeThreads : stage[u] # "calling" BY <1>1, <1>2, <1>6
  <2>2. Undisturbed BY <2>1 DEF CnInv
  <2>3. position = -1 BY <2>1, <2>2 DEF Undisturbed, OneIteration
  <2>4. \A i \in DOMAIN registered : registered[i] \in Listeners BY <1>1, ElementOfSeq DEF count
  <2>5. \A i \in DOMAIN registered :
           /\ registered[i] \in listening'[making[t]] /\ ~HasHeard(registered[i], making[t])
           /\ i <= count /\ ~(i <= position + 1) /\ ~(count < i)
    <3>1. \A i \in DOMAIN registered : registered[i] \in now BY <2>4 DEF IsRegistered
    <3>2. listening'[making[t]] = now BY <1>1, <1>2
    <3>3. \A i \in DOMAIN registered : ~HasHeard(registered[i], making[t])
      BY <1>0, <1>1, <2>4 DEF PendingInv
    <3>4. \A i \in DOMAIN registered : i <= count /\ ~(i <= position + 1) /\ ~(count < i)
      BY <1>1, <2>3
    <3> QED BY <3>1, <3>2, <3>3, <3>4
  <2>6. -1 <= position /\ position + 1 <= count /\ count <= Len(registered)
    BY <1>1, <2>3 DEF count
  <2>7. Underway(making[t], count) BY <2>5, <2>6 DEF Underway
  <2> QED BY <2>1, <2>2, <2>7
<1>7. ASSUME ~disturbed' PROVE Undisturbed'
  BY <1>0, <1>1, <1>4, <1>6, <1>7, TurnUndisturbed DEF Undisturbed
<1>8. ASSUME ~disturbed', ~overtaken' PROVE Ordered'
  <2>1. Ordered BY <1>1, <1>2, <1>6, <1>8 DEF CnInv
  <2>2. \A u \in InvokeThreads : making[u] # 0 => making[t] <= making[u]
    <3>1. \A u \in InvokeThreads : making[u] # 0 => ~(making[u] < making[t]) BY <1>1, <1>2, <1>8
    <3>2. \A u \in InvokeThreads : making[u] \in Nat BY <1>0, ConnectionBounds DEF CnTypeOK
    <3> QED BY <1>1, <3>1, <3>2
  <2> QED BY <1>0, <1>1, <1>4, <1>6, <1>8, <2>1, <2>2, TurnOrdered
<1> QED BY <1>5, <1>7, <1>8 DEF CnInv

LEMMA ReturnedStep ==
    ASSUME CnInv, NEW t \in InvokeThreads, CallbackReturned(t) PROVE CnInv'
<1>0. CnTypeOK /\ TokenInv /\ PendingInv /\ ToldInv BY DEF CnInv
<1>1. /\ stage[t] = "calling" /\ total \in Int /\ Turn(t, total) /\ making[t] \in 1 .. MaxChanges
      /\ UNCHANGED <<connection, nextToken, registered, total, changed, newState, listening,
                     disturbed, overtaken>>
  BY <1>0, ConnectionBounds DEF CnTypeOK, PendingInv, CallbackReturned
<1>2. TurnOf(t, total) BY <1>0, <1>1 DEF TurnOf, CnTypeOK, TokenInv
<1>3. CnTypeOK' /\ TokenInv' /\ PendingInv' /\ ToldInv' BY <1>0, <1>1, <1>2, TurnBase
<1>4. ASSUME ~disturbed'
      PROVE  ~disturbed /\ Undisturbed /\ Underway(making[t], total)
             /\ \A u \in InvokeThreads : u # t => stage[u] # "calling"
  <2>1. ~disturbed /\ OneIteration /\ Undisturbed BY <1>1, <1>4 DEF CnInv, Undisturbed
  <2>2. \A u \in InvokeThreads : u # t => stage[u] # "calling" BY <1>1, <2>1 DEF OneIteration
  <2>3. Iterates(making[t], total) BY <1>1, <2>1 DEF OneIteration
  <2>4. Underway(making[t], total) BY <1>1, <2>3 DEF Iterates, Underway
  <2> QED BY <2>1, <2>2, <2>4
<1>5. ASSUME ~disturbed' PROVE Undisturbed'
  BY <1>0, <1>1, <1>2, <1>4, <1>5, TurnUndisturbed DEF Undisturbed
<1>6. ASSUME ~disturbed', ~overtaken' PROVE Ordered'
  <2>1. Ordered BY <1>1, <1>4, <1>6 DEF CnInv
  <2>2. \A u \in InvokeThreads : making[u] # 0 => making[t] <= making[u]
    BY <1>1, <2>1 DEF Ordered, InTurn
  <2> QED BY <1>0, <1>1, <1>2, <1>4, <1>6, <2>1, <2>2, TurnOrdered
<1> QED BY <1>3, <1>5, <1>6 DEF CnInv

LEMMA CnInit == ConnectionNotifierInit => CnInv
<1> SUFFICES ASSUME ConnectionNotifierInit PROVE CnInv
  OBVIOUS
<1> USE ConnectionBounds DEF ConnectionNotifierInit
<1>1. CnTypeOK
  <2>1. heard \in [Listeners -> Seq(Calls)] /\ registered \in Seq(Listeners) BY EmptySeq
  <2>2. nextToken \in 0 .. MaxTokens /\ position \in Int /\ total \in Int
        /\ changed \in 0 .. MaxChanges /\ making \in [InvokeThreads -> 0 .. MaxChanges]
    BY DEF Npos
  <2>3. /\ connection \in ConnectionStates /\ stage \in [InvokeThreads -> TellStages]
        /\ newState \in [InvokeThreads -> ConnectionStates]
        /\ listening \in [1 .. MaxChanges -> SUBSET Listeners]
    BY DEF ConnectionStates, TellStages
  <2>4. disturbed \in BOOLEAN /\ overtaken \in BOOLEAN OBVIOUS
  <2> QED BY <2>1, <2>2, <2>3, <2>4 DEF CnTypeOK
<1>2. TokenInv BY DEF TokenInv
<1>3. PendingInv /\ ToldInv BY DEF PendingInv, ToldInv
<1>4. Undisturbed BY DEF Undisturbed, OneIteration, Npos, Once, AllHeard
<1>5. Ordered BY DEF Ordered, InTurn, InOrder, Informed
<1> QED BY <1>1, <1>2, <1>3, <1>4, <1>5 DEF CnInv

LEMMA CnStep == CnInv /\ [ConnectionNotifierNext]_cnVars => CnInv'
<1> SUFFICES ASSUME CnInv, [ConnectionNotifierNext]_cnVars PROVE CnInv'
  OBVIOUS
<1>1. CASE UNCHANGED cnVars
  <2>1. CnTypeOK' /\ TokenInv' /\ PendingInv' /\ ToldInv'
    BY <1>1 DEF cnVars, CnInv, CnTypeOK, TokenInv, PendingInv, ToldInv, HasHeard
  <2>2. Undisturbed => Undisturbed'
    BY <1>1 DEF cnVars, Undisturbed, OneIteration, Iterates, Once, AllHeard, IsRegistered, HasHeard
  <2>3. Ordered => Ordered' BY <1>1 DEF cnVars, Ordered, InTurn, InOrder, Informed, Done
  <2> QED BY <1>1, <2>1, <2>2, <2>3 DEF cnVars, CnInv
<1>2. ASSUME NEW s \in ConnectionStates, ListenerCalled(s) PROVE CnInv'
  BY <1>2, ClientIsAThread, ChangeStep DEF ListenerCalled
<1>3. ASSUME NEW t \in InvokeThreads, EnterInactive(t) PROVE CnInv'
  <2>1. "disconnected" \in ConnectionStates BY DEF ConnectionStates
  <2> QED BY <1>3, <2>1, ChangeStep DEF EnterInactive
<1> QED BY <1>1, <1>2, <1>3, AddStep, RemoveStep, ReadStep, InvokeStep, ReturnedStep
        DEF ConnectionNotifierNext

\* As long as iterations do not overlap, no callback is called twice with a change of the
\* connection state and each is called with every one whose iteration it stays for, however many
\* are added and removed while others are being called; and, unless a change was overtaken between
\* m_state_mutex and m_callback_mutex, in the order in which the changes were made.
THEOREM ChangesAreHeardInOrder == ConnectionNotifierSpec => []HeardInOrder
<1>1. CnInv => HeardInOrder BY Promised
<1> QED BY <1>1, CnInit, CnStep, PTL DEF ConnectionNotifierSpec

\* Under the same conditions, once the changes made have been told, the last state every
\* registered callback was told of is the session's connection state.
THEOREM LastStateIsTold == ConnectionNotifierSpec => []LastStateTold
<1>1. CnInv => LastStateTold BY Promised
<1> QED BY <1>1, CnInit, CnStep, PTL DEF ConnectionNotifierSpec
=============================================================================
