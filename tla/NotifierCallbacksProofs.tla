---------------------- MODULE NotifierCallbacksProofs ----------------------
(***************************************************************************)
(* Proofs about NotifierCallbacks, for any number of callbacks, changes    *)
(* and any size_t: every variable keeps its type, m_have_callbacks says    *)
(* whether there are callbacks, the loops call exactly the callbacks that  *)
(* are due, and no change is passed over.                                  *)
(***************************************************************************)
EXTENDS NotifierCallbacks, SequenceTheorems, TLAPS

\* The list that RemoveCallback(i) leaves.
Rest(i) == SubSeq(list, 1, i - 1) \o SubSeq(list, i + 1, Len(list))

\* Taking out one callback leaves the others.
LEMMA RestLength ==
    ASSUME list \in Seq(Tokens), NEW i \in DOMAIN list
    PROVE  /\ Rest(i) \in Seq(Tokens) /\ Len(Rest(i)) = Len(list) - 1
           /\ \A k \in 1..(Len(list) - 1) :
                Rest(i)[k] = IF k < i THEN list[k] ELSE list[k + 1]
<1>1. Len(list) \in Nat /\ i \in 1..Len(list)
  OBVIOUS
<1>2. SubSeq(list, 1, i - 1) \in Seq(Tokens) /\ Len(SubSeq(list, 1, i - 1)) = i - 1
  BY <1>1
<1>3. /\ SubSeq(list, i + 1, Len(list)) \in Seq(Tokens)
      /\ Len(SubSeq(list, i + 1, Len(list))) = Len(list) - i
  BY <1>1
<1>4. /\ Rest(i) \in Seq(Tokens)
      /\ Len(Rest(i)) = Len(SubSeq(list, 1, i - 1)) + Len(SubSeq(list, i + 1, Len(list)))
  BY <1>2, <1>3, ConcatProperties, Zenon DEF Rest
<1>5. Len(SubSeq(list, 1, i - 1)) + Len(SubSeq(list, i + 1, Len(list)))
        = Len(list) - 1
  BY <1>1, <1>2, <1>3
<1>6. ASSUME NEW k \in 1..(Len(list) - 1)
      PROVE  Rest(i)[k] = IF k < i THEN list[k] ELSE list[k + 1]
  <2> DEFINE A == SubSeq(list, 1, i - 1)
             B == SubSeq(list, i + 1, Len(list))
  <2>1. Rest(i)[k] = IF k <= Len(A) THEN A[k] ELSE B[k - Len(A)]
    <3>1. k \in 1..(Len(A) + Len(B))
      BY <1>5
    <3> QED
      BY <1>2, <1>3, <3>1, ConcatProperties, Zenon DEF Rest
  <2>2. k <= i - 1 => A[k] = list[k]
    BY <1>1
  <2>3. k > i - 1 => B[k - (i - 1)] = list[k + 1]
    BY <1>1
  <2> QED
    BY <1>1, <1>2, <2>1, <2>2, <2>3
<1> QED
  BY <1>4, <1>5, <1>6, Zenon

\* ++ and -- stay in a size_t.
LEMMA SizeType ==
    \A n \in 0..SizeMax : Inc(n) \in 0..SizeMax /\ Dec(n) \in 0..SizeMax
  BY BoundsAssumption DEF Inc, Dec

(***************************************************************************)
(* The inductive invariant: while a callback runs the loop is at a place   *)
(* in the list or before its first, and otherwise at npos; so if it is in  *)
(* the middle, there are callbacks.                                        *)
(***************************************************************************)
LoopInv ==
    /\ HaveIsCached
    /\ Len(list) <= added
    /\ running = Nobody => index = npos
    /\ index # npos => index < Len(list)

-----------------------------------------------------------------------------
\* A step of the loop keeps the types of what it changes.
LEMMA CallNextType ==
    ASSUME TypeOK, NEW p \in Phases, NEW q \in Phases, NEW i, NEW D \in SUBSET Tokens,
           CallNext(p, i, q, D)
    PROVE  /\ index' \in 0..SizeMax /\ running' \in Tokens \cup {Nobody}
           /\ phase' \in Phases /\ failed' \in BOOLEAN /\ extra' \in BOOLEAN
           /\ freshGone' \in BOOLEAN
           /\ due' \subseteq Tokens /\ newcomers' \subseteq Tokens
           /\ toDeliver' \in [Tokens -> SUBSET Changes]
           /\ initial' \in [Tokens -> BOOLEAN]
           /\ told' \in [Tokens -> SUBSET Changes]
<1>1. CASE /\ Ahead(p, i) = {} /\ index' = npos /\ running' = Nobody /\ phase' = q
           /\ due' = D /\ newcomers' = IF q = "idle" THEN {} ELSE newcomers
           /\ UNCHANGED <<failed, toDeliver, initial, told, extra, freshGone>>
  BY <1>1, BoundsAssumption DEF TypeOK, npos
<1>2. CASE /\ failed' = TRUE /\ phase' = p /\ due' = D
           /\ UNCHANGED <<index, running, toDeliver, initial, told, extra, newcomers,
                          freshGone>>
  BY <1>2 DEF TypeOK
<1>3. ASSUME NEW j \in Ahead(p, i), j < Len(list), index' = j, phase' = p,
             running' = list[j + 1], due' = D \ {list[j + 1]},
             extra' = (extra \/ list[j + 1] \notin D),
             \/ UNCHANGED <<toDeliver, initial, told>>
             \/ /\ initial' = [initial EXCEPT ![list[j + 1]] = TRUE]
                /\ told' = [told EXCEPT ![list[j + 1]] = @ \cup toDeliver[list[j + 1]]]
                /\ toDeliver' = [toDeliver EXCEPT ![list[j + 1]] = {}],
             UNCHANGED <<failed, newcomers, freshGone>>
      PROVE  /\ index' \in 0..SizeMax /\ running' \in Tokens \cup {Nobody}
             /\ phase' \in Phases /\ failed' \in BOOLEAN /\ extra' \in BOOLEAN
             /\ freshGone' \in BOOLEAN
             /\ due' \subseteq Tokens /\ newcomers' \subseteq Tokens
             /\ toDeliver' \in [Tokens -> SUBSET Changes]
             /\ initial' \in [Tokens -> BOOLEAN]
             /\ told' \in [Tokens -> SUBSET Changes]
  <2>1. j \in 0..SizeMax
    BY <1>3 DEF Ahead
  <2>2. list[j + 1] \in Tokens
    BY <1>3, <2>1, BoundsAssumption DEF TypeOK
  <2>3. /\ toDeliver' \in [Tokens -> SUBSET Changes]
        /\ initial' \in [Tokens -> BOOLEAN]
        /\ told' \in [Tokens -> SUBSET Changes]
    <3>1. CASE UNCHANGED <<toDeliver, initial, told>>
      BY <3>1 DEF TypeOK
    <3>2. CASE /\ initial' = [initial EXCEPT ![list[j + 1]] = TRUE]
               /\ told' = [told EXCEPT ![list[j + 1]] = @ \cup toDeliver[list[j + 1]]]
               /\ toDeliver' = [toDeliver EXCEPT ![list[j + 1]] = {}]
      <4>1. toDeliver[list[j + 1]] \subseteq Changes /\ told[list[j + 1]] \subseteq Changes
        BY <2>2 DEF TypeOK
      <4> QED
        BY <2>2, <3>2, <4>1 DEF TypeOK
    <3> QED
      BY <1>3, <3>1, <3>2
  <2>4. extra' \in BOOLEAN
    BY <1>3 DEF TypeOK
  <2> QED
    BY <1>3, <2>1, <2>2, <2>3, <2>4 DEF TypeOK
<1> QED
  BY <1>1, <1>2, <1>3 DEF CallNext

\* Every step keeps the type of every variable.
LEMMA TypeStep == TypeOK /\ LoopInv /\ [NotifierCallbacksNext]_ncVars => TypeOK'
<1> SUFFICES ASSUME TypeOK, LoopInv, [NotifierCallbacksNext]_ncVars PROVE TypeOK'
  OBVIOUS
<1> USE BoundsAssumption
<1>1. CASE AddCallback
  BY <1>1 DEF AddCallback, HaveAfterAdd, loop, data, TypeOK, Tokens
<1>2. ASSUME NEW i \in DOMAIN list, RemoveCallback(i) PROVE TypeOK'
  <2>1. list' = Rest(i) /\ list' \in Seq(Tokens)
    BY <1>2, RestLength DEF RemoveCallback, Rest, TypeOK
  <2>2. index' \in 0..SizeMax /\ count' \in 0..SizeMax
    BY <1>2, SizeType
       DEF RemoveCallback, IndexAfterRemove, CountAfterRemove, TypeOK
  <2> QED
    BY <1>2, <2>1, <2>2 DEF RemoveCallback, HaveAfterRemove, data, TypeOK
<1>3. ASSUME NEW t \in Added, SuppressNext(t) PROVE TypeOK'
  BY <1>3 DEF SuppressNext, listVars, loop, history, TypeOK
<1>4. CASE AddChanges
  <2>1. changes + 1 \in Changes /\ changes' = changes + 1
    BY <1>4 DEF AddChanges, TypeOK, Changes
  <2>2. /\ accumulated' \in [Tokens -> SUBSET Changes]
        /\ given' \in [Tokens -> SUBSET Changes]
        /\ skipNext' \in [Tokens -> BOOLEAN]
    BY <1>4, <2>1 DEF AddChanges, Merged, TypeOK
  <2> QED
    BY <1>4, <2>1, <2>2 DEF AddChanges, listVars, loop, TypeOK, Changes
<1>5. CASE PackageForDelivery
  <2>1. Len(list) \in 0..SizeMax
    BY DEF LoopInv, TypeOK
  <2> QED
    BY <1>5, <2>1 DEF PackageForDelivery, listVars, history, TypeOK, Phases
<1>6. ASSUME NEW p \in Phases, NEW q \in Phases, NEW D \in SUBSET Tokens,
             CallNext(p, Inc(index), q, D),
             UNCHANGED <<listVars, count, accumulated, skipNext, changes, given>>
      PROVE  TypeOK'
  BY <1>6, CallNextType DEF listVars, TypeOK
<1>7. \A p : Packaged(p) \subseteq Tokens
  BY DEF Packaged, Elements, TypeOK
<1>8. CASE BeforeAdvance
  BY <1>6, <1>7, <1>8 DEF BeforeAdvance, Phases
<1>9. CASE AfterAdvance
  BY <1>6, <1>7, <1>9 DEF AfterAdvance, Phases
<1>10. CASE CallbackReturns
  BY <1>6, <1>10 DEF CallbackReturns, Phases, TypeOK
<1>11. CASE UNCHANGED ncVars
  BY <1>11 DEF ncVars, listVars, loop, data, history, TypeOK
<1> QED
  BY <1>1, <1>2, <1>3, <1>4, <1>5, <1>8, <1>9, <1>10, <1>11 DEF NotifierCallbacksNext

\* Every step keeps the loop in its place.
LEMMA LoopStep == TypeOK /\ LoopInv /\ [NotifierCallbacksNext]_ncVars => LoopInv'
<1> SUFFICES ASSUME TypeOK, LoopInv, [NotifierCallbacksNext]_ncVars PROVE LoopInv'
  OBVIOUS
<1> USE BoundsAssumption
<1>1. CASE AddCallback
  <2>1. list' \in Seq(Nat) /\ Len(list') = Len(list) + 1 /\ list' # <<>>
    BY <1>1 DEF AddCallback, TypeOK, Tokens
  <2>2. have'
    <3>1. index # npos => Len(list) # 0
      BY DEF LoopInv, TypeOK
    <3>2. index # npos => list # <<>>
      BY <3>1
    <3> QED
      BY <1>1, <3>2 DEF AddCallback, HaveAfterAdd, LoopInv, HaveIsCached
  <2>3. HaveIsCached'
    BY <2>1, <2>2 DEF HaveIsCached
  <2>4. /\ Len(list') <= added'
        /\ index' # npos => index' < Len(list')
    BY <1>1, <2>1 DEF AddCallback, loop, LoopInv, TypeOK, npos
  <2>5. running' = Nobody => index' = npos
    BY <1>1 DEF AddCallback, loop, LoopInv
  <2> QED
    BY <2>3, <2>4, <2>5 DEF LoopInv, npos
<1>2. ASSUME NEW i \in DOMAIN list, RemoveCallback(i) PROVE LoopInv'
  <2>1. list' = Rest(i) /\ list' \in Seq(Tokens) /\ Len(list') = Len(list) - 1
    BY <1>2, RestLength DEF RemoveCallback, Rest, TypeOK
  <2>2. HaveIsCached'
    BY <1>2 DEF RemoveCallback, HaveAfterRemove, HaveIsCached
  <2>3. i \in 1..Len(list) /\ Len(list) \in Nat
    BY DEF TypeOK
  <2>4. index' # npos => index' < Len(list')
    BY <1>2, <2>1, <2>3 DEF RemoveCallback, IndexAfterRemove, Dec, LoopInv, TypeOK, npos
  <2>5. running' = Nobody => index' = npos
    BY <1>2 DEF RemoveCallback, IndexAfterRemove, LoopInv
  <2> QED
    BY <1>2, <2>1, <2>2, <2>3, <2>4, <2>5 DEF RemoveCallback, LoopInv, TypeOK
<1>3. ASSUME UNCHANGED <<list, added, have, index, running>> PROVE LoopInv'
  BY <1>3 DEF LoopInv, HaveIsCached
<1>4. ASSUME NEW t \in Added, SuppressNext(t) PROVE LoopInv'
  BY <1>3, <1>4 DEF SuppressNext, listVars, loop
<1>5. CASE AddChanges
  BY <1>3, <1>5 DEF AddChanges, listVars, loop
<1>6. CASE PackageForDelivery
  BY <1>3, <1>6 DEF PackageForDelivery, listVars
<1>7. ASSUME NEW p, NEW q, NEW D, CallNext(p, Inc(index), q, D), UNCHANGED listVars
      PROVE  LoopInv'
  <2>1. CASE index' = npos /\ running' = Nobody
    BY <1>7, <2>1 DEF listVars, LoopInv, HaveIsCached, npos
  <2>2. CASE UNCHANGED <<index, running>>
    BY <1>3, <1>7, <2>2 DEF listVars
  <2>3. ASSUME NEW j \in Ahead(p, Inc(index)), j < Len(list), index' = j,
               running' = list[j + 1]
        PROVE  LoopInv'
    <3>1. list[j + 1] \in Tokens
      BY <2>3 DEF Ahead, TypeOK
    <3>2. running' # Nobody
      BY <2>3, <3>1 DEF Tokens, Nobody
    <3> QED
      BY <1>7, <2>3, <3>2 DEF listVars, LoopInv, HaveIsCached, npos
  <2> QED
    BY <1>7, <2>1, <2>2, <2>3 DEF CallNext
<1>8. CASE BeforeAdvance
  BY <1>7, <1>8 DEF BeforeAdvance
<1>9. CASE AfterAdvance
  BY <1>7, <1>9 DEF AfterAdvance
<1>10. CASE CallbackReturns
  BY <1>7, <1>10 DEF CallbackReturns
<1>11. CASE UNCHANGED ncVars
  BY <1>3, <1>11 DEF ncVars, listVars, loop
<1> QED
  BY <1>1, <1>2, <1>4, <1>5, <1>6, <1>8, <1>9, <1>10, <1>11 DEF NotifierCallbacksNext

\* Both hold in every state.
LEMMA Invariant == NotifierCallbacksSpec => [](TypeOK /\ LoopInv)
<1>1. NotifierCallbacksInit => TypeOK /\ LoopInv
  <2> SUFFICES ASSUME NotifierCallbacksInit PROVE TypeOK /\ LoopInv
    OBVIOUS
  <2>1. LoopInv
    <3>1. HaveIsCached
      BY Zenon DEF NotifierCallbacksInit, HaveIsCached
    <3>2. Len(list) <= added
      BY DEF NotifierCallbacksInit
    <3> QED
      BY <3>1, <3>2, Zenon DEF NotifierCallbacksInit, LoopInv
  <2>2. have \in BOOLEAN /\ failed \in BOOLEAN /\ extra \in BOOLEAN /\ freshGone \in BOOLEAN
    BY DEF NotifierCallbacksInit
  <2>3. /\ initial \in [Tokens -> BOOLEAN] /\ skipNext \in [Tokens -> BOOLEAN]
        /\ list \in Seq(Tokens)
    BY DEF NotifierCallbacksInit
  <2>4. /\ added \in 0..MaxTokens /\ changes \in 0..MaxChanges
        /\ index \in 0..SizeMax /\ count \in 0..SizeMax
        /\ due \subseteq Tokens /\ newcomers \subseteq Tokens
        /\ phase \in Phases /\ running \in Tokens \cup {Nobody}
    BY BoundsAssumption DEF NotifierCallbacksInit, Phases, npos
  <2>5. /\ accumulated \in [Tokens -> SUBSET Changes]
        /\ toDeliver \in [Tokens -> SUBSET Changes]
        /\ given \in [Tokens -> SUBSET Changes] /\ told \in [Tokens -> SUBSET Changes]
    BY DEF NotifierCallbacksInit
  <2> QED
    BY <2>1, <2>2, <2>3, <2>4, <2>5, Zenon DEF TypeOK
<1> QED
  BY <1>1, TypeStep, LoopStep, PTL DEF NotifierCallbacksSpec

-----------------------------------------------------------------------------
(***************************************************************************)
(* The loop calls what it has to.  The callbacks are in the order they     *)
(* were added, so the first m_callback_count of them are the packaged ones *)
(* that are left; those due are the ones among them that the loop has not  *)
(* come to.                                                                *)
(***************************************************************************)
Ordered ==
    /\ \A k \in DOMAIN list : list[k] <= added
    /\ \A j, k \in DOMAIN list : j < k => list[j] < list[k]

PackagedFirst ==
    /\ phase = "idle" => newcomers = {}
    /\ phase # "idle" => /\ count <= Len(list)
                         /\ \A k \in DOMAIN list : list[k] \in newcomers <=> k > count

\* The callbacks that a loop p now at position i has yet to call.
DueSet(p, i) == {t \in Tokens : \E k \in DOMAIN list :
                    k <= count /\ k > i /\ list[k] = t /\ Wants(p, t)}

DueInv ==
    /\ Ordered
    /\ ~freshGone =>
         /\ ~failed /\ ~extra
         /\ PackagedFirst
         /\ running = Nobody => due = {} /\ phase \notin {"before", "after"}
         /\ running # Nobody => /\ phase \in {"before", "after"}
                                /\ due = DueSet(phase, Inc(index))

\* A step of a loop that has to call D calls the first of them, or ends.
LEMMA CallNextDue ==
    ASSUME TypeOK, LoopInv, Ordered, PackagedFirst, phase # "idle", ~failed, ~extra,
           NEW p \in {"before", "after"}, NEW q, NEW i \in 0..SizeMax, NEW D,
           D = DueSet(p, i), CallNext(p, i, q, D),
           UNCHANGED <<list, count>>
    PROVE  /\ ~failed' /\ ~extra'
           /\ \/ running' = Nobody /\ due' = {} /\ phase' = q /\ D = {}
              \/ /\ running' # Nobody /\ phase' = p /\ newcomers' = newcomers
                 /\ due' = DueSet(p, Inc(index))'
<1> USE BoundsAssumption
<1>1. count \in Nat /\ count <= Len(list) /\ Len(list) \in Nat /\ Len(list) < SizeMax
  BY DEF PackagedFirst, LoopInv, TypeOK
<1>2. ASSUME NEW j \in Ahead(p, i)
      PROVE  j \in Nat /\ j >= i /\ j < count /\ j + 1 \in DOMAIN list
             /\ list[j + 1] \in Tokens /\ Wants(p, list[j + 1])
             /\ Inc(j) = j + 1
  <2>1. j \in 0..SizeMax /\ j >= i /\ j < count /\ (j >= Len(list) \/ Wants(p, list[j + 1]))
    BY <1>2 DEF Ahead, LoopLimit
  <2>2. j \in Nat /\ j + 1 \in DOMAIN list /\ ~(j >= Len(list)) /\ Inc(j) = j + 1
    BY <1>1, <2>1 DEF Inc, TypeOK
  <2> QED
    BY <2>1, <2>2 DEF TypeOK
<1>3. CASE /\ Ahead(p, i) = {} /\ running' = Nobody /\ phase' = q /\ due' = D
           /\ UNCHANGED <<failed, extra>>
  <2>1. ASSUME NEW k \in DOMAIN list, k <= count, k > i, Wants(p, list[k]) PROVE FALSE
    <3>1. k - 1 \in 0..SizeMax /\ k - 1 >= i /\ k - 1 < count /\ (k - 1) + 1 = k
      BY <1>1, <2>1 DEF TypeOK
    <3>2. k - 1 \in Ahead(p, i)
      BY <2>1, <3>1 DEF Ahead, LoopLimit
    <3> QED
      BY <1>3, <3>2
  <2>2. D = {}
    BY <2>1 DEF DueSet
  <2> QED
    BY <1>3, <2>2
<1>4. ASSUME NEW j \in Ahead(p, i), j >= Len(list) PROVE FALSE
  BY <1>1, <1>2, <1>4
<1>5. ASSUME NEW j \in Ahead(p, i), \A k \in Ahead(p, i) : j <= k,
             running' = list[j + 1], due' = D \ {list[j + 1]},
             extra' = (extra \/ list[j + 1] \notin D),
             \/ UNCHANGED <<toDeliver, initial>>
             \/ /\ initial' = [initial EXCEPT ![list[j + 1]] = TRUE]
                /\ toDeliver' = [toDeliver EXCEPT ![list[j + 1]] = {}],
             index' = j, phase' = p, UNCHANGED <<failed, newcomers>>
      PROVE  /\ ~failed' /\ ~extra' /\ running' # Nobody /\ phase' = p /\ newcomers' = newcomers
             /\ due' = DueSet(p, Inc(index))'
  <2> DEFINE t == list[j + 1]
  <2>1. t \in D
    <3>1. j + 1 \in DOMAIN list /\ j + 1 <= count /\ j + 1 > i /\ Wants(p, t) /\ t \in Tokens
      BY <1>1, <1>2
    <3> QED
      BY <3>1 DEF DueSet
  <2>2. ~extra'
    BY <1>5, <2>1
  <2>3. running' # Nobody
    BY <1>2, <1>5 DEF Tokens, Nobody
  <2>4. ASSUME NEW u \in Tokens, u # t PROVE Wants(p, u)' <=> Wants(p, u)
    <3>1. toDeliver'[u] = toDeliver[u] /\ initial'[u] = initial[u]
      BY <1>2, <1>5, <2>4 DEF TypeOK
    <3> QED
      BY <3>1 DEF Wants
  <2>5. Inc(index)' = j + 1
    BY <1>2, <1>5 DEF Inc
  <2>6. ASSUME NEW u \in Tokens PROVE u \in D \ {t} <=> u \in DueSet(p, Inc(index))'
    <3>1. ASSUME u \in D, u # t PROVE u \in DueSet(p, Inc(index))'
      <4>1. PICK k \in DOMAIN list : k <= count /\ k > i /\ list[k] = u /\ Wants(p, u)
        BY <3>1 DEF DueSet
      <4>2. k - 1 \in Ahead(p, i)
        <5>1. k - 1 \in 0..SizeMax /\ k - 1 >= i /\ k - 1 < count /\ (k - 1) + 1 = k
          BY <1>1, <4>1 DEF TypeOK
        <5> QED
          BY <4>1, <5>1 DEF Ahead, LoopLimit
      <4>3. k > j + 1
        <5>1. j <= k - 1 /\ k # j + 1
          BY <1>5, <3>1, <4>1, <4>2
        <5> QED
          BY <1>1, <1>2, <5>1 DEF TypeOK
      <4> QED
        BY <2>4, <2>5, <3>1, <4>1, <4>3 DEF DueSet
    <3>2. ASSUME u \in DueSet(p, Inc(index))' PROVE u \in D /\ u # t
      <4>1. PICK k \in DOMAIN list : k <= count /\ k > j + 1 /\ list[k] = u /\ Wants(p, u)'
        BY <2>5, <3>2 DEF DueSet
      <4>2. u # t
        <5>1. list[j + 1] < list[k]
          BY <1>2, <4>1 DEF Ordered
        <5> QED
          BY <1>2, <4>1, <5>1 DEF Tokens
      <4>3. k > i
        BY <1>1, <1>2, <4>1 DEF TypeOK
      <4> QED
        BY <2>4, <4>1, <4>2, <4>3 DEF DueSet
    <3> QED
      BY <3>1, <3>2
  <2>7. due' = DueSet(p, Inc(index))'
    BY <1>5, <2>6 DEF DueSet
  <2> QED
    BY <1>5, <2>2, <2>3, <2>7
<1> QED
  BY <1>3, <1>4, <1>5 DEF CallNext

\* When a loop begins, it has to call the packaged callbacks that want to be told.
LEMMA PackagedAreDue ==
    ASSUME TypeOK, LoopInv, DueInv, ~freshGone, phase \in {"packaged", "advanced"}, NEW p
    PROVE  Packaged(p) = DueSet(p, Inc(index))
<1>1. Inc(index) = 0
  <2>1. running = Nobody
    BY DEF DueInv
  <2> QED
    BY <2>1 DEF LoopInv, npos, Inc
<1>2. /\ \A k \in DOMAIN list : list[k] \in Tokens /\ k > 0 /\ k \in Nat
      /\ \A k \in DOMAIN list : list[k] \in newcomers <=> ~(k <= count)
  BY DEF DueInv, PackagedFirst, TypeOK
<1> QED
  BY <1>1, <1>2 DEF Packaged, Elements, DueSet

\* Every step keeps the callbacks in order and the right ones due.
LEMMA DueStep ==
    TypeOK /\ LoopInv /\ DueInv /\ [NotifierCallbacksNext]_ncVars => DueInv'
<1> SUFFICES ASSUME TypeOK, LoopInv, DueInv, [NotifierCallbacksNext]_ncVars PROVE DueInv'
  OBVIOUS
<1> USE BoundsAssumption
<1>1. CASE AddCallback
  <2>1. /\ Len(list') = Len(list) + 1 /\ Len(list) \in Nat
        /\ DOMAIN list = 1..Len(list) /\ DOMAIN list' = 1..(Len(list) + 1)
        /\ list'[Len(list) + 1] = added + 1 /\ added' = added + 1
        /\ \A k \in 1..Len(list) : list'[k] = list[k]
    BY <1>1 DEF AddCallback, TypeOK, Tokens
  <2>a. added \in Nat /\ \A k \in 1..Len(list) : list[k] \in Nat /\ list[k] <= added
    BY DEF DueInv, Ordered, TypeOK, Tokens
  <2>2. Ordered'
    <3>1. ASSUME NEW k \in DOMAIN list' PROVE list'[k] <= added'
      BY <2>1, <2>a
    <3>2. ASSUME NEW j \in DOMAIN list', NEW k \in DOMAIN list', j < k
          PROVE  list'[j] < list'[k]
      <4>1. j \in 1..Len(list) /\ list'[j] = list[j]
        BY <2>1, <3>2
      <4>2. CASE k \in 1..Len(list)
        BY <2>1, <3>2, <4>1, <4>2 DEF DueInv, Ordered
      <4>3. CASE k = Len(list) + 1
        BY <2>1, <2>a, <4>1, <4>3
      <4> QED
        BY <2>1, <4>2, <4>3
    <3> QED
      BY <3>1, <3>2 DEF Ordered
  <2>3. ASSUME ~freshGone, phase # "idle" PROVE PackagedFirst'
    <3>1. /\ count <= Len(list) /\ phase' # "idle" /\ count' = count /\ count \in Nat
          /\ \A k \in DOMAIN list : list[k] \in newcomers <=> k > count
          /\ newcomers' = newcomers \cup {added + 1}
      BY <1>1, <2>3 DEF AddCallback, loop, DueInv, PackagedFirst, TypeOK
    <3>2. ASSUME NEW k \in 1..Len(list) PROVE list'[k] \in newcomers' <=> k > count'
      <4>1. list'[k] = list[k] /\ list[k] # added + 1
        BY <2>1, <2>a
      <4> QED
        BY <2>1, <3>1, <4>1
    <3>3. list'[Len(list) + 1] \in newcomers' /\ Len(list) + 1 > count'
      BY <2>1, <3>1
    <3> QED
      BY <2>1, <3>1, <3>2, <3>3 DEF PackagedFirst
  <2>4. ASSUME ~freshGone, running # Nobody PROVE due' = DueSet(phase, Inc(index))'
    <3>1. count <= Len(list) /\ count \in Nat /\ due = DueSet(phase, Inc(index))
      BY <2>4 DEF DueInv, PackagedFirst, TypeOK
    <3>2. UNCHANGED <<count, phase, due, toDeliver, initial>> /\ Inc(index)' = Inc(index)
      BY <1>1 DEF AddCallback, loop, data, Inc
    <3>3. \A p, t : Wants(p, t)' <=> Wants(p, t)
      BY <3>2 DEF Wants
    <3> QED
      BY <2>1, <3>1, <3>2, <3>3 DEF DueSet
  <2> QED
    BY <1>1, <2>2, <2>3, <2>4 DEF AddCallback, loop, DueInv, PackagedFirst
<1>2. ASSUME NEW i \in DOMAIN list, RemoveCallback(i) PROVE DueInv'
  <2>1. /\ i \in 1..Len(list) /\ Len(list) \in Nat /\ DOMAIN list = 1..Len(list)
        /\ DOMAIN list' = 1..(Len(list) - 1) /\ Len(list') = Len(list) - 1
        /\ \A k \in 1..(Len(list) - 1) :
             list'[k] = IF k < i THEN list[k] ELSE list[k + 1]
    <3>1. list' = Rest(i) /\ list \in Seq(Tokens)
      BY <1>2 DEF RemoveCallback, Rest, TypeOK
    <3>2. /\ list' \in Seq(Tokens) /\ Len(list') = Len(list) - 1
          /\ \A k \in 1..(Len(list) - 1) :
               list'[k] = IF k < i THEN list[k] ELSE list[k + 1]
      BY <3>1, RestLength, Zenon
    <3>3. DOMAIN list = 1..Len(list) /\ DOMAIN list' = 1..Len(list') /\ Len(list) \in Nat
      BY <3>1, <3>2
    <3> QED
      BY <3>2, <3>3
  <2>2. Ordered'
    <3>1. added' = added /\ \A k \in 1..Len(list) : list[k] \in Nat /\ list[k] <= added
      <4>1. added' = added /\ \A k \in 1..Len(list) : list[k] <= added
        BY <1>2, <2>1 DEF RemoveCallback, DueInv, Ordered
      <4>2. \A k \in 1..Len(list) : list[k] \in Nat
        BY DEF TypeOK, Tokens
      <4> QED
        BY <4>1, <4>2
    <3>2. ASSUME NEW k \in DOMAIN list' PROVE list'[k] <= added'
      BY <2>1, <3>1
    <3>3. ASSUME NEW j \in DOMAIN list', NEW k \in DOMAIN list', j < k
          PROVE  list'[j] < list'[k]
      <4> DEFINE up(x) == IF x < i THEN x ELSE x + 1
      <4>1. /\ up(j) \in DOMAIN list /\ up(k) \in DOMAIN list /\ up(j) < up(k)
            /\ list'[j] = list[up(j)] /\ list'[k] = list[up(k)]
        BY <2>1, <3>3
      <4> QED
        BY <4>1 DEF DueInv, Ordered
    <3> QED
      BY <3>2, <3>3 DEF Ordered
  <2>3. ASSUME ~freshGone', phase # "idle"
        PROVE  /\ i <= count /\ count' = count - 1 /\ count \in Nat /\ PackagedFirst'
    <3>1. ~freshGone /\ list[i] \notin newcomers
      BY <1>2, <2>3 DEF RemoveCallback
    <3>2. /\ count <= Len(list) /\ count \in Nat
          /\ \A k \in DOMAIN list : list[k] \in newcomers <=> k > count
      BY <2>3, <3>1 DEF DueInv, PackagedFirst, TypeOK
    <3>3. i <= count /\ count' = count - 1
      BY <1>2, <2>1, <3>1, <3>2 DEF RemoveCallback, CountAfterRemove, Dec
    <3>4. newcomers' = newcomers /\ phase' = phase
      BY <1>2, <3>1 DEF RemoveCallback
    <3> QED
      BY <2>1, <2>3, <3>2, <3>3, <3>4 DEF PackagedFirst
  <2>4. ASSUME ~freshGone', running # Nobody
        PROVE  due' = DueSet(phase, Inc(index))'
    <3> DEFINE n == Inc(index)
               t == list[i]
    <3>1. ~freshGone /\ phase # "idle" /\ due = DueSet(phase, n) /\ due' = due \ {t}
      BY <1>2, <2>4 DEF RemoveCallback, DueInv
    <3>2. i <= count /\ count' = count - 1 /\ count \in Nat /\ count <= Len(list)
      BY <2>3, <2>4, <3>1 DEF DueInv, PackagedFirst
    <3>3. /\ n \in Nat
          /\ n >= i => Inc(index)' = n - 1
          /\ n < i => Inc(index)' = n
      <4>1. /\ index' = IF index # SizeMax /\ index >= i - 1 THEN Dec(index) ELSE index
            /\ index \in 0..SizeMax
        BY <1>2 DEF RemoveCallback, IndexAfterRemove, TypeOK, npos
      <4>2. CASE index = SizeMax
        BY <2>1, <4>1, <4>2 DEF Inc
      <4>3. CASE index # SizeMax /\ index >= i - 1
        BY <2>1, <4>1, <4>3 DEF Inc, Dec
      <4>4. CASE index # SizeMax /\ index < i - 1
        BY <2>1, <4>1, <4>4 DEF Inc
      <4> QED
        BY <2>1, <4>1, <4>2, <4>3, <4>4
    <3>4. \A p, u : Wants(p, u)' <=> Wants(p, u)
      BY <1>2 DEF RemoveCallback, data, Wants
    <3>5. phase' = phase
      BY <1>2 DEF RemoveCallback
    <3>6. ASSUME NEW u \in due, u # t PROVE u \in DueSet(phase, Inc(index))'
      <4>1. PICK k \in DOMAIN list :
                k <= count /\ k > n /\ list[k] = u /\ Wants(phase, u) /\ u \in Tokens
        BY <3>1, <3>6 DEF DueSet
      <4>2. CASE k < i
        BY <2>1, <3>2, <3>3, <3>4, <3>5, <4>1, <4>2 DEF DueSet
      <4>3. CASE k > i
        <5>1. k - 1 \in 1..(Len(list) - 1) /\ list'[k - 1] = u
          BY <2>1, <4>1, <4>3
        <5>2. k - 1 <= count' /\ k - 1 > Inc(index)'
          BY <2>1, <3>2, <3>3, <4>1, <4>3
        <5> QED
          BY <2>1, <3>4, <3>5, <4>1, <5>1, <5>2 DEF DueSet
      <4> QED
        BY <2>1, <3>6, <4>1, <4>2, <4>3
    <3>7. ASSUME NEW u \in DueSet(phase, Inc(index))' PROVE u \in due /\ u # t
      <4>1. PICK k \in 1..(Len(list) - 1) :
                /\ k <= count - 1 /\ k > Inc(index)' /\ list'[k] = u
                /\ Wants(phase, u) /\ u \in Tokens
        BY <2>1, <3>2, <3>4, <3>5, <3>7 DEF DueSet
      <4>2. CASE k < i
        <5>1. list[k] = u /\ k \in DOMAIN list /\ k <= count /\ k > n
          BY <2>1, <3>2, <3>3, <4>1, <4>2
        <5>2. u < t
          BY <2>1, <4>2, <5>1 DEF DueInv, Ordered
        <5> QED
          BY <3>1, <4>1, <5>1, <5>2 DEF DueSet, Tokens
      <4>3. CASE k >= i
        <5>1. list[k + 1] = u /\ k + 1 \in DOMAIN list /\ k + 1 <= count /\ k + 1 > n
          BY <2>1, <3>2, <3>3, <4>1, <4>3
        <5>2. t < u
          BY <2>1, <4>3, <5>1 DEF DueInv, Ordered
        <5> QED
          BY <3>1, <4>1, <5>1, <5>2 DEF DueSet, Tokens
      <4> QED
        BY <2>1, <4>1, <4>2, <4>3
    <3> QED
      BY <3>1, <3>6, <3>7
  <2>5. ASSUME ~freshGone' PROVE PackagedFirst' /\ ~freshGone
    BY <1>2, <2>3, <2>5 DEF RemoveCallback, DueInv, PackagedFirst
  <2> QED
    BY <1>2, <2>2, <2>4, <2>5 DEF RemoveCallback, DueInv
<1>3. ASSUME UNCHANGED <<list, added, index, count, phase, running, failed, toDeliver,
                         initial, due, extra, newcomers, freshGone>>
      PROVE  DueInv'
  BY <1>3 DEF DueInv, Ordered, PackagedFirst, DueSet, Wants, Inc
<1>4. ASSUME NEW t \in Added, SuppressNext(t) PROVE DueInv'
  BY <1>3, <1>4 DEF SuppressNext, listVars, loop, history
<1>5. CASE AddChanges
  BY <1>3, <1>5 DEF AddChanges, listVars, loop
<1>6. CASE PackageForDelivery
  <2>1. running = Nobody \/ freshGone
    BY <1>6 DEF PackageForDelivery, DueInv
  <2>2. Ordered'
    BY <1>6 DEF PackageForDelivery, listVars, DueInv, Ordered
  <2>3. ~freshGone => PackagedFirst'
    BY <1>6 DEF PackageForDelivery, listVars, history, DueInv, PackagedFirst, TypeOK
  <2> QED
    BY <1>6, <2>1, <2>2, <2>3 DEF PackageForDelivery, history, DueInv
<1>7. ASSUME NEW p \in {"before", "after"}, NEW q \in {"advanced", "idle"},
             NEW D, CallNext(p, Inc(index), q, D),
             ~freshGone => D = DueSet(p, Inc(index)) /\ phase # "idle",
             UNCHANGED <<listVars, count>>
      PROVE  DueInv'
  <2>1. Ordered'
    BY <1>7 DEF listVars, DueInv, Ordered
  <2>2. Inc(index) \in 0..SizeMax
    BY SizeType DEF TypeOK
  <2>3. freshGone' = freshGone /\ (newcomers' = newcomers \/ (phase' = q /\ q = "idle" /\ newcomers' = {}))
        /\ (phase' = "idle" => newcomers' = {})
    BY <1>7 DEF CallNext
  <2>4. ASSUME ~freshGone
        PROVE  /\ ~failed' /\ ~extra'
               /\ \/ running' = Nobody /\ due' = {} /\ phase' = q
                  \/ /\ running' # Nobody /\ phase' = p /\ newcomers' = newcomers
                     /\ due' = DueSet(p, Inc(index))'
    BY <1>7, <2>2, <2>4, CallNextDue DEF DueInv, listVars
  <2>5. ASSUME ~freshGone PROVE PackagedFirst'
    BY <1>7, <2>3, <2>5 DEF DueInv, PackagedFirst, listVars
  <2> QED
    BY <2>1, <2>3, <2>4, <2>5 DEF DueInv
<1>8. ASSUME NEW p \in {"before", "after"}, ~freshGone, phase \in {"packaged", "advanced"}
      PROVE  Packaged(p) = DueSet(p, Inc(index))
  BY <1>8, PackagedAreDue
<1>9. CASE BeforeAdvance
  BY <1>7, <1>8, <1>9 DEF BeforeAdvance
<1>10. CASE AfterAdvance
  BY <1>7, <1>8, <1>10 DEF AfterAdvance
<1>11. CASE CallbackReturns
  <2>1. CASE freshGone
    BY <1>11, <2>1 DEF CallbackReturns, CallNext, listVars, DueInv, Ordered
  <2>2. CASE ~freshGone
    BY <1>7, <1>11, <2>2 DEF CallbackReturns, DueInv
  <2> QED
    BY <2>1, <2>2
<1>12. CASE UNCHANGED ncVars
  BY <1>3, <1>12 DEF ncVars, listVars, loop, data, history
<1> QED
  BY <1>1, <1>2, <1>4, <1>5, <1>6, <1>9, <1>10, <1>11, <1>12 DEF NotifierCallbacksNext

-----------------------------------------------------------------------------
(***************************************************************************)
(* No change is passed over: what a callback was given is in one of its    *)
(* three places, and nothing is left to deliver when the delivery ends,    *)
(* because in the last loop a callback that has something to be told is    *)
(* due.                                                                    *)
(***************************************************************************)
DataInv ==
    /\ \A t \in Tokens : t > added => toDeliver[t] = {}
    /\ ~freshGone =>
         /\ \A t \in Tokens : given[t] = accumulated[t] \cup toDeliver[t] \cup told[t]
         /\ \A t \in newcomers : toDeliver[t] = {}
         /\ phase = "idle" => \A t \in Elements(list) : toDeliver[t] = {}
         /\ phase = "after" => \A t \in Elements(list) : toDeliver[t] # {} => t \in due

\* Every step keeps the changes of every callback.
LEMMA DataStep ==
    TypeOK /\ LoopInv /\ DueInv /\ DataInv /\ [NotifierCallbacksNext]_ncVars => DataInv'
<1> SUFFICES ASSUME TypeOK, LoopInv, DueInv, DataInv, [NotifierCallbacksNext]_ncVars PROVE DataInv'
  OBVIOUS
<1> USE BoundsAssumption
<1>0. added \in Nat /\ Tokens \subseteq Nat /\ \A k \in DOMAIN list : list[k] <= added
  BY DEF TypeOK, Tokens, DueInv, Ordered
<1>1. CASE AddCallback
  <2>1. /\ added' = added + 1 /\ added + 1 \in Tokens
        /\ newcomers' \subseteq newcomers \cup {added + 1}
        /\ UNCHANGED <<toDeliver, accumulated, told, given, phase, due, freshGone>>
    BY <1>1 DEF AddCallback, loop, data, TypeOK, Tokens
  <2>2. toDeliver[added + 1] = {}
    BY <1>0, <2>1 DEF DataInv
  <2>3. Elements(list') \subseteq Elements(list) \cup {added + 1}
    <3>1. ASSUME NEW k \in DOMAIN list'
          PROVE  (k \in DOMAIN list /\ list'[k] = list[k]) \/ list'[k] = added + 1
      BY <1>1, <3>1 DEF AddCallback, TypeOK
    <3> QED
      BY <3>1 DEF Elements
  <2>4. ASSUME NEW t \in Tokens, t > added' PROVE toDeliver'[t] = {}
    <3>1. t > added
      BY <1>0, <2>1, <2>4
    <3> QED
      BY <2>1, <3>1 DEF DataInv
  <2> QED
    BY <2>1, <2>2, <2>3, <2>4 DEF DataInv, Elements
<1>2. ASSUME NEW i \in DOMAIN list, RemoveCallback(i) PROVE DataInv'
  <2>1. /\ Elements(list') \subseteq Elements(list) /\ list[i] \notin Elements(list')
    <3>1. list' = Rest(i) /\ list \in Seq(Tokens) /\ i \in 1..Len(list)
      BY <1>2 DEF RemoveCallback, Rest, TypeOK
    <3>2. /\ list' \in Seq(Tokens) /\ Len(list') = Len(list) - 1
          /\ \A k \in 1..(Len(list) - 1) :
               list'[k] = IF k < i THEN list[k] ELSE list[k + 1]
      BY <3>1, RestLength, Zenon
    <3>3. ASSUME NEW k \in 1..(Len(list) - 1)
          PROVE  list'[k] \in Elements(list) /\ list'[k] # list[i]
      <4>1. PICK j \in DOMAIN list : list'[k] = list[j] /\ j # i
        <5>1. CASE k < i
          BY <3>1, <3>2, <5>1
        <5>2. CASE k >= i
          <6>1. k + 1 \in DOMAIN list /\ list'[k] = list[k + 1] /\ k + 1 # i
            BY <3>1, <3>2, <5>2
          <6> QED
            BY <6>1
        <5> QED
          BY <3>1, <5>1, <5>2
      <4>2. list[j] \in Nat /\ list[i] \in Nat
        BY <3>1, <4>1 DEF Tokens
      <4>3. list[j] < list[i] \/ list[i] < list[j]
        BY <3>1, <4>1 DEF DueInv, Ordered
      <4> QED
        BY <4>1, <4>2, <4>3 DEF Elements
    <3>4. DOMAIN list' = 1..(Len(list) - 1)
      BY <3>2
    <3> QED
      BY <3>3, <3>4 DEF Elements
  <2>2. /\ UNCHANGED <<added, toDeliver, accumulated, told, given, phase>>
        /\ newcomers' \subseteq newcomers /\ due' = due \ {list[i]}
        /\ ~freshGone' => ~freshGone
    BY <1>2 DEF RemoveCallback, data
  <2> QED
    BY <2>1, <2>2 DEF DataInv, Elements
<1>3. ASSUME UNCHANGED <<list, added, toDeliver, accumulated, told, given, phase, due,
                         newcomers, freshGone>>
      PROVE  DataInv'
  BY <1>3 DEF DataInv, Elements
<1>4. ASSUME NEW t \in Added, SuppressNext(t) PROVE DataInv'
  BY <1>3, <1>4 DEF SuppressNext, listVars, loop, history
<1>5. CASE AddChanges
  <2>1. UNCHANGED <<list, added, toDeliver, told, phase, due, newcomers, freshGone>>
    BY <1>5 DEF AddChanges, listVars, loop
  <2>2. ASSUME NEW t \in Tokens
        PROVE  \/ accumulated'[t] = accumulated[t] /\ given'[t] = given[t]
               \/ \E c : /\ accumulated'[t] = accumulated[t] \cup {c}
                         /\ given'[t] = given[t] \cup {c}
    BY <1>5 DEF AddChanges, Merged
  <2>3. ASSUME ~freshGone, NEW t \in Tokens
        PROVE  given'[t] = accumulated'[t] \cup toDeliver'[t] \cup told'[t]
    <3>1. given[t] = accumulated[t] \cup toDeliver[t] \cup told[t]
      BY <2>3 DEF DataInv
    <3> QED
      BY <2>1, <2>2, <3>1
  <2> QED
    BY <2>1, <2>3 DEF DataInv, Elements
<1>6. CASE PackageForDelivery
  <2>1. /\ UNCHANGED <<list, added, told, given, newcomers, freshGone>>
        /\ phase = "idle" /\ phase' = "packaged"
    BY <1>6 DEF PackageForDelivery, listVars, history
  <2>2. ASSUME NEW t \in Tokens
        PROVE  /\ toDeliver'[t] = IF t \in Elements(list) THEN accumulated[t] ELSE toDeliver[t]
               /\ accumulated'[t] = IF t \in Elements(list) THEN {} ELSE accumulated[t]
    BY <1>6 DEF PackageForDelivery
  <2>3. \A t \in Tokens : t > added' => toDeliver'[t] = {}
    BY <1>0, <2>1, <2>2 DEF DataInv, Elements
  <2>4. ASSUME ~freshGone, NEW t \in Tokens
        PROVE  given'[t] = accumulated'[t] \cup toDeliver'[t] \cup told'[t]
    <3>1. /\ given[t] = accumulated[t] \cup toDeliver[t] \cup told[t]
          /\ t \in Elements(list) => toDeliver[t] = {}
      BY <2>1, <2>4 DEF DataInv
    <3> QED
      BY <2>1, <2>2, <3>1
  <2>5. ~freshGone => newcomers' = {}
    BY <2>1 DEF DueInv, PackagedFirst
  <2> QED
    BY <2>1, <2>3, <2>4, <2>5 DEF DataInv
<1>7. ASSUME NEW p \in {"before", "after"}, NEW q \in {"advanced", "idle"},
             NEW D, CallNext(p, Inc(index), q, D), (q = "idle") <=> (p = "after"),
             ~freshGone => /\ D = DueSet(p, Inc(index)) /\ phase # "idle"
                           /\ p = "after" =>
                                \A t \in Elements(list) : toDeliver[t] # {} => t \in D,
             UNCHANGED <<list, added, count, accumulated, given>>
      PROVE  DataInv'
  <2>1. ASSUME NEW t \in Tokens
        PROVE  \/ toDeliver'[t] = toDeliver[t] /\ told'[t] = told[t]
               \/ toDeliver'[t] = {} /\ told'[t] = told[t] \cup toDeliver[t]
    BY <1>7, <2>1 DEF CallNext, TypeOK
  <2>2. /\ freshGone' = freshGone /\ newcomers' \subseteq newcomers
        /\ \/ phase' = q /\ UNCHANGED <<toDeliver>> /\ running' = Nobody
           \/ failed' /\ phase' = p
           \/ /\ phase' = p
              /\ \E t \in Tokens : due' = D \ {t} /\ (p = "after" => toDeliver'[t] = {})
    <3>1. ASSUME NEW j \in Ahead(p, Inc(index)), j < Len(list) PROVE list[j + 1] \in Tokens
      BY <3>1 DEF Ahead, TypeOK
    <3> QED
      BY <1>7, <3>1 DEF CallNext, TypeOK
  <2>3. \A t \in Tokens : t > added' => toDeliver'[t] = {}
    BY <1>7, <2>1 DEF DataInv
  <2>4. ASSUME ~freshGone, NEW t \in Tokens
        PROVE  given'[t] = accumulated'[t] \cup toDeliver'[t] \cup told'[t]
    <3>1. given[t] = accumulated[t] \cup toDeliver[t] \cup told[t]
      BY <2>4 DEF DataInv
    <3> QED
      BY <1>7, <2>1, <3>1
  <2>5. ASSUME ~freshGone, NEW t \in newcomers' PROVE toDeliver'[t] = {}
    BY <2>1, <2>2, <2>5 DEF DataInv, TypeOK
  <2>6. ASSUME ~freshGone
        PROVE  /\ ~failed'
               /\ running' = Nobody => phase' = q /\ D = {}
    <3>1. Inc(index) \in 0..SizeMax
      BY SizeType DEF TypeOK
    <3> QED
      BY <1>7, <2>6, <3>1, CallNextDue DEF DueInv
  <2>7. \A t \in Elements(list) : t \in Tokens
    BY DEF Elements, TypeOK
  <2>8. ASSUME ~freshGone, phase' = "idle", NEW t \in Elements(list) PROVE toDeliver'[t] = {}
    <3>1. p = "after" /\ phase' = q /\ UNCHANGED toDeliver /\ running' = Nobody
      BY <1>7, <2>2, <2>8
    <3> QED
      BY <1>7, <2>6, <2>8, <3>1
  <2>9. ASSUME ~freshGone, phase' = "after", NEW t \in Elements(list), toDeliver'[t] # {}
        PROVE  t \in due'
    <3>1. p = "after" /\ ~failed' /\ phase' # q
      BY <1>7, <2>2, <2>6, <2>9
    <3>2. PICK u \in Tokens : due' = D \ {u} /\ toDeliver'[u] = {}
      BY <2>2, <3>1, Zenon
    <3>3. toDeliver[t] # {}
      BY <2>1, <2>7, <2>9
    <3> QED
      BY <1>7, <2>9, <3>1, <3>2, <3>3
  <2>10. Elements(list') = Elements(list)
    BY <1>7 DEF Elements
  <2> QED
    BY <2>2, <2>3, <2>4, <2>5, <2>8, <2>9, <2>10 DEF DataInv
<1>8. ASSUME NEW p \in {"before", "after"}, ~freshGone, phase \in {"packaged", "advanced"}
      PROVE  /\ Packaged(p) = DueSet(p, Inc(index)) /\ phase # "idle"
             /\ p = "after" => \A t \in Elements(list) : toDeliver[t] # {} => t \in Packaged(p)
  <2>1. \A t \in newcomers : toDeliver[t] = {}
    BY <1>8 DEF DataInv
  <2> QED
    BY <1>8, <2>1, PackagedAreDue DEF Packaged, Wants
<1>9. CASE BeforeAdvance
  BY <1>7, <1>8, <1>9 DEF BeforeAdvance, listVars
<1>10. CASE AfterAdvance
  BY <1>7, <1>8, <1>10 DEF AfterAdvance, listVars
<1>11. CASE CallbackReturns
  <2> DEFINE q == IF phase = "before" THEN "advanced" ELSE "idle"
  <2>1. /\ running # Nobody /\ CallNext(phase, Inc(index), q, due)
        /\ UNCHANGED <<list, added, count, accumulated, given>>
    BY <1>11 DEF CallbackReturns, listVars
  <2>2. CASE freshGone
    <3>1. freshGone'
      BY <2>1, <2>2 DEF CallNext
    <3>2. ASSUME NEW t \in Tokens PROVE toDeliver'[t] = toDeliver[t] \/ toDeliver'[t] = {}
      BY <2>1, <3>2 DEF CallNext, TypeOK
    <3> QED
      BY <2>1, <3>1, <3>2 DEF DataInv
  <2>3. CASE ~freshGone
    <3>1. /\ phase \in {"before", "after"} /\ due = DueSet(phase, Inc(index))
          /\ (phase = "after") => \A t \in Elements(list) : toDeliver[t] # {} => t \in due
      BY <2>1, <2>3 DEF DueInv, DataInv
    <3> QED
      BY <1>7, <2>1, <2>3, <3>1
  <2> QED
    BY <2>2, <2>3
<1>12. CASE UNCHANGED ncVars
  BY <1>3, <1>12 DEF ncVars, listVars, loop, data, history
<1> QED
  BY <1>1, <1>2, <1>4, <1>5, <1>6, <1>9, <1>10, <1>11, <1>12 DEF NotifierCallbacksNext

\* Both hold in every state.
LEMMA DeliveryInvariant == NotifierCallbacksSpec => [](DueInv /\ DataInv)
<1>1. NotifierCallbacksInit => DueInv
  <2> SUFFICES ASSUME NotifierCallbacksInit PROVE DueInv
    OBVIOUS
  <2>1. Ordered
    BY DEF NotifierCallbacksInit, Ordered
  <2>2. PackagedFirst
    BY DEF NotifierCallbacksInit, PackagedFirst
  <2> QED
    BY <2>1, <2>2, Zenon DEF NotifierCallbacksInit, DueInv
<1>2. NotifierCallbacksInit => DataInv
  BY DEF NotifierCallbacksInit, DataInv, Elements
<1> QED
  BY <1>1, <1>2, Invariant, DueStep, DataStep, PTL DEF NotifierCallbacksSpec

-----------------------------------------------------------------------------
\* Every variable keeps its type; m_callback_index and m_callback_count in
\* particular stay in a size_t as callbacks come and go under the loop.
THEOREM TypeCorrect == NotifierCallbacksSpec => []TypeOK
  BY Invariant, PTL

\* m_have_callbacks is true exactly when there are callbacks, although
\* add_callback() leaves it alone in the middle of a loop.
THEOREM HaveCallbacksIsCached == NotifierCallbacksSpec => []HaveIsCached
<1>1. LoopInv => HaveIsCached
  BY DEF LoopInv
<1> QED
  BY <1>1, Invariant, PTL

\* for_each_callback() never leaves the list, and never calls a callback that
\* was not packaged or was called already.
THEOREM OnlyDue == NotifierCallbacksSpec => []OnlyDueCalled
<1>1. DueInv => OnlyDueCalled
  BY DEF DueInv, OnlyDueCalled
<1> QED
  BY <1>1, DeliveryInvariant, PTL

\* Its loops end when every packaged callback that is left has been called.
THEOREM AllDue == NotifierCallbacksSpec => []AllDueCalled
<1>1. DueInv => AllDueCalled
  BY DEF DueInv, AllDueCalled
<1> QED
  BY <1>1, DeliveryInvariant, PTL

\* A callback is told of every change that add_changes() gave it.
THEOREM NothingIsPassedOver == NotifierCallbacksSpec => []NothingPassedOver
<1>1. TypeOK /\ DataInv => NothingPassedOver
  BY DEF TypeOK, DataInv, NothingPassedOver, Elements
<1> QED
  BY <1>1, Invariant, DeliveryInvariant, PTL
=============================================================================
