------------------------ MODULE ProgressNotifierProofs ------------------------
(***************************************************************************)
(* Proofs about ProgressNotifier, for any finite set of callbacks and any  *)
(* number of reports, bytes and local commits.                             *)
(***************************************************************************)
EXTENDS ProgressNotifier, FiniteSetTheorems, SequenceTheorems, TLAPS

-----------------------------------------------------------------------------
(* The inductive invariant.                                                *)

Packages == [watch : Watches, captured : Nat \cup {NotCaptured}, version : Nat, at : Int]
Calls == [watch : Watches, done : Nat, of : Nat, at : Int]
Amounts == [done : Nat, of : Nat, at : Int]

PnTypeOK ==
    /\ packages \in SUBSET Packages /\ IsFiniteSet(packages)
    /\ progress \in SUBSET Reports
    /\ commits \in Nat
    /\ queue \in Seq(Calls)
    /\ firstCalls \in SUBSET Calls
    /\ told \in [Watches -> Seq(Amounts)]
    /\ waitsFor \in [Watches -> Int]

Final(c) == c.done >= c.of

\* A callback is registered once, and until then no call to it is made or due.
RegisteredInv ==
    /\ \A w \in Watches : waitsFor[w] = -1 =>
          /\ \A k \in packages : k.watch # w
          /\ \A c \in firstCalls : c.watch # w
          /\ \A i \in DOMAIN queue : queue[i].watch # w
          /\ told[w] = <<>>
    /\ \A k, l \in packages : k.watch = l.watch => k = l
    /\ \A c, d \in firstCalls : c.watch = d.watch => c = d
    /\ \A i, j \in DOMAIN queue : queue[i].watch = queue[j].watch => i = j

\* What has been said to w, or is about to be: made, due from a report, due from the registration.
Said(w) == {told[w][i] : i \in DOMAIN told[w]}
Due(w) == {c \in {queue[i] : i \in DOMAIN queue} : c.watch = w}
First(w) == {c \in firstCalls : c.watch = w}

\* Every call to w names the amount its package captured, by a report that knew the local
\* commits w waits for.
AmountInv(w) ==
    LET all == Said(w) \cup Due(w) \cup First(w)
    IN /\ \A c, d \in all : c.of = d.of
       /\ ~w.download => \A c \in all : c.at >= waitsFor[w]
       /\ \A k \in packages : k.watch = w =>
            /\ \A c \in all : c.of = k.captured
            /\ k.version = waitsFor[w]
            /\ k.captured # NotCaptured /\ ~w.download => k.at >= k.version

\* One call says that all is done; none has been made or is due while w is registered.
DoneInv(w) ==
    /\ \A i, j \in DOMAIN told[w] : Final(told[w][i]) /\ Final(told[w][j]) => i = j
    /\ \A c \in Said(w), d \in Due(w) \cup First(w) : ~(Final(c) /\ Final(d))
    /\ \A c \in Due(w), d \in First(w) : ~(Final(c) /\ Final(d))
    /\ \A k \in packages : k.watch = w =>
          \A c \in Said(w) \cup Due(w) \cup First(w) : ~Final(c)

MeasuredInv(w) == ~w.streaming => AmountInv(w) /\ DoneInv(w)

PnInv == PnTypeOK /\ RegisteredInv /\ \A w \in Watches : MeasuredInv(w)

-----------------------------------------------------------------------------
(* What create_invocation returns.                                         *)

\* The package it returns is the given one with an amount captured, at most; a callback
\* that is not streaming is told that amount, and expires with the call that says it is done.
LEMMA Invocation ==
    ASSUME NEW w \in Watches, NEW k \in Packages, k.watch = w, NEW p \in Reports,
           NEW m, m = CreateInvocation(w, k, p)
    PROVE  /\ m.package \in Packages /\ m.package.watch = w /\ m.package.version = k.version
           /\ m.call \in SUBSET Calls
           /\ \A c \in m.call : c.watch = w /\ m.call = {c}
           /\ ~w.streaming =>
                /\ \A c \in m.call : /\ c.of = m.package.captured /\ c.at = m.package.at
                                     /\ Final(c) <=> m.expired
                /\ k.captured # NotCaptured => m.package.captured = k.captured
                /\ ~w.download /\ m.package.captured # NotCaptured =>
                      \/ k.captured # NotCaptured /\ m.package.at = k.at
                      \/ m.package.at >= k.version
<1> DEFINE able == IF w.download THEN p.downloadable ELSE p.uploadable
           behind == ~w.download /\ k.version > p.version
           captured == IF w.streaming \/ k.captured # NotCaptured \/ behind
                       THEN k.captured ELSE able
           of == IF w.streaming THEN able ELSE captured
           done == IF w.download THEN p.downloaded ELSE p.uploaded
           silent == ~w.streaming /\ captured = NotCaptured
           at == IF captured = k.captured THEN k.at ELSE p.version
           call == [watch |-> w, done |-> done, of |-> of, at |-> at]
<1>1. w.download \in BOOLEAN /\ w.streaming \in BOOLEAN BY WatchesAssumption
<1>2. /\ p.downloadable \in Nat /\ p.uploadable \in Nat /\ p.version \in Nat
      /\ p.downloaded \in Nat /\ p.uploaded \in Nat
  BY ProgressBounds DEF Reports
<1>3. /\ k.captured \in Nat \cup {NotCaptured} /\ k.version \in Nat /\ k.at \in Int
      /\ k = [watch |-> w, captured |-> k.captured, version |-> k.version, at |-> k.at]
  BY DEF Packages
<1>4. /\ m.package = [k EXCEPT !.captured = captured, !.at = at]
      /\ m.call = IF silent THEN {} ELSE {call}
      /\ m.expired <=> ~silent /\ ~w.streaming /\ done >= of
  BY DEF CreateInvocation, NoInvocation
<1>5. able \in Nat /\ done \in Nat /\ NotCaptured = -1 BY <1>1, <1>2 DEF NotCaptured
<1>6. captured \in Nat \cup {NotCaptured} /\ at \in Int /\ (~silent => of \in Nat)
  BY <1>1, <1>2, <1>3, <1>5
<1>7. m.package = [watch |-> w, captured |-> captured, version |-> k.version, at |-> at]
  BY <1>3, <1>4 DEF Packages
<1>8. ~w.streaming => /\ of = captured
                      /\ k.captured # NotCaptured => captured = k.captured
                      /\ ~w.download /\ captured # NotCaptured =>
                            \/ k.captured # NotCaptured /\ at = k.at
                            \/ at >= k.version
  BY <1>1, <1>2, <1>3, <1>5
<1> HIDE DEF able, behind, captured, of, done, silent, at
<1>9. m.package \in Packages BY <1>3, <1>6, <1>7 DEF Packages
<1>10. ~silent => call \in Calls BY <1>5, <1>6 DEF Calls
<1>11. ~w.streaming => \A c \in m.call : /\ c.of = captured /\ c.at = at
                                         /\ Final(c) <=> m.expired
  BY <1>4, <1>8 DEF Final
<1>12. \A c \in m.call : c.watch = w /\ m.call = {c} BY <1>4
<1> QED BY <1>4, <1>7, <1>8, <1>9, <1>10, <1>11, <1>12

-----------------------------------------------------------------------------
(* The invariant is preserved.                                             *)

\* A callback that is told nothing new, and gets no new package, stays as it was.
LEMMA Undisturbed ==
    ASSUME NEW w \in Watches, MeasuredInv(w),
           told'[w] = told[w], waitsFor'[w] = waitsFor[w],
           Due(w)' \subseteq Due(w), First(w)' \subseteq First(w),
           \A k \in packages' : k.watch = w => k \in packages
    PROVE  MeasuredInv(w)'
<1>1. Said(w)' = Said(w) BY DEF Said
<1>2. CASE w.streaming BY <1>2 DEF MeasuredInv
<1>3. CASE ~w.streaming
  <2>1. AmountInv(w) /\ DoneInv(w) BY <1>3 DEF MeasuredInv
  <2>2. AmountInv(w)' BY <1>1, <2>1 DEF AmountInv
  <2>3. DoneInv(w)' BY <1>1, <2>1 DEF DoneInv
  <2> QED BY <2>2, <2>3 DEF MeasuredInv
<1> QED BY <1>2, <1>3

LEMMA RegisterKeeps ==
    ASSUME PnInv, NEW w \in Watches, RegisterCallback(w)
    PROVE  PnInv'
<1> USE DEF PnInv
<1> DEFINE k == [watch |-> w, captured |-> NotCaptured, version |-> commits, at |-> -1]
<1>1. k \in Packages /\ k.watch = w /\ k.version = commits /\ k.captured = NotCaptured
  BY DEF Packages, PnTypeOK
<1>2. /\ waitsFor[w] = -1 /\ waitsFor' = [waitsFor EXCEPT ![w] = commits]
      /\ UNCHANGED <<progress, commits, updates, queue, told>>
  BY DEF RegisterCallback
<1>3. /\ \A l \in packages : l.watch # w
      /\ \A c \in firstCalls : c.watch # w
      /\ \A i \in DOMAIN queue : queue[i].watch # w
      /\ told[w] = <<>>
  BY <1>2 DEF RegisteredInv
<1>4. /\ waitsFor' \in [Watches -> Int] /\ waitsFor'[w] = commits /\ commits # -1
      /\ \A v \in Watches : v # w => waitsFor'[v] = waitsFor[v]
  BY <1>2 DEF PnTypeOK
<1>5. Said(w)' = {} /\ Due(w)' = {} BY <1>2, <1>3 DEF Said, Due
\* At most one package and at most one call are new, and they agree.
<1> DEFINE Adds(l, new, calls) ==
             /\ l \in Packages /\ l.watch = w /\ l.version = commits
             /\ new \in SUBSET {l} /\ packages' = packages \cup new
             /\ calls \in SUBSET Calls /\ firstCalls' = firstCalls \cup calls
             /\ \A c \in calls : c.watch = w /\ calls = {c}
             /\ ~w.streaming =>
                  /\ ~w.download /\ l.captured # NotCaptured => l.at >= l.version
                  /\ \A c \in calls : c.of = l.captured /\ c.at = l.at
                  /\ new # {} => \A c \in calls : ~Final(c)
<1>6. \E l, new, calls : Adds(l, new, calls)
  <2>1. CASE progress = {} /\ packages' = packages \cup {k} /\ UNCHANGED firstCalls
    <3>1. Adds(k, {k}, {})
      <4> HIDE DEF k
      <4> QED BY <1>1, <2>1
    <3> HIDE DEF Adds
    <3> QED BY <3>1
  <2>2. ASSUME NEW p \in progress, NEW first, first = CreateInvocation(w, k, p),
               packages' = IF first.expired THEN packages ELSE packages \cup {first.package},
               firstCalls' = firstCalls \cup first.call
        PROVE  \E l, new, calls : Adds(l, new, calls)
    <3>1. p \in Reports BY DEF PnTypeOK
    <3>2. /\ first.package \in Packages /\ first.package.watch = w
          /\ first.package.version = commits
          /\ first.call \in SUBSET Calls
          /\ \A c \in first.call : c.watch = w /\ first.call = {c}
          /\ ~w.streaming =>
               /\ \A c \in first.call : /\ c.of = first.package.captured
                                        /\ c.at = first.package.at
                                        /\ Final(c) <=> first.expired
               /\ ~w.download /\ first.package.captured # NotCaptured =>
                      first.package.at >= commits
      <4> HIDE DEF k
      <4> QED BY <1>1, <2>2, <3>1, Invocation
    <3>3. Adds(first.package, IF first.expired THEN {} ELSE {first.package}, first.call)
      BY <2>2, <3>2
    <3> HIDE DEF Adds
    <3> QED BY <3>3
  <2>3. \/ progress = {} /\ packages' = packages \cup {k} /\ UNCHANGED firstCalls
        \/ \E p \in progress :
             /\ packages' = IF CreateInvocation(w, k, p).expired THEN packages
                            ELSE packages \cup {CreateInvocation(w, k, p).package}
             /\ firstCalls' = firstCalls \cup CreateInvocation(w, k, p).call
    BY Zenon DEF RegisterCallback
  <2> HIDE DEF k, Adds
  <2> QED BY <2>1, <2>2, <2>3
<1>7. PICK l, new, calls : Adds(l, new, calls) BY <1>6
<1>8. PnTypeOK'
  <2>1. IsFiniteSet(packages') /\ packages' \in SUBSET Packages
    <3>1. IsFiniteSet({l}) /\ new \subseteq {l} BY <1>7, FS_Singleton
    <3>2. IsFiniteSet(new) BY <3>1, FS_Subset
    <3> QED BY <1>7, <3>1, <3>2, FS_Union DEF PnTypeOK
  <2> QED BY <1>2, <1>4, <1>7, <2>1 DEF PnTypeOK
<1>9. RegisteredInv'
  BY <1>2, <1>3, <1>4, <1>7 DEF RegisteredInv
<1>10. ASSUME NEW v \in Watches PROVE MeasuredInv(v)'
  <2>1. CASE v # w
    <3>1. told'[v] = told[v] /\ waitsFor'[v] = waitsFor[v] BY <1>2, <1>4, <2>1
    <3>2. Due(v)' \subseteq Due(v) BY <1>2 DEF Due
    <3>3. First(v)' \subseteq First(v) BY <1>7, <2>1 DEF First
    <3>4. \A h \in packages' : h.watch = v => h \in packages BY <1>7, <2>1
    <3> QED BY <3>1, <3>2, <3>3, <3>4, Undisturbed
  <2>2. CASE v = w
    <3>1. CASE w.streaming BY <2>2, <3>1 DEF MeasuredInv
    <3>2. CASE ~w.streaming
      <4>1. First(w)' = calls BY <1>3, <1>7 DEF First
      <4>2. \A h \in packages' : h.watch = w => h = l /\ new # {} BY <1>3, <1>7
      <4>3. \A c \in calls : /\ c.of = l.captured /\ c.at = l.at /\ calls = {c}
                             /\ ~w.download => c.at >= commits
        BY <1>7, <3>2 DEF Calls, NotCaptured
      <4>4. AmountInv(w)' BY <1>4, <1>5, <1>7, <3>2, <4>1, <4>2, <4>3 DEF AmountInv
      <4>5. DOMAIN told'[w] = {} BY <1>2, <1>3
      <4>6. DoneInv(w)' BY <1>5, <1>7, <3>2, <4>1, <4>2, <4>5 DEF DoneInv
      <4> QED BY <2>2, <4>4, <4>6 DEF MeasuredInv
    <3> QED BY <3>1, <3>2
  <2> QED BY <2>1, <2>2
<1> QED BY <1>8, <1>9, <1>10

LEMMA UnregisterKeeps ==
    ASSUME PnInv, NEW w \in Watches, UnregisterCallback(w)
    PROVE  PnInv'
<1>1. /\ packages' \subseteq packages
      /\ UNCHANGED <<progress, commits, updates, queue, firstCalls, told, waitsFor>>
  BY DEF UnregisterCallback
<1>2. IsFiniteSet(packages') BY <1>1, FS_Subset DEF PnInv, PnTypeOK
<1>3. PnTypeOK' BY <1>1, <1>2 DEF PnInv, PnTypeOK
<1>4. RegisteredInv' BY <1>1 DEF PnInv, RegisteredInv
<1>5. ASSUME NEW v \in Watches PROVE MeasuredInv(v)'
  <2>1. /\ told'[v] = told[v] /\ waitsFor'[v] = waitsFor[v]
        /\ \A k \in packages' : k.watch = v => k \in packages
    BY <1>1
  <2>2. Due(v)' \subseteq Due(v) /\ First(v)' \subseteq First(v) BY <1>1 DEF Due, First
  <2>3. MeasuredInv(v) BY DEF PnInv
  <2> QED BY <2>1, <2>2, <2>3, Undisturbed
<1> QED BY <1>3, <1>4, <1>5 DEF PnInv

\* A step that changes neither packages nor calls.
LEMMA QuietKeeps ==
    ASSUME PnInv, UNCHANGED <<packages, queue, firstCalls, told, waitsFor, progress>>,
           commits' \in Nat
    PROVE  PnInv'
<1>1. PnTypeOK' BY DEF PnInv, PnTypeOK
<1>2. RegisteredInv' BY DEF PnInv, RegisteredInv
<1>3. ASSUME NEW v \in Watches PROVE MeasuredInv(v)'
  <2>1. /\ told'[v] = told[v] /\ waitsFor'[v] = waitsFor[v]
        /\ \A k \in packages' : k.watch = v => k \in packages
    OBVIOUS
  <2>2. Due(v)' \subseteq Due(v) /\ First(v)' \subseteq First(v) BY DEF Due, First
  <2>3. MeasuredInv(v) BY DEF PnInv
  <2> QED BY <2>1, <2>2, <2>3, Undisturbed
<1> QED BY <1>1, <1>2, <1>3 DEF PnInv

\* A call that was due is made: what it says moves from the calls due to the calls made.
LEMMA CallMade ==
    ASSUME PnInv, NEW c \in Calls, Made(c),
           UNCHANGED <<packages, waitsFor>>,
           \A w \in Watches : Due(w)' \subseteq Due(w) /\ First(w)' \subseteq First(w),
           \/ c \in Due(c.watch) /\ c \notin Due(c.watch)'
           \/ c \in First(c.watch) /\ c \notin First(c.watch)'
    PROVE  /\ told' \in [Watches -> Seq(Amounts)]
           /\ \A w \in Watches : MeasuredInv(w)'
           /\ \A w \in Watches : waitsFor[w] = -1 => told'[w] = <<>>
<1> DEFINE w == c.watch
           a == [done |-> c.done, of |-> c.of, at |-> c.at]
           n == Len(told[w])
<1>1. /\ w \in Watches /\ a \in Amounts /\ told[w] \in Seq(Amounts)
      /\ told' = [told EXCEPT ![w] = Append(told[w], a)]
  BY DEF PnInv, PnTypeOK, Calls, Amounts, Made
<1> HIDE DEF w, a
<1>2. /\ Append(told[w], a) \in Seq(Amounts)
      /\ n \in Nat /\ DOMAIN told[w] = 1 .. n
      /\ DOMAIN Append(told[w], a) = 1 .. n + 1
      /\ \A i \in 1 .. n : Append(told[w], a)[i] = told[w][i]
      /\ Append(told[w], a)[n + 1] = a
  BY <1>1, AppendProperties, LenProperties
<1>3. /\ told' \in [Watches -> Seq(Amounts)]
      /\ told'[w] = Append(told[w], a)
      /\ \A v \in Watches : v # w => told'[v] = told[v]
  BY <1>1, <1>2 DEF PnInv, PnTypeOK
<1>4. waitsFor[w] # -1
  <2>1. c.watch = w BY DEF w
  <2>2. (\E i \in DOMAIN queue : queue[i].watch = w) \/ (\E d \in firstCalls : d.watch = w)
    BY <2>1 DEF Due, First
  <2> QED BY <1>1, <2>2 DEF PnInv, RegisteredInv
<1>5. \A v \in Watches : waitsFor[v] = -1 => told'[v] = <<>>
  BY <1>3, <1>4 DEF PnInv, RegisteredInv
<1>6. ASSUME NEW v \in Watches, v # w PROVE MeasuredInv(v)'
  <2>1. /\ told'[v] = told[v] /\ waitsFor'[v] = waitsFor[v]
        /\ \A k \in packages' : k.watch = v => k \in packages
    BY <1>3, <1>6
  <2>2. MeasuredInv(v) BY DEF PnInv
  <2> QED BY <2>1, <2>2, Undisturbed
<1>7. MeasuredInv(w)'
  <2>1. CASE w.streaming BY <2>1 DEF MeasuredInv
  <2>2. CASE ~w.streaming
    <3>1. AmountInv(w) /\ DoneInv(w) BY <1>1, <2>2 DEF PnInv, MeasuredInv
    <3>2. /\ c \in Due(w) \cup First(w)
          /\ a.of = c.of /\ a.at = c.at /\ (Final(a) <=> Final(c))
      BY DEF w, a, Final
    <3>3. Said(w)' = Said(w) \cup {a}
      <4>1. Said(w) = {told[w][i] : i \in 1 .. n} BY <1>2 DEF Said
      <4>2. Said(w)' = {told'[w][i] : i \in 1 .. n + 1} BY <1>2, <1>3 DEF Said
      <4>3. ASSUME NEW i \in 1 .. n + 1 PROVE i \in 1 .. n \/ i = n + 1 BY <1>2
      <4>4. 1 .. n \subseteq 1 .. n + 1 /\ n + 1 \in 1 .. n + 1 BY <1>2
      <4>5. \A i \in 1 .. n : told'[w][i] = told[w][i] BY <1>2, <1>3
      <4>6. told'[w][n + 1] = a BY <1>2, <1>3
      <4> QED BY <4>1, <4>2, <4>3, <4>4, <4>5, <4>6
    <3>4. AmountInv(w)'
      <4> DEFINE all == Said(w) \cup Due(w) \cup First(w)
                 all2 == Said(w)' \cup Due(w)' \cup First(w)'
      <4>1. Due(w)' \subseteq Due(w) /\ First(w)' \subseteq First(w) BY <1>1
      <4>2. \A d \in all2 : \E e \in all : d.of = e.of /\ d.at = e.at
        BY <3>2, <3>3, <4>1
      <4>3. /\ \A d, e \in all : d.of = e.of
            /\ ~w.download => \A d \in all : d.at >= waitsFor[w]
            /\ \A k \in packages : k.watch = w =>
                 /\ \A d \in all : d.of = k.captured
                 /\ k.version = waitsFor[w]
                 /\ k.captured # NotCaptured /\ ~w.download => k.at >= k.version
        BY <3>1 DEF AmountInv
      <4> HIDE DEF all, all2
      <4>4. /\ \A d, e \in all2 : d.of = e.of
            /\ ~w.download => \A d \in all2 : d.at >= waitsFor[w]
            /\ \A k \in packages : k.watch = w => \A d \in all2 : d.of = k.captured
        BY <4>2, <4>3
      <4> QED BY <4>3, <4>4 DEF AmountInv, all2
    <3>5. DoneInv(w)'
      <4>1. Due(w)' \subseteq Due(w) /\ First(w)' \subseteq First(w) BY <1>1
      <4>2. Final(a) => \A d \in Said(w) : ~Final(d)
        BY <3>1, <3>2 DEF DoneInv
      <4>3. Final(a) => \A d \in Due(w)' \cup First(w)' : ~Final(d)
        <5> SUFFICES ASSUME Final(c), NEW d \in Due(w)' \cup First(w)', Final(d) PROVE FALSE
          BY <3>2
        <5>1. \A e, f \in Due(w) : e = f
          BY DEF Due, PnInv, RegisteredInv
        <5>2. \A e, f \in First(w) : e = f
          BY DEF First, PnInv, RegisteredInv
        <5>3. \A e \in Due(w), f \in First(w) : ~(Final(e) /\ Final(f))
          BY <3>1 DEF DoneInv
        <5>4. \/ c \in Due(w) /\ c \notin Due(w)'
              \/ c \in First(w) /\ c \notin First(w)'
          BY DEF w
        <5> QED BY <4>1, <5>1, <5>2, <5>3, <5>4
      <4>4. ASSUME NEW i \in DOMAIN told'[w], NEW j \in DOMAIN told'[w],
                   Final(told'[w][i]), Final(told'[w][j])
            PROVE  i = j
        <5>1. \A h \in 1 .. n + 1 : h \in 1 .. n \/ h = n + 1 BY <1>2
        <5>2. i \in 1 .. n + 1 /\ j \in 1 .. n + 1 BY <1>2, <1>3
        <5>3. CASE i \in 1 .. n /\ j \in 1 .. n
          <6>1. told'[w][i] = told[w][i] /\ told'[w][j] = told[w][j] BY <1>2, <1>3, <5>3
          <6> QED BY <1>2, <3>1, <4>4, <5>3, <6>1 DEF DoneInv
        <5>4. ASSUME NEW h \in 1 .. n, Final(told'[w][h]), Final(told'[w][n + 1]) PROVE FALSE
          <6>1. told'[w][h] = told[w][h] /\ told'[w][n + 1] = a BY <1>2, <1>3
          <6>2. told[w][h] \in Said(w) BY <1>2 DEF Said
          <6> QED BY <4>2, <5>4, <6>1, <6>2
        <5> QED BY <4>4, <5>1, <5>2, <5>3, <5>4
      <4>5. \A d \in Said(w)', e \in Due(w)' \cup First(w)' : ~(Final(d) /\ Final(e))
        BY <3>1, <3>3, <4>1, <4>3 DEF DoneInv
      <4>6. \A d \in Due(w)', e \in First(w)' : ~(Final(d) /\ Final(e))
        BY <3>1, <4>1 DEF DoneInv
      <4>7. \A k \in packages' : k.watch = w =>
               \A d \in Said(w)' \cup Due(w)' \cup First(w)' : ~Final(d)
        BY <3>1, <3>2, <3>3, <4>1 DEF DoneInv
      <4> QED BY <4>4, <4>5, <4>6, <4>7 DEF DoneInv
    <3> QED BY <3>4, <3>5 DEF MeasuredInv
  <2> QED BY <2>1, <2>2
<1> QED BY <1>3, <1>5, <1>6, <1>7

LEMMA UpdateCallsKeeps ==
    ASSUME PnInv, UpdateCalls
    PROVE  PnInv'
<1>0. PICK c : c = Head(queue) OBVIOUS
<1>1. /\ queue \in Seq(Calls) /\ queue # <<>> /\ queue' = Tail(queue) /\ Made(c)
      /\ UNCHANGED <<packages, progress, commits, updates, firstCalls, waitsFor>>
  BY <1>0 DEF UpdateCalls, PnInv, PnTypeOK
<1>2. /\ queue' \in Seq(Calls) /\ Len(queue) \in Nat \ {0}
      /\ DOMAIN queue = 1 .. Len(queue) /\ DOMAIN queue' = 1 .. Len(queue) - 1
      /\ \A i \in 1 .. Len(queue) - 1 : queue'[i] = queue[i + 1]
      /\ c \in Calls /\ c = queue[1]
  <2>1. Len(queue) \in Nat /\ DOMAIN queue = 1 .. Len(queue) BY <1>1, LenProperties
  <2>2. Len(queue) # 0 BY <1>1, EmptySeq
  <2>3. /\ c \in Calls /\ queue' \in Seq(Calls) /\ Len(queue') = Len(queue) - 1
        /\ \A i \in 1 .. Len(queue) - 1 : queue'[i] = queue[i + 1]
    BY <1>0, <1>1, HeadTailProperties
  <2>4. DOMAIN queue' = 1 .. Len(queue') BY <2>3, LenProperties
  <2>5. c = queue[1] BY <1>0
  <2> QED BY <2>1, <2>2, <2>3, <2>4, <2>5
<1>3. \A i \in DOMAIN queue' : i + 1 \in DOMAIN queue /\ queue'[i] = queue[i + 1] BY <1>2
<1>4. \A i, j \in DOMAIN queue : queue[i].watch = queue[j].watch => i = j
  BY DEF PnInv, RegisteredInv
<1>5. \A w \in Watches : Due(w)' \subseteq Due(w) BY <1>3 DEF Due
<1>6. \A w \in Watches : First(w)' \subseteq First(w) BY <1>1 DEF First
<1>7. c \in Due(c.watch) /\ c \notin Due(c.watch)'
  <2>1. 1 \in DOMAIN queue BY <1>2
  <2>2. c \in Due(c.watch) BY <1>2, <2>1 DEF Due
  <2>3. ASSUME NEW i \in DOMAIN queue', queue'[i] = c PROVE FALSE
    <3>1. i + 1 = 1 BY <1>2, <1>3, <1>4, <2>1, <2>3
    <3>2. i \in Nat \ {0} BY <1>2
    <3> QED BY <3>1, <3>2
  <2> QED BY <2>2, <2>3 DEF Due
<1>8. /\ told' \in [Watches -> Seq(Amounts)]
      /\ \A w \in Watches : MeasuredInv(w)'
      /\ \A w \in Watches : waitsFor[w] = -1 => told'[w] = <<>>
  <2>1. \A w \in Watches : Due(w)' \subseteq Due(w) /\ First(w)' \subseteq First(w)
    BY <1>5, <1>6
  <2>2. c \in Calls /\ Made(c) /\ UNCHANGED <<packages, waitsFor>> BY <1>1, <1>2
  <2> QED BY <1>7, <2>1, <2>2, CallMade
<1>9. PnTypeOK' BY <1>1, <1>2, <1>8 DEF PnInv, PnTypeOK
<1>10. RegisteredInv'
  <2>1. ASSUME NEW i \in DOMAIN queue', NEW j \in DOMAIN queue', queue'[i].watch = queue'[j].watch
        PROVE  i = j
    <3>1. i + 1 = j + 1 BY <1>3, <1>4, <2>1
    <3>2. i \in Int /\ j \in Int BY <1>2
    <3> QED BY <3>1, <3>2
  <2> QED BY <1>1, <1>3, <1>8, <2>1 DEF PnInv, RegisteredInv
<1> QED BY <1>8, <1>9, <1>10 DEF PnInv

LEMMA RegistrationCallsKeeps ==
    ASSUME PnInv, NEW c \in firstCalls, RegistrationCalls(c)
    PROVE  PnInv'
<1>1. /\ firstCalls' = firstCalls \ {c} /\ Made(c) /\ c \in Calls
      /\ UNCHANGED <<packages, progress, commits, updates, queue, waitsFor>>
  BY DEF RegistrationCalls, PnInv, PnTypeOK
<1>2. /\ \A w \in Watches : Due(w)' \subseteq Due(w) /\ First(w)' \subseteq First(w)
      /\ c \in First(c.watch) /\ c \notin First(c.watch)'
  BY <1>1 DEF Due, First
<1>3. /\ told' \in [Watches -> Seq(Amounts)]
      /\ \A w \in Watches : MeasuredInv(w)'
      /\ \A w \in Watches : waitsFor[w] = -1 => told'[w] = <<>>
  BY <1>1, <1>2, CallMade
<1>4. PnTypeOK' BY <1>1, <1>3 DEF PnInv, PnTypeOK
<1>5. RegisteredInv' BY <1>1, <1>3 DEF PnInv, RegisteredInv
<1> QED BY <1>3, <1>4, <1>5 DEF PnInv

LEMMA FiniteRange ==
    ASSUME NEW S, IsFiniteSet(S), NEW f, f = [x \in S |-> f[x]]
    PROVE  IsFiniteSet({f[x] : x \in S})
<1>1. f \in Surjection(S, {f[x] : x \in S}) BY DEF Surjection
<1> QED BY <1>1, FS_Surjection

\* A report makes at most one call due for each package.
LEMMA UpdateMakes ==
    ASSUME PnInv, NEW p \in Reports, Update(p, TRUE)
    PROVE  /\ IsFiniteSet(packages') /\ queue' \in Seq(Calls)
           /\ \A k \in packages' : \E l \in packages :
                 LET m == CreateInvocation(l.watch, l, p)
                 IN k = m.package /\ ~m.expired
           /\ \A i \in DOMAIN queue' : \E l \in packages :
                 queue'[i] \in CreateInvocation(l.watch, l, p).call
           /\ \A i, j \in DOMAIN queue' : queue'[i] = queue'[j] => i = j
<1> DEFINE Inv(l) == CreateInvocation(l.watch, l, p)
           made == {Inv(l) : l \in packages}
           calls == {m.call : m \in made}
           due == UNION calls
<1>1. /\ packages' = Remaining(made)
      /\ queue' \in {s \in [1 .. Cardinality(due) -> due] :
                        \A i, j \in DOMAIN s : i # j => s[i] # s[j]}
  BY DEF Update
<1>2. ASSUME NEW l \in packages PROVE Inv(l).call \subseteq Calls /\ IsFiniteSet(Inv(l).call)
  <2>1. l \in Packages /\ l.watch \in Watches BY DEF PnInv, PnTypeOK, Packages
  <2>2. /\ Inv(l).call \in SUBSET Calls /\ \A c \in Inv(l).call : Inv(l).call = {c}
    <3> HIDE DEF Inv
    <3>1. Inv(l) = CreateInvocation(l.watch, l, p) BY DEF Inv
    <3> QED BY <2>1, <3>1, Invocation
  <2>3. CASE Inv(l).call = {} BY <2>2, <2>3, FS_EmptySet
  <2>4. CASE Inv(l).call # {}
    <3>1. PICK c : c \in Inv(l).call BY <2>4
    <3>2. Inv(l).call = {c} BY <2>2, <3>1
    <3>3. IsFiniteSet({c}) BY FS_Singleton
    <3> QED BY <2>2, <3>2, <3>3
  <2> QED BY <2>3, <2>4
<1> HIDE DEF Inv
<1>3. IsFiniteSet(packages) BY DEF PnInv, PnTypeOK
<1> DEFINE invs == [l \in packages |-> Inv(l)]
           callOf == [m \in made |-> m.call]
           kept == {m \in made : ~m.expired}
           packageOf == [m \in kept |-> m.package]
<1>4. IsFiniteSet(made)
  <2>1. made = {invs[l] : l \in packages} OBVIOUS
  <2>2. invs = [l \in packages |-> invs[l]] OBVIOUS
  <2> HIDE DEF invs, made
  <2> QED BY <1>3, <2>1, <2>2, FiniteRange
<1>5. \A m \in made : m.call \subseteq Calls /\ IsFiniteSet(m.call) BY <1>2
<1>6. \A m \in made : \E l \in packages : m = Inv(l) OBVIOUS
<1> HIDE DEF made
<1>7. IsFiniteSet(calls)
  <2>1. calls = {callOf[m] : m \in made} OBVIOUS
  <2>2. callOf = [m \in made |-> callOf[m]] OBVIOUS
  <2> HIDE DEF callOf, calls
  <2> QED BY <1>4, <2>1, <2>2, FiniteRange
<1>8. due \subseteq Calls /\ \A c \in calls : IsFiniteSet(c) BY <1>5
<1>9. \A c \in due : \E m \in made : c \in m.call OBVIOUS
<1> HIDE DEF calls
<1>10. IsFiniteSet(due) BY <1>7, <1>8, FS_UNION
<1> HIDE DEF due
<1>11. Cardinality(due) \in Nat BY <1>10, FS_CardinalityType
<1>12. IsFiniteSet(packages')
  <2>1. IsFiniteSet(kept) BY <1>4, FS_Subset
  <2>2. packages' = {packageOf[m] : m \in kept} BY <1>1 DEF Remaining
  <2>3. packageOf = [m \in kept |-> packageOf[m]] OBVIOUS
  <2> HIDE DEF packageOf, kept
  <2> QED BY <2>1, <2>2, <2>3, FiniteRange
<1>13. \A k \in packages' : \E m \in made : k = m.package /\ ~m.expired
  BY <1>1 DEF Remaining
<1>14. /\ queue' \in [1 .. Cardinality(due) -> due]
       /\ \A i, j \in DOMAIN queue' : queue'[i] = queue'[j] => i = j
  BY <1>1
<1>15. queue' \in Seq(Calls) BY <1>8, <1>11, <1>14, SeqDef
<1>16. \A i \in DOMAIN queue' : queue'[i] \in due BY <1>14
<1>17. \A i \in DOMAIN queue' : \E l \in packages : queue'[i] \in Inv(l).call
  BY <1>6, <1>9, <1>16
<1>18. \A k \in packages' : \E l \in packages : k = Inv(l).package /\ ~Inv(l).expired
  BY <1>6, <1>13
<1> QED BY <1>12, <1>14, <1>15, <1>17, <1>18 DEF Inv

LEMMA UpdateKeeps ==
    ASSUME PnInv, NEW p \in Reports, Update(p, TRUE)
    PROVE  PnInv'
<1> DEFINE Inv(l) == CreateInvocation(l.watch, l, p)
<1>1. /\ queue = <<>> /\ progress' = {p} /\ UNCHANGED <<commits, firstCalls, told, waitsFor>>
  BY DEF Update
<1>2. /\ IsFiniteSet(packages') /\ queue' \in Seq(Calls)
      /\ \A k \in packages' : \E l \in packages : k = Inv(l).package /\ ~Inv(l).expired
      /\ \A i \in DOMAIN queue' : \E l \in packages : queue'[i] \in Inv(l).call
      /\ \A i, j \in DOMAIN queue' : queue'[i] = queue'[j] => i = j
  BY UpdateMakes
<1> DEFINE Invoked(l, m) ==
      LET w == l.watch
      IN /\ m.package \in Packages /\ m.package.watch = w /\ m.package.version = l.version
         /\ m.call \in SUBSET Calls
         /\ \A c \in m.call : c.watch = w /\ m.call = {c}
         /\ ~w.streaming =>
              /\ \A c \in m.call : /\ c.of = m.package.captured /\ c.at = m.package.at
                                   /\ Final(c) <=> m.expired
              /\ l.captured # NotCaptured => m.package.captured = l.captured
              /\ ~w.download /\ m.package.captured # NotCaptured =>
                    \/ l.captured # NotCaptured /\ m.package.at = l.at
                    \/ m.package.at >= l.version
<1>3. ASSUME NEW l \in packages PROVE l \in Packages /\ l.watch \in Watches /\ Invoked(l, Inv(l))
  <2>1. l \in Packages /\ l.watch \in Watches BY DEF PnInv, PnTypeOK, Packages
  <2>2. Inv(l) = CreateInvocation(l.watch, l, p) OBVIOUS
  <2> HIDE DEF Inv
  <2> QED BY <2>1, <2>2, Invocation
<1> HIDE DEF Inv
<1>4. \A k, l \in packages : k.watch = l.watch => k = l BY DEF PnInv, RegisteredInv
<1>5. PnTypeOK' BY <1>1, <1>2, <1>3 DEF PnInv, PnTypeOK
\* The package and the calls of a callback come from the package it had.
<1>6. ASSUME NEW l \in packages
      PROVE  /\ \A k \in packages' : k.watch = l.watch => k = Inv(l).package /\ ~Inv(l).expired
             /\ \A i \in DOMAIN queue' : queue'[i].watch = l.watch => queue'[i] \in Inv(l).call
  BY <1>2, <1>3, <1>4
<1>7. ASSUME NEW w \in Watches, \A l \in packages : l.watch # w
      PROVE  /\ \A k \in packages' : k.watch # w
             /\ \A i \in DOMAIN queue' : queue'[i].watch # w
  BY <1>2, <1>3, <1>7
<1>8. RegisteredInv'
  <2>1. ASSUME NEW w \in Watches, waitsFor'[w] = -1
        PROVE  /\ \A k \in packages' : k.watch # w
               /\ \A c \in firstCalls' : c.watch # w
               /\ \A i \in DOMAIN queue' : queue'[i].watch # w
               /\ told'[w] = <<>>
    <3>1. /\ \A l \in packages : l.watch # w
          /\ \A c \in firstCalls : c.watch # w
          /\ told[w] = <<>>
      BY <1>1, <2>1 DEF PnInv, RegisteredInv
    <3> QED BY <1>1, <1>7, <3>1
  <2>2. ASSUME NEW k \in packages', NEW h \in packages', k.watch = h.watch PROVE k = h
    BY <1>2, <1>3, <1>4, <2>2
  <2>3. ASSUME NEW i \in DOMAIN queue', NEW j \in DOMAIN queue', queue'[i].watch = queue'[j].watch
        PROVE  i = j
    <3>1. PICK l \in packages : queue'[i] \in Inv(l).call BY <1>2
    <3>2. queue'[i].watch = l.watch /\ Inv(l).call = {queue'[i]} BY <1>3, <3>1
    <3>3. queue'[j] \in Inv(l).call BY <1>6, <2>3, <3>2
    <3>4. queue'[i] = queue'[j] BY <3>2, <3>3
    <3> QED BY <1>2, <3>4
  <2>4. \A c, d \in firstCalls' : c.watch = d.watch => c = d BY <1>1 DEF PnInv, RegisteredInv
  <2> QED BY <2>1, <2>2, <2>3, <2>4 DEF RegisteredInv
<1>9. ASSUME NEW w \in Watches PROVE MeasuredInv(w)'
  <2>1. CASE \A l \in packages : l.watch # w
    <3>1. /\ \A k \in packages' : k.watch # w
          /\ \A i \in DOMAIN queue' : queue'[i].watch # w
      BY <1>7, <2>1
    <3>2. Due(w)' \subseteq Due(w) BY <3>1 DEF Due
    <3>3. First(w)' \subseteq First(w) BY <1>1 DEF First
    <3>4. told'[w] = told[w] /\ waitsFor'[w] = waitsFor[w] BY <1>1
    <3>5. MeasuredInv(w) BY DEF PnInv
    <3> QED BY <3>1, <3>2, <3>3, <3>4, <3>5, Undisturbed
  <2>2. CASE w.streaming BY <2>2 DEF MeasuredInv
  <2>3. ASSUME NEW l \in packages, l.watch = w, ~w.streaming PROVE MeasuredInv(w)'
    <3> DEFINE m == Inv(l)
               old == Said(w) \cup First(w)
    <3>1. Said(w)' = Said(w) /\ First(w)' = First(w) BY <1>1 DEF Said, First
    <3>2. \A c \in Due(w)' : c \in m.call BY <1>6, <2>3 DEF Due
    <3>3. /\ m.package.version = l.version
          /\ \A c \in m.call : /\ c.of = m.package.captured /\ c.at = m.package.at
                               /\ Final(c) <=> m.expired
                               /\ m.call = {c}
          /\ l.captured # NotCaptured => m.package.captured = l.captured
          /\ ~w.download /\ m.package.captured # NotCaptured =>
                \/ l.captured # NotCaptured /\ m.package.at = l.at
                \/ m.package.at >= l.version
      BY <1>3, <2>3
    <3>4. \A k \in packages' : k.watch = w => k = m.package /\ ~m.expired BY <1>6, <2>3
    <3>5. AmountInv(w) /\ DoneInv(w) BY <2>3 DEF PnInv, MeasuredInv
    <3>6. /\ \A c, d \in old : c.of = d.of
          /\ ~w.download => \A c \in old : c.at >= waitsFor[w]
          /\ \A c \in old : c.of = l.captured
          /\ l.version = waitsFor[w]
          /\ l.captured # NotCaptured /\ ~w.download => l.at >= l.version
      BY <2>3, <3>5 DEF AmountInv
    <3>7. /\ \A i, j \in DOMAIN told[w] : Final(told[w][i]) /\ Final(told[w][j]) => i = j
          /\ \A c \in old : ~Final(c)
      BY <2>3, <3>5 DEF DoneInv
    <3>8. \A c \in old : c.of # NotCaptured
      <4>1. \A c \in old : c.of \in Nat
        <5>1. \A i \in DOMAIN told[w] : told[w][i] \in Amounts
          <6>1. told[w] \in Seq(Amounts) BY DEF PnInv, PnTypeOK
          <6> QED BY <6>1, LenProperties
        <5>2. \A c \in firstCalls : c \in Calls BY DEF PnInv, PnTypeOK
        <5> QED BY <5>1, <5>2 DEF Said, First, Amounts, Calls
      <4> QED BY <4>1 DEF NotCaptured
    <3>9. \A c \in m.call : c.of # NotCaptured
      <4>1. m.call \in SUBSET Calls BY <1>3
      <4> QED BY <4>1 DEF Calls, NotCaptured
    <3> HIDE DEF m, old
    <3>10. \A c \in old : c.of = m.package.captured BY <3>3, <3>6, <3>8
    <3>11. \A c \in Due(w)' : /\ c.of = m.package.captured
                              /\ ~w.download => c.at >= waitsFor[w]
      BY <3>2, <3>3, <3>6, <3>9
    <3>12. Said(w)' \cup Due(w)' \cup First(w)' = old \cup Due(w)' BY <3>1 DEF old
    <3>13. AmountInv(w)'
      <4>1. waitsFor' = waitsFor BY <1>1
      <4>2. /\ \A c, d \in old \cup Due(w)' : c.of = d.of
            /\ ~w.download => \A c \in old \cup Due(w)' : c.at >= waitsFor[w]
            /\ \A c \in old \cup Due(w)' : c.of = m.package.captured
            /\ m.package.version = waitsFor[w]
            /\ m.package.captured # NotCaptured /\ ~w.download =>
                  m.package.at >= m.package.version
        BY <3>3, <3>6, <3>10, <3>11
      <4> QED BY <3>4, <3>12, <4>1, <4>2 DEF AmountInv
    <3>14. DoneInv(w)'
      <4>1. \A c \in Said(w)' \cup First(w)' : ~Final(c) BY <3>1, <3>7 DEF old
      <4>2. \A i, j \in DOMAIN told'[w] : Final(told'[w][i]) /\ Final(told'[w][j]) => i = j
        BY <1>1, <3>7
      <4>3. \A k \in packages' : k.watch = w =>
              \A c \in Said(w)' \cup Due(w)' \cup First(w)' : ~Final(c)
        BY <3>2, <3>3, <3>4, <4>1
      <4> QED BY <4>1, <4>2, <4>3 DEF DoneInv
    <3> QED BY <3>13, <3>14 DEF MeasuredInv
  <2> QED BY <2>1, <2>2, <2>3
<1> QED BY <1>5, <1>8, <1>9 DEF PnInv

-----------------------------------------------------------------------------
(* The theorem.                                                            *)

LEMMA PnInitially == ProgressNotifierInit => PnInv
<1> SUFFICES ASSUME ProgressNotifierInit PROVE PnInv OBVIOUS
<1>1. PnTypeOK
  <2>1. <<>> \in Seq(Calls) /\ <<>> \in Seq(Amounts) BY EmptySeq
  <2>2. IsFiniteSet({}) BY FS_EmptySet
  <2> QED BY <2>1, <2>2 DEF ProgressNotifierInit, PnTypeOK
<1>2. RegisteredInv BY DEF ProgressNotifierInit, RegisteredInv
<1>3. ASSUME NEW w \in Watches PROVE MeasuredInv(w)
  <2>1. Said(w) = {} /\ Due(w) = {} /\ First(w) = {} /\ packages = {} /\ DOMAIN told[w] = {}
    BY DEF ProgressNotifierInit, Said, Due, First
  <2> QED BY <2>1 DEF MeasuredInv, AmountInv, DoneInv
<1> QED BY <1>1, <1>2, <1>3 DEF PnInv

LEMMA PnInvKept == PnInv /\ [ProgressNotifierNext]_pnVars => PnInv'
<1> SUFFICES ASSUME PnInv, [ProgressNotifierNext]_pnVars PROVE PnInv' OBVIOUS
<1>1. commits \in Nat BY DEF PnInv, PnTypeOK
<1>2. ASSUME NEW w \in Watches, RegisterCallback(w) PROVE PnInv' BY <1>2, RegisterKeeps
<1>3. ASSUME NEW w \in Watches, UnregisterCallback(w) PROVE PnInv' BY <1>3, UnregisterKeeps
<1>4. ASSUME NEW p \in Reports, Update(p, TRUE) PROVE PnInv' BY <1>4, UpdateKeeps
<1>5. ASSUME NEW p \in Reports, Update(p, FALSE) PROVE PnInv'
  <2>1. UNCHANGED <<packages, queue, firstCalls, told, waitsFor, progress, commits>>
    BY <1>5 DEF Update
  <2> QED BY <1>1, <2>1, QuietKeeps
<1>6. CASE UpdateCalls BY <1>6, UpdateCallsKeeps
<1>7. ASSUME NEW c \in firstCalls, RegistrationCalls(c) PROVE PnInv'
  BY <1>7, RegistrationCallsKeeps
<1>8. CASE SetLocalVersion BY <1>1, <1>8, QuietKeeps DEF SetLocalVersion
<1>9. CASE UNCHANGED pnVars BY <1>1, <1>9, QuietKeeps DEF pnVars
<1> QED BY <1>2, <1>3, <1>4, <1>5, <1>6, <1>7, <1>8, <1>9 DEF ProgressNotifierNext

LEMMA PnInvMeasures == PnInv => MeasuredOnce
<1> SUFFICES ASSUME PnInv, NEW w \in Watches, ~w.streaming
             PROVE  /\ \A i, j \in DOMAIN told[w] : told[w][i].of = told[w][j].of
                    /\ Cardinality({i \in DOMAIN told[w] : told[w][i].done >= told[w][i].of}) <= 1
                    /\ ~w.download => \A i \in DOMAIN told[w] : told[w][i].at >= waitsFor[w]
  BY DEF MeasuredOnce
<1>1. AmountInv(w) /\ DoneInv(w) BY DEF PnInv, MeasuredInv
<1>2. \A i \in DOMAIN told[w] : told[w][i] \in Said(w) BY DEF Said
<1> DEFINE D == {i \in DOMAIN told[w] : told[w][i].done >= told[w][i].of}
<1>3. \A i, j \in D : i = j BY <1>1 DEF DoneInv, Final
<1>4. Cardinality(D) <= 1
  <2> HIDE DEF D
  <2>1. CASE D = {} BY <2>1, FS_EmptySet
  <2>2. CASE D # {}
    <3>1. PICK i : D = {i} BY <1>3, <2>2
    <3>2. Cardinality({i}) = 1 BY FS_Singleton
    <3> QED BY <3>1, <3>2
  <2> QED BY <2>1, <2>2
<1> QED BY <1>1, <1>2, <1>4 DEF AmountInv

\* Registering a progress callback, unregistering it, reports, the calls they make and
\* local commits may interleave in any way: a callback that is not streaming is told one
\* amount, hears at most once that it is done, and an upload is measured by a report that
\* knows the local commits made before it was registered.
THEOREM ProgressIsMeasuredOnce == ProgressNotifierSpec => []MeasuredOnce
<1>1. ProgressNotifierSpec => []PnInv
  BY PnInitially, PnInvKept, PTL DEF ProgressNotifierSpec
<1> QED BY <1>1, PnInvMeasures, PTL
=============================================================================
