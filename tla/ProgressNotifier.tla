--------------------------- MODULE ProgressNotifier ---------------------------
(***************************************************************************)
(* SyncProgressNotifier: the upload and download progress callbacks of a   *)
(* session (sync_session.cpp).                                             *)
(*                                                                         *)
(* The sync client's thread reports progress with update(), other threads  *)
(* register and unregister callbacks and report local commits.  The calls *)
(* to make are collected under the mutex and made after it is released, so *)
(* the calls of a registration and those of an update can be made in any   *)
(* order.                                                                  *)
(***************************************************************************)
EXTENDS Integers, Sequences, FiniteSets

CONSTANTS
    Watches,      \* the callbacks: [id, download, streaming]
    MaxBytes,     \* bound: bytes transferred and transferrable
    MaxUpdates,   \* bound: progress reports
    MaxCommits    \* bound: local transactions

ASSUME WatchesAssumption ==
    /\ IsFiniteSet(Watches)
    /\ \A w \in Watches : w.download \in BOOLEAN /\ w.streaming \in BOOLEAN
ASSUME ProgressBounds == {MaxBytes, MaxUpdates, MaxCommits} \subseteq Nat

VARIABLES
    packages,     \* m_packages: the registered callbacks with what they captured
    progress,     \* m_current_progress, or {}
    commits,      \* m_local_transaction_version
    updates,      \* progress reports so far
    queue,        \* the calls update() has still to make
    firstCalls,   \* the calls of register_callback still to be made
    told,         \* for each callback: the calls made, as [done, of, at]; at is the local
                  \* version known to the report that measured a callback that is not streaming
    waitsFor      \* for each callback: the local version when it was registered, or -1

pnVars == <<packages, progress, commits, updates, queue, firstCalls, told, waitsFor>>

NotCaptured == -1
NoInvocation == {}

\* create_invocation for a package: what it captures, the call, and is it expired?
CreateInvocation(w, package, p) ==
    LET able == IF w.download THEN p.downloadable ELSE p.uploadable
        behind == ~w.download /\ package.version > p.version
        captured == IF w.streaming \/ package.captured # NotCaptured \/ behind
                    THEN package.captured ELSE able
        of == IF w.streaming THEN able ELSE captured
        done == IF w.download THEN p.downloaded ELSE p.uploaded
        silent == ~w.streaming /\ captured = NotCaptured
        at == IF captured = package.captured THEN package.at ELSE p.version
    IN [package |-> [package EXCEPT !.captured = captured, !.at = at],
        call |-> IF silent THEN NoInvocation
                 ELSE {[watch |-> w, done |-> done, of |-> of, at |-> at]},
        expired |-> ~silent /\ ~w.streaming /\ done >= of]

ProgressNotifierInit ==
    /\ packages = {}
    /\ progress = {}
    /\ commits = 0
    /\ updates = 0
    /\ queue = <<>>
    /\ firstCalls = {}
    /\ told = [w \in Watches |-> <<>>]
    /\ waitsFor = [w \in Watches |-> -1]

Made(c) ==
    told' = [told EXCEPT ![c.watch] = Append(@, [done |-> c.done, of |-> c.of, at |-> c.at])]

\* register_callback: with progress known the first call is made at once, after the mutex.
RegisterCallback(w) ==
    LET package == [watch |-> w, captured |-> NotCaptured, version |-> commits,
                at |-> -1]
    IN /\ waitsFor[w] = -1
       /\ waitsFor' = [waitsFor EXCEPT ![w] = commits]
       /\ \/ /\ progress = {}
             /\ packages' = packages \cup {package}
             /\ UNCHANGED firstCalls
          \/ \E p \in progress :
                LET first == CreateInvocation(w, package, p)
                IN /\ packages' = IF first.expired THEN packages
                                  ELSE packages \cup {first.package}
                   /\ firstCalls' = firstCalls \cup first.call
       /\ UNCHANGED <<progress, commits, updates, queue, told>>

UnregisterCallback(w) ==
    /\ \E package \in packages : package.watch = w
    /\ packages' = {package \in packages : package.watch # w}
    /\ UNCHANGED <<progress, commits, updates, queue, firstCalls, told, waitsFor>>

\* Variant for the mutation check: an expired package stays registered.
RemainingAll(made) == {m.package : m \in made}

Remaining(made) == {m.package : m \in {n \in made : ~n.expired}}

\* update: the packages are met in no particular order; reports that precede the first
\* DOWNLOAD message are ignored.
Update(p, received) ==
    LET made == {CreateInvocation(package.watch, package, p) : package \in packages}
        due == UNION {m.call : m \in made}
    IN /\ queue = <<>> /\ updates < MaxUpdates
       /\ updates' = updates + 1
       /\ IF ~received THEN UNCHANGED <<progress, packages, queue>>
          ELSE /\ progress' = {p}
               /\ packages' = Remaining(made)
               /\ queue' \in {s \in [1 .. Cardinality(due) -> due] :
                                \A i, j \in DOMAIN s : i # j => s[i] # s[j]}
       /\ UNCHANGED <<commits, firstCalls, told, waitsFor>>

\* What the sync client reports: transferred never exceeds transferrable, and no local
\* version it has not been told of.
Reports == {p \in [downloaded : 0 .. MaxBytes, downloadable : 0 .. MaxBytes,
                   uploaded : 0 .. MaxBytes, uploadable : 0 .. MaxBytes, version : 0 .. MaxCommits] :
              /\ p.downloaded <= p.downloadable /\ p.uploaded <= p.uploadable}

UpdateCalls ==
    /\ queue # <<>>
    /\ queue' = Tail(queue)
    /\ Made(Head(queue))
    /\ UNCHANGED <<packages, progress, commits, updates, firstCalls, waitsFor>>

RegistrationCalls(c) ==
    /\ firstCalls' = firstCalls \ {c}
    /\ Made(c)
    /\ UNCHANGED <<packages, progress, commits, updates, queue, waitsFor>>

\* nonsync_transact_notify: a local commit.
SetLocalVersion ==
    /\ commits < MaxCommits
    /\ commits' = commits + 1
    /\ UNCHANGED <<packages, progress, updates, queue, firstCalls, told, waitsFor>>

ProgressNotifierNext ==
    \/ \E w \in Watches : RegisterCallback(w) \/ UnregisterCallback(w)
    \/ \E p \in Reports : p.version <= commits /\ Update(p, TRUE)
    \/ \E p \in Reports : Update(p, FALSE)
    \/ UpdateCalls
    \/ \E c \in firstCalls : RegistrationCalls(c)
    \/ SetLocalVersion

ProgressNotifierSpec == ProgressNotifierInit /\ [][ProgressNotifierNext]_pnVars

\* A callback that is not streaming is told one amount to transfer for as long as it
\* lives, it is told at most once that all of it is done, and an upload is never
\* measured by a report that does not know the local commits made before the callback
\* was registered.
MeasuredOnce ==
    \A w \in Watches : ~w.streaming =>
       /\ \A i, j \in DOMAIN told[w] : told[w][i].of = told[w][j].of
       /\ Cardinality({i \in DOMAIN told[w] : told[w][i].done >= told[w][i].of}) <= 1
       /\ ~w.download => \A i \in DOMAIN told[w] : told[w][i].at >= waitsFor[w]
=============================================================================
