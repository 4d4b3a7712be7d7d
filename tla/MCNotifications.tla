-------------------------- MODULE MCNotifications --------------------------
(* Instances of Notifications for TLC. *)
EXTENDS Notifications, TLC

CONSTANTS a, b, m, n

OneEach == m :> a @@ n :> b
BothOfA == m :> a @@ n :> a
OneOfA == m :> a

\* Each Realm makes its own calls; others may commit as well.
Program(ca, cb, others, o) ==
    [calls |-> a :> ca @@ b :> cb @@ NoRealm :> others, owner |-> o]
Alone(ca, others, o) == [calls |-> a :> ca @@ NoRealm :> others, owner |-> o]
Commits == {"other_commit"}

\* Observers in two Realms that skip their own writes; collections of one Realm
\* that are read and observed by turns; observers that end.
Skipping == {"add_callback", "write", "suppress_next"}
Changing == {"prepare_async", "add_callback", "remove_callback", "write"}
Ending == {"add_callback", "unregister", "refresh", "write", "cancel"}
Observing == {Program(Skipping, Skipping, Commits, OneEach),
              Program(Changing, {}, {}, BothOfA),
              Program(Ending, {}, Commits, BothOfA)}

\* One observed collection, and everything but suppress_next().
Everything == {Alone(Changing \cup Ending, Commits, OneOfA)}

\* An observer that skips its own writes.
SkipOwnWrites == {Alone(Skipping, {}, OneOfA)}
=============================================================================
