------------------------------ MODULE SyncUsers ------------------------------
(***************************************************************************)
(* The users of one app: SyncManager's list of SyncUser objects, the       *)
(* tokens and states they keep in memory, and the metadata Realm in which  *)
(* they are persisted, one transaction per setter. A process may die       *)
(* between any two transactions and starts again from what is persisted.   *)
(*                                                                         *)
(* An operation is a function from a world to a world. A world is the      *)
(* memory, the disk, and the trail of all disks that the operation left    *)
(* behind on its way: dying in an operation leaves one of them.            *)
(***************************************************************************)
EXTENDS Integers, Sequences, FiniteSets, SequencesExt

CONSTANTS
    Keys,         \* pairs <<identity, provider type>>
    Anonymous,    \* the provider type of anonymous users
    NoIdentity,   \* no current user, and the empty string stored for it
    MaxObjects    \* SyncUser objects made between two starts

ASSUME KeysAssumption == \A k \in Keys : k = <<k[1], k[2]>> /\ k[1] # NoIdentity
ASSUME ObjectsAssumption == MaxObjects \in Nat

VARIABLES
    mem,          \* what dies with the process
    disk          \* the metadata Realm and the users' directories

States == {"LoggedIn", "LoggedOut", "Removed"}
Identity(k) == k[1]
Provider(k) == k[2]
Identities == {Identity(k) : k \in Keys}

(***************************************************************************)
(* Tokens are abstracted to whether they are empty. A user object has      *)
(* either no session, one in m_sessions ("live") or one in                 *)
(* m_waiting_sessions ("waiting").                                         *)
(***************************************************************************)
User == [key : Keys, state : States, access : BOOLEAN, refresh : BOOLEAN,
         identities : BOOLEAN, session : {"none", "live", "waiting"}]

Row == [key : Keys, state : States, access : BOOLEAN, refresh : BOOLEAN,
        identities : BOOLEAN, marked : BOOLEAN]

Down == [up |-> FALSE, objects |-> <<>>, users |-> <<>>, current |-> 0, app |-> FALSE]
EmptyDisk == [rows |-> <<>>, current |-> NoIdentity, app |-> FALSE, directories |-> {}]

World(m, d) == [mem |-> m, disk |-> d, trail |-> {d}]

-----------------------------------------------------------------------------
(* The metadata Realm.                                                     *)

Commit(w, d) == [w EXCEPT !.disk = d, !.trail = @ \cup {d}]

RowsOf(d, k) == {i \in DOMAIN d.rows : d.rows[i].key = k}
HasRow(d, k) == RowsOf(d, k) # {}
RowIndex(d, k) == CHOOSE i \in RowsOf(d, k) : TRUE

\* A new row: the object's defaults are null tokens; the state is LoggedIn.
NewRow(k) == [key |-> k, state |-> "LoggedIn", access |-> FALSE, refresh |-> FALSE,
              identities |-> FALSE, marked |-> FALSE]

\* With make_if_absent: a new row also becomes the current user, a row marked
\* for removal is revived.
GetOrMakeUserMetadata(w, k) ==
    IF ~HasRow(w.disk, k)
    THEN Commit(w, [w.disk EXCEPT !.rows = Append(@, NewRow(k)), !.current = Identity(k)])
    ELSE LET i == RowIndex(w.disk, k)
         IN  IF w.disk.rows[i].marked
             THEN Commit(w, [w.disk EXCEPT !.rows[i].marked = FALSE])
             ELSE w

\* One getter of SyncUserMetadata; a token that was never set reads as empty.
Stored(r, field) == r[field]

\* One setter of SyncUserMetadata.
SetField(w, k, field, value) ==
    LET i == RowIndex(w.disk, k) IN Commit(w, [w.disk EXCEPT !.rows[i][field] = value])

RemoveRow(w, k) ==
    IF HasRow(w.disk, k) /\ ~w.disk.rows[RowIndex(w.disk, k)].marked
    THEN Commit(w, [w.disk EXCEPT !.rows = RemoveAt(@, RowIndex(w.disk, k))])
    ELSE w

SetCurrentUserIdentity(w, id) == Commit(w, [w.disk EXCEPT !.current = id])

\* remove_user asks for the list of unmarked users again in every round of its
\* loop, and each row it marks shortens that list by one.
Unmarked(d) == SelectSeq(d.rows, LAMBDA r : ~r.marked)

MarkForRemoval(w, id) ==
    LET Round(x, i) ==
            IF i > Len(Unmarked(x.disk)) \/ Identity(Unmarked(x.disk)[i].key) # id
            THEN x
            ELSE SetField(x, Unmarked(x.disk)[i].key, "marked", TRUE)
    IN  FoldLeft(Round, w, [i \in 1..Len(w.disk.rows) |-> i])

-----------------------------------------------------------------------------
(* SyncUser.                                                               *)

IsLoggedIn(u) == u.access /\ u.refresh /\ u.state = "LoggedIn"

\* Variant for the mutation check: the access token is not persisted.
NewSyncUserWithoutAccess(w, k, state) ==
    LET u == [key |-> k, state |-> state, access |-> TRUE, refresh |-> TRUE,
              identities |-> FALSE, session |-> "none"]
    IN  SetField(GetOrMakeUserMetadata([w EXCEPT !.mem.objects = Append(@, u)], k),
                 k, "refresh", TRUE)

\* The constructor persists the tokens, not the state.
NewSyncUser(w, k, state) ==
    LET u  == [key |-> k, state |-> state, access |-> TRUE, refresh |-> TRUE,
               identities |-> FALSE, session |-> "none"]
        w1 == GetOrMakeUserMetadata([w EXCEPT !.mem.objects = Append(@, u)], k)
        w2 == SetField(w1, k, "refresh", TRUE)
    IN  SetField(w2, k, "access", TRUE)

SetState(w, o, state) ==
    LET k  == w.mem.objects[o].key
        w1 == GetOrMakeUserMetadata([w EXCEPT !.mem.objects[o].state = state], k)
    IN  SetField(w1, k, "state", state)

\* update_access_token and update_refresh_token: a logged-out user is logged in
\* again and its waiting sessions go back online. The state is not persisted.
UpdateToken(w, o, token) ==
    LET u  == w.mem.objects[o]
        u1 == IF u.state = "LoggedOut"
              THEN [u EXCEPT ![token] = TRUE, !.state = "LoggedIn",
                             !.session = IF @ = "waiting" THEN "live" ELSE @]
              ELSE [u EXCEPT ![token] = TRUE]
        w1 == GetOrMakeUserMetadata([w EXCEPT !.mem.objects[o] = u1], u.key)
    IN  IF u.state = "Removed" THEN w ELSE SetField(w1, u.key, token, TRUE)

\* update_identities and update_user_profile.
UpdateProfile(w, o) ==
    LET k  == w.mem.objects[o].key
        w1 == GetOrMakeUserMetadata([w EXCEPT !.mem.objects[o].identities = TRUE], k)
    IN  SetField(w1, k, "identities", TRUE)

\* SyncManager::log_out_user: the user goes to the end of the list and, if it was
\* the current one, the first user still logged in becomes current.
UsersWithIdentity(m, id) ==
    SelectSeq(m.users, LAMBDA o : Identity(m.objects[o].key) = id)

UserForIdentity(m, id) ==
    IF UsersWithIdentity(m, id) = <<>> THEN 0 ELSE Head(UsersWithIdentity(m, id))

LogOutUser(w, id) ==
    LET o     == UserForIdentity(w.mem, id)
        moved == IF o = 0 THEN w.mem.users
                 ELSE Append(SelectSeq(w.mem.users, LAMBDA p : p # o), o)
        w1    == [w EXCEPT !.mem.users = moved]
        active == \/ w.mem.current # 0 /\ Identity(w.mem.objects[w.mem.current].key) = id
                  \/ w.disk.current = id
        ins   == SelectSeq(moved, LAMBDA p : w.mem.objects[p].state = "LoggedIn")
    IN  IF ~active THEN w1
        ELSE IF ins = <<>>
             THEN [SetCurrentUserIdentity(w1, NoIdentity) EXCEPT !.mem.current = 0]
             ELSE [SetCurrentUserIdentity(w1, Identity(w.mem.objects[Head(ins)].key))
                      EXCEPT !.mem.current = Head(ins)]

\* Variant for the mutation check: the metadata is not updated.
LogOutInMemory(w, o) ==
    LogOutUser([w EXCEPT !.mem.objects[o] =
                  [@ EXCEPT !.state = "LoggedOut", !.access = FALSE, !.refresh = FALSE,
                            !.session = IF @ = "live" THEN "waiting" ELSE @]],
               Identity(w.mem.objects[o].key))

LogOut(w, o) ==
    LET u  == w.mem.objects[o]
        k  == u.key
        w1 == [w EXCEPT !.mem.objects[o] =
                 [u EXCEPT !.state = "LoggedOut", !.access = FALSE, !.refresh = FALSE,
                           !.session = IF @ = "live" THEN "waiting" ELSE @]]
        w2 == SetField(GetOrMakeUserMetadata(w1, k), k, "state", "LoggedOut")
        w3 == SetField(SetField(w2, k, "access", FALSE), k, "refresh", FALSE)
        w4 == LogOutUser(w3, Identity(k))
    IN  IF u.state = "LoggedOut" THEN w
        ELSE IF Provider(k) = Anonymous THEN RemoveRow(SetState(w4, o, "Removed"), k)
        ELSE w4

RegisterSession(w, o) ==
    LET s == w.mem.objects[o].state
    IN  IF s = "Removed" THEN w
        ELSE [Commit(w, [w.disk EXCEPT !.directories =
                                @ \cup {Identity(w.mem.objects[o].key)}])
                EXCEPT !.mem.objects[o].session =
                           IF s = "LoggedIn" THEN "live" ELSE "waiting"]

-----------------------------------------------------------------------------
(* SyncManager.                                                            *)

\* all_users drops removed users from the list before it returns it.
AllUsers(w) ==
    [w EXCEPT !.mem.users = SelectSeq(@, LAMBDA o : w.mem.objects[o].state # "Removed")]

SetCurrentUser(w, id) ==
    SetCurrentUserIdentity([w EXCEPT !.mem.current = UserForIdentity(w.mem, id)], id)

CurrentUser(m, d) == IF m.current # 0 THEN m.current ELSE UserForIdentity(m, d.current)

\* get_user: the object that stands for this user, made if there is none that is
\* not removed. The new or found object is the one UserOf names afterwards.
UserOf(m, k) ==
    LET found == SelectSeq(m.users, LAMBDA o : /\ m.objects[o].key = k
                                               /\ m.objects[o].state # "Removed")
    IN  IF found = <<>> THEN 0 ELSE Head(found)

GetUser(w, k) ==
    LET o == UserOf(w.mem, k)
        n == Len(w.mem.objects) + 1
    IN  IF o = 0
        THEN [NewSyncUser(w, k, "LoggedIn") EXCEPT !.mem.users = <<n>> \o @]
        ELSE SetState(UpdateToken(UpdateToken(w, o, "access"), o, "refresh"), o, "LoggedIn")

RemoveUser(w, id) ==
    LET o == UserForIdentity(w.mem, id)
    IN  IF o = 0 THEN w ELSE MarkForRemoval(SetState(w, o, "Removed"), id)

\* configure, for a process that starts: users with both tokens are loaded with
\* their persisted state; rows marked for removal are deleted with the directories
\* of their identities, except those whose directory is in use.
Restorable(d) ==
    SelectSeq(d.rows, LAMBDA r : ~r.marked /\ Stored(r, "refresh") /\ Stored(r, "access"))

LoadUser(w, r) ==
    LET n  == Len(w.mem.objects) + 1
        w1 == NewSyncUser(w, r.key, Stored(r, "state"))
        is == Stored(r, "identities")
    IN  [SetField(w1, r.key, "identities", is) EXCEPT
            !.mem.objects[n].identities = is, !.mem.users = Append(@, n)]

DeleteMarked(w, busy) ==
    LET dead == SelectSeq(w.disk.rows, LAMBDA r : r.marked /\ Identity(r.key) \notin busy)
        RemoveDirectory(x, r) ==
            Commit(x, [x.disk EXCEPT !.directories = @ \ {Identity(r.key)}])
        RemoveDead(x, r) == Commit(x, [x.disk EXCEPT !.rows = SelectSeq(@, LAMBDA y : y # r)])
    IN  FoldLeft(RemoveDead, FoldLeft(RemoveDirectory, w, dead), dead)

Configure(d, busy) ==
    LET up == [Down EXCEPT !.up = TRUE, !.app = d.app]
    IN  FoldLeft(LoadUser, DeleteMarked(World(up, d), busy), Restorable(d))

=============================================================================
