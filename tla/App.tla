-------------------------------- MODULE App --------------------------------
(***************************************************************************)
(* App: logging in and out, linking, switching and removing users, token   *)
(* refresh and authenticated requests. A request in flight is a record of  *)
(* net; its reply is handled by one action, in any order. The first        *)
(* request of all is preceded by the one for the app's location.           *)
(*                                                                         *)
(* Every handler runs to its end (Run) or the process dies in it (Die).    *)
(***************************************************************************)
EXTENDS SyncUsers

CONSTANTS
    MaxCalls,     \* calls of the application
    MaxRequests,  \* requests in flight at once
    MaxCrashes

ASSUME BoundsAssumption == {MaxCalls, MaxRequests, MaxCrashes} \subseteq Nat

VARIABLES
    net,          \* requests that were sent and not yet answered
    calls,        \* how many calls the application made
    crashes,      \* how often the process died
    in,           \* history: users whose log-in was completed and is still wanted
    out,          \* history: users whose log-out was completed, with no log-in since
    late          \* history: a reply was applied to a user logged out in the meantime

appVars == <<mem, disk, net, calls, crashes, in, out, late>>

Objects == DOMAIN mem.objects
Up == mem.up

(***************************************************************************)
(* Kinds of request: "email" (registration, confirmation and passwords,    *)
(* sent without a token), "login" (with the key of the user the server     *)
(* answers with), "link", "profile", "call" (call_function), "keys" (a     *)
(* request with the refresh token), "logout" and "refresh". "then" is what *)
(* follows the answer to a refresh or to a log-out. "first" is FALSE for a *)
(* request sent again after a refresh, whose failures are passed on.       *)
(***************************************************************************)
Request(kind, o, k, then) ==
    [kind |-> kind, user |-> o, key |-> k, then |-> then, first |-> TRUE,
     located |-> mem.app]

NoKey == CHOOSE k \in Keys : TRUE

-----------------------------------------------------------------------------
(* How a handler ends.                                                     *)

Run(w, n) ==
    /\ mem' = w.mem
    /\ disk' = w.disk
    /\ net' = n
    /\ Cardinality(n) <= MaxRequests
    /\ UNCHANGED crashes

\* The process dies after some of the handler's transactions. What the
\* application wanted of user k is then undecided.
Die(w, k) ==
    /\ crashes < MaxCrashes
    /\ mem' = Down
    /\ disk' \in w.trail
    /\ net' = {}
    /\ crashes' = crashes + 1
    /\ in' = in \ {k}
    /\ out' = out \ {k}
    /\ UNCHANGED late

Quiet == UNCHANGED <<in, out, late>>

Init ==
    /\ mem = Down
    /\ disk = EmptyDisk
    /\ net = {}
    /\ calls = 0
    /\ crashes = 0
    /\ in = {}
    /\ out = {}
    /\ late = FALSE

\* App::configure and SyncManager::configure.
Start ==
    /\ ~Up
    /\ \E busy \in SUBSET Identities :
         LET w == Configure(disk, busy)
         IN  \/ Run(w, {}) /\ Quiet
             \/ /\ crashes < MaxCrashes
                /\ disk' \in w.trail
                /\ crashes' = crashes + 1
                /\ UNCHANGED <<mem, net, in, out, late>>
    /\ UNCHANGED calls

-----------------------------------------------------------------------------
(* Calls of the application.                                               *)

Known(w, o) == o \in ToSet(w.mem.users)

Switched(w, o) == SetCurrentUser(w, Identity(w.mem.objects[o].key))

LogInWithCredentials(k) ==
    LET w     == IF Provider(k) = Anonymous THEN AllUsers(World(mem, disk)) ELSE World(mem, disk)
        reuse == SelectSeq(w.mem.users, LAMBDA o : /\ Provider(mem.objects[o].key) = Anonymous
                                                   /\ IsLoggedIn(mem.objects[o]))
    IN  /\ Up
        /\ calls < MaxCalls
        /\ calls' = calls + 1
        /\ Quiet
        /\ IF Provider(k) = Anonymous /\ reuse # <<>>
           THEN Run(Switched(w, Head(reuse)), net)
           ELSE Run(w, net \cup {Request("login", 0, k, "profile")})

SwitchUser(o) ==
    LET w == AllUsers(World(mem, disk))
    IN  /\ Up
        /\ mem.objects[o].state = "LoggedIn"
        /\ Run(IF Known(w, o) THEN Switched(w, o) ELSE w, net)
        /\ Quiet

\* App::log_out. The user is logged out before the server is asked.
AppLogOut(w, o, then) ==
    LET k == mem.objects[o].key
        x == LogOut(w, o)
    IN  \/ /\ Run(x, net \cup {Request("logout", o, k, then)})
           /\ in' = in \ {k}
           /\ out' = out \cup {k}
           /\ UNCHANGED late
        \/ Die(x, k)

LogOutCall(o) ==
    /\ Up
    /\ mem.objects[o].state = "LoggedIn"
    /\ AppLogOut(World(mem, disk), o, "done")

RemoveUserCall(o) ==
    LET w == AllUsers(World(mem, disk))
        k == mem.objects[o].key
        x == RemoveUser(w, Identity(k))
    IN  /\ Up
        /\ mem.objects[o].state # "Removed"
        /\ Known(w, o)
        /\ IF IsLoggedIn(mem.objects[o])
           THEN AppLogOut(w, o, "remove")
           ELSE \/ Run(x, net) /\ in' = in \ {k} /\ UNCHANGED <<out, late>>
                \/ Die(x, k)

LinkUser(o) ==
    LET w == AllUsers(World(mem, disk))
    IN  /\ Up
        /\ mem.objects[o].state = "LoggedIn"
        /\ Known(w, o)
        /\ Run(w, net \cup {Request("link", o, NoKey, "profile")})
        /\ Quiet

\* The requests of UsernamePasswordProviderClient. No user is involved.
EmailClient ==
    /\ Up
    /\ calls < MaxCalls
    /\ calls' = calls + 1
    /\ Run(World(mem, disk), net \cup {Request("email", 0, NoKey, "done")})
    /\ Quiet

\* refresh_custom_data, call_function and the requests about API keys.
RefreshCustomData(o) ==
    /\ Up
    /\ IsLoggedIn(mem.objects[o])
    /\ Run(World(mem, disk), net \cup {Request("refresh", o, NoKey, "done")})
    /\ Quiet

CallFunction(o) ==
    /\ Up
    /\ Run(World(mem, disk), net \cup {Request("call", o, NoKey, "done")})
    /\ Quiet

ApiKeys(o) ==
    /\ Up
    /\ Run(World(mem, disk), net \cup {Request("keys", o, NoKey, "done")})
    /\ Quiet

\* A Realm of this user is opened: SyncManager::get_session registers its session.
OpenRealm(o) ==
    /\ Up
    /\ mem.objects[o].session = "none"
    /\ Run(RegisterSession(World(mem, disk), o), net)
    /\ Quiet

-----------------------------------------------------------------------------
(* Replies.                                                                *)

\* Whether the reply of request r is applied to a user that is logged out by now or,
\* for a removal, that has logged in again.
Stale(r) ==
    IF r.then = "remove"
    THEN \E o \in ToSet(UsersWithIdentity(mem, Identity(r.key))) : IsLoggedIn(mem.objects[o])
    ELSE r.user # 0 /\ ~IsLoggedIn(mem.objects[r.user])

NextRequest(r, kind, then) ==
    [r EXCEPT !.kind = kind, !.then = then, !.located = mem.app, !.first = TRUE]

\* do_request: the location of the app comes first if it is not yet known. A reply
\* that cannot be read is handed to the request's own handler: a log-in fails, a
\* log-out is completed although the server was not asked.
LocationReply(r) ==
    LET rest == net \ {r}
        w    == Commit(World(mem, disk), [disk EXCEPT !.app = TRUE])
    IN  /\ Up
        /\ ~r.located
        /\ \/ /\ Run([w EXCEPT !.mem.app = TRUE], rest \cup {[r EXCEPT !.located = TRUE]})
              /\ Quiet
           \/ /\ Run(IF r.then = "remove"
                     THEN RemoveUser(World(mem, disk), Identity(r.key))
                     ELSE World(mem, disk), rest)
              /\ in' = IF r.then = "remove" THEN in \ {r.key} ELSE in
              /\ late' = (r.then = "remove" /\ Stale(r))
              /\ UNCHANGED out

\* The handler of log_in_with_credentials, without and with a user to link. It goes
\* on with get_profile.
LogInReply(r) ==
    LET w == GetUser(World(mem, disk), r.key)
        o == UserOf(w.mem, r.key)
    IN  /\ Up
        /\ r.kind = "login"
        /\ r.located
        /\ Len(mem.objects) < MaxObjects
        /\ \/ /\ Run(w, (net \ {r}) \cup {[NextRequest(r, "profile", "done") EXCEPT !.user = o]})
              /\ out' = out \ {r.key}
              /\ UNCHANGED <<in, late>>
           \/ Die(w, r.key)

LinkReply(r) ==
    LET w == UpdateToken(World(mem, disk), r.user, "access")
    IN  /\ Up
        /\ r.kind = "link"
        /\ r.located
        /\ Run(w, (net \ {r}) \cup {NextRequest(r, "profile", "done")})
        /\ late' = Stale(r)
        /\ UNCHANGED <<in, out>>

\* The profile handler: identities, profile, state and the current user.
ProfileReply(r) ==
    LET k == mem.objects[r.user].key
        w == SetCurrentUser(SetState(UpdateProfile(World(mem, disk), r.user),
                                     r.user, "LoggedIn"), Identity(k))
    IN  /\ Up
        /\ r.kind = "profile"
        /\ r.located
        /\ \/ /\ Run(w, net \ {r})
              /\ in' = IF Stale(r) THEN in ELSE in \cup {k}
              /\ late' = Stale(r)
              /\ UNCHANGED out
           \/ ~Stale(r) /\ Die(w, k)

\* refresh_access_token's handler. What was waiting for the token is sent again,
\* outside do_authenticated_request.
RefreshReply(r) ==
    LET w == UpdateToken(World(mem, disk), r.user, "access")
    IN  /\ Up
        /\ r.kind = "refresh"
        /\ r.located
        /\ Run(w, (net \ {r}) \cup
                  IF r.then = "done" THEN {}
                  ELSE {[NextRequest(r, r.then, "done") EXCEPT !.first = FALSE]})
        /\ late' = Stale(r)
        /\ UNCHANGED <<in, out>>

\* handle_auth_failure: a request with the access token refreshes it first; one with
\* the refresh token logs the user out.
Unauthorized(r) ==
    LET rest == net \ {r}
        k    == mem.objects[r.user].key
        x    == LogOut(World(mem, disk), r.user)
    IN  /\ Up
        /\ r.located
        /\ r.kind \in {"profile", "call", "keys"}
        /\ r.first
        /\ IF r.kind # "keys"
           THEN /\ Run(World(mem, disk), IF IsLoggedIn(mem.objects[r.user])
                                         THEN rest \cup {NextRequest(r, "refresh", r.kind)}
                                         ELSE rest)
                /\ Quiet
           ELSE IF IsLoggedIn(mem.objects[r.user])
           THEN \/ /\ Run(x, rest)
                   /\ in' = in \ {k}
                   /\ out' = out \cup {k}
                   /\ UNCHANGED late
                \/ Die(x, k)
           ELSE Run(World(mem, disk), rest) /\ Quiet

\* The reply to a log-out, with or without an error; remove_user goes on here.
LogOutReply(r) ==
    LET w == RemoveUser(World(mem, disk), Identity(r.key))
    IN  /\ Up
        /\ r.kind = "logout"
        /\ r.located
        /\ IF r.then = "remove"
           THEN /\ Run(w, net \ {r})
                /\ in' = in \ {r.key}
                /\ late' = Stale(r)
                /\ UNCHANGED out
           ELSE Run(World(mem, disk), net \ {r}) /\ UNCHANGED <<in, out, late>>

\* Any other request may fail, and a call or a request about keys may succeed:
\* nothing changes but that it is answered.
Answered(r) ==
    /\ Up
    /\ r.located
    /\ r.kind # "logout"
    /\ Run(World(mem, disk), net \ {r})
    /\ Quiet

\* The process dies between two handlers.
Crash ==
    /\ Up
    /\ crashes < MaxCrashes
    /\ mem' = Down
    /\ net' = {}
    /\ crashes' = crashes + 1
    /\ UNCHANGED <<disk, calls, in, out, late>>

Call(o) ==
    /\ \/ SwitchUser(o)
       \/ LogOutCall(o)
       \/ RemoveUserCall(o)
       \/ LinkUser(o)
       \/ RefreshCustomData(o)
       \/ CallFunction(o)
       \/ ApiKeys(o)
       \/ OpenRealm(o)
    /\ calls < MaxCalls
    /\ calls' = calls + 1

Reply(r) ==
    /\ \/ LocationReply(r)
       \/ LogInReply(r)
       \/ LinkReply(r)
       \/ ProfileReply(r)
       \/ RefreshReply(r)
       \/ Unauthorized(r)
       \/ LogOutReply(r)
       \/ Answered(r)
    /\ UNCHANGED calls

\* What follows once a late reply was applied is not explored.
Next ==
    /\ ~late
    /\ \/ Start
       \/ Crash
       \/ EmailClient
       \/ \E k \in Keys : LogInWithCredentials(k)
       \/ \E o \in Objects : Call(o)
       \/ \E r \in net : Reply(r)

Spec == Init /\ [][Next]_appVars

-----------------------------------------------------------------------------
TypeOK ==
    /\ mem.up \in BOOLEAN
    /\ mem.app \in BOOLEAN
    /\ mem.objects \in Seq(User)
    /\ mem.users \in Seq(DOMAIN mem.objects)
    /\ mem.current \in DOMAIN mem.objects \cup {0}
    /\ disk.rows \in Seq(Row)
    /\ disk.current \in Identities \cup {NoIdentity}
    /\ disk.directories \subseteq Identities
    /\ in \subseteq Keys
    /\ out \subseteq Keys

Live(k) == {o \in ToSet(mem.users) : mem.objects[o].key = k /\ IsLoggedIn(mem.objects[o])}

\* A completed log-in survives: as long as nobody logs the user out or removes it, it is
\* logged in whenever the process runs, also after a crash and a restart.
LoginSurvives == (Up /\ ~late) => \A k \in in : Live(k) # {}

\* A completed log-out survives: no restart brings the user back logged in.
LogoutSurvives == (Up /\ ~late) => \A k \in out : Live(k) = {}

\* A user whose log-in is completed is the current user, and is logged in.
LoginMakesCurrent ==
    [][\A k \in in' \ in :
          /\ mem'.current # 0
          /\ mem'.objects[mem'.current].key = k
          /\ IsLoggedIn(mem'.objects[mem'.current])]_appVars

=============================================================================
