------------------------------ MODULE Accounts ------------------------------
(***************************************************************************)
(* AuthService's accounts (service/login/mod.rs): registration with the    *)
(* first-user exemption, password login and deletion, over the             *)
(* InMemoryUserDatabase (database/memory.rs), the assignment store and the *)
(* two rate limiters of LoginRateLimiter.                                  *)
(*                                                                         *)
(* A call takes one step per await.  Syntax checks of names and passwords, *)
(* and the refusal of password logins by policy, come first and change     *)
(* nothing; a password is right or wrong.  Accounts are looked up by the   *)
(* exact name, while the names that differ in case share one limiter key.  *)
(***************************************************************************)
EXTENDS LoginRateLimiter

CONSTANTS
    UserIds,        \* fresh uuids
    Usernames,      \* trimmed user names
    Normalise,      \* to_lowercase: user name -> limiter key
    LoginNames,     \* the user names login attempts are made with
    Calls,          \* concurrent calls
    AutoAdmin       \* with_auto_admin_first_user

ASSUME AccountsAssumption ==
    /\ Limiters = {"login", "register"}
    /\ Normalise \in [Usernames -> Names] /\ LoginNames \subseteq Usernames
    /\ UserIds # {} /\ Usernames # {} /\ AutoAdmin \in BOOLEAN

VARIABLES
    users,      \* user name -> id
    role,       \* id -> the role assigned at registration
    created,    \* ghost: the ids create_user has seen
    latch,      \* has_first_user
    call        \* the calls in flight

vars == <<entries, lockedAt, now, users, role, created, latch, call>>

Call == [at : {"idle", "find", "latch", "count", "create", "assign", "settle",
               "authenticate", "clear"},
         name : Usernames, id : UserIds, first : BOOLEAN]

TypeOK ==
    /\ LimiterTypeOK
    /\ DOMAIN users \subseteq Usernames
    /\ \A n \in DOMAIN users : users[n] \in created
    /\ \A n, m \in DOMAIN users : users[n] = users[m] => n = m
    /\ role \in [UserIds -> {"none", "first_user_role", "default_role"}]
    /\ created \subseteq UserIds
    /\ latch \in BOOLEAN
    /\ call \in [Calls -> Call]

NoCall == [at |-> "idle", name |-> CHOOSE n \in Usernames : TRUE,
           id |-> CHOOSE i \in UserIds : TRUE, first |-> FALSE]

Init ==
    /\ LimiterInit
    /\ users = [n \in {} |-> 0]
    /\ role = [i \in UserIds |-> "none"]
    /\ created = {}
    /\ latch = FALSE
    /\ call = [c \in Calls |-> NoCall]

Idle(c) == call[c].at = "idle"
Become(c, rec) == call' = [call EXCEPT ![c] = rec]
Goto(c, at) == Become(c, [call[c] EXCEPT !.at = at])
Return(c) == Become(c, NoCall)

-----------------------------------------------------------------------------
(* register: the limiter first; refused, the call is over. *)
Register(c, n) ==
    /\ Idle(c)
    /\ Admit("register", Normalise[n])
    /\ Become(c, [NoCall EXCEPT !.at = "find", !.name = n])
    /\ UNCHANGED <<users, role, created, latch>>

RegisterRefused(n) ==
    /\ Refuse("register", Normalise[n])
    /\ UNCHANGED <<users, role, created, latch, call>>

(* register_impl: find_by_username, and Err for a name that is taken. *)
FindByUsername(c) ==
    /\ call[c].at = "find"
    /\ IF call[c].name \in DOMAIN users THEN Return(c) ELSE Goto(c, "latch")
    /\ UNCHANGED <<limiterVars, users, role, created, latch>>

(* A plausible slip: the latch is read here and set by nobody. *)
LoadLatch(c) ==
    /\ call[c].at = "latch"
    /\ IF AutoAdmin /\ ~latch THEN Goto(c, "count") ELSE Goto(c, "create")
    /\ UNCHANGED <<limiterVars, users, role, created, latch>>

(* has_first_user.swap(true), evaluated only with the exemption on; the    *)
(* caller that found it false goes on to count the users.                  *)
SwapLatch(c) ==
    /\ call[c].at = "latch"
    /\ latch' = (latch \/ AutoAdmin)
    /\ IF AutoAdmin /\ ~latch THEN Goto(c, "count") ELSE Goto(c, "create")
    /\ UNCHANGED <<limiterVars, users, role, created>>

CountUsers(c) ==
    /\ call[c].at = "count"
    /\ Become(c, [call[c] EXCEPT !.at = "create", !.first = (DOMAIN users = {})])
    /\ UNCHANGED <<limiterVars, users, role, created, latch>>

(* create_user checks the name again under its write lock. *)
CreateUser(c, i) ==
    /\ call[c].at = "create"
    /\ call[c].name \notin DOMAIN users
    /\ i \notin created
    /\ users' = [n \in DOMAIN users \cup {call[c].name} |->
                   IF n = call[c].name THEN i ELSE users[n]]
    /\ created' = created \cup {i}
    /\ Become(c, [call[c] EXCEPT !.at = "assign", !.id = i])
    /\ UNCHANGED <<limiterVars, role, latch>>

CreateUserRefused(c) ==
    /\ call[c].at = "create"
    /\ call[c].name \in DOMAIN users
    /\ Return(c)
    /\ UNCHANGED <<limiterVars, users, role, created, latch>>

AssignRole(c) ==
    /\ call[c].at = "assign"
    /\ role' = [role EXCEPT ![call[c].id] =
                  IF call[c].first THEN "first_user_role" ELSE "default_role"]
    /\ Goto(c, "settle")
    /\ UNCHANGED <<limiterVars, users, created, latch>>

(* A successful registration clears its key. *)
Registered(c) ==
    /\ call[c].at = "settle"
    /\ Reset("register", Normalise[call[c].name])
    /\ Return(c)
    /\ UNCHANGED <<users, role, created, latch>>

(* login, login_with_session: the limiter, then the credentials. *)
Login(c, n) ==
    /\ Idle(c)
    /\ Admit("login", Normalise[n])
    /\ Become(c, [NoCall EXCEPT !.at = "authenticate", !.name = n])
    /\ UNCHANGED <<users, role, created, latch>>

LoginRefused(n) ==
    /\ Refuse("login", Normalise[n])
    /\ UNCHANGED <<users, role, created, latch, call>>

(* authenticate_user: an unknown user or a wrong password ends the call. *)
Authenticate(c, right) ==
    /\ call[c].at = "authenticate"
    /\ IF right /\ call[c].name \in DOMAIN users THEN Goto(c, "clear") ELSE Return(c)
    /\ UNCHANGED <<limiterVars, users, role, created, latch>>

(* ... and a right one clears the key.  The token that follows is in       *)
(* JwtRevocation.                                                          *)
Authenticated(c) ==
    /\ call[c].at = "clear"
    /\ Reset("login", Normalise[call[c].name])
    /\ Return(c)
    /\ UNCHANGED <<users, role, created, latch>>

(* The database or the assignment store returns Err. *)
StoreFails(c) ==
    /\ call[c].at \in {"find", "count", "create", "assign", "authenticate"}
    /\ Return(c)
    /\ UNCHANGED <<limiterVars, users, role, created, latch>>

(* delete_user's database half. *)
DeleteUser(n) ==
    /\ n \in DOMAIN users
    /\ users' = [m \in DOMAIN users \ {n} |-> users[m]]
    /\ UNCHANGED <<limiterVars, role, created, latch, call>>

(* The database outlives the process; the latch and the limiters do not. *)
Restart ==
    /\ latch' = FALSE
    /\ call' = [c \in Calls |-> NoCall]
    /\ Forget
    /\ UNCHANGED <<users, role, created>>

Tick ==
    /\ Elapse
    /\ UNCHANGED <<users, role, created, latch, call>>

Step(c) ==
    \/ \E n \in Usernames : Register(c, n)
    \/ \E n \in LoginNames : Login(c, n)
    \/ FindByUsername(c) \/ SwapLatch(c) \/ CountUsers(c)
    \/ \E i \in UserIds : CreateUser(c, i)
    \/ CreateUserRefused(c) \/ AssignRole(c) \/ Registered(c)
    \/ \E right \in BOOLEAN : Authenticate(c, right)
    \/ Authenticated(c) \/ StoreFails(c)

Next ==
    \/ \E c \in Calls : Step(c)
    \/ \E n \in Usernames : RegisterRefused(n) \/ DeleteUser(n)
    \/ \E n \in LoginNames : LoginRefused(n)
    \/ Restart
    \/ Tick

Spec == Init /\ [][Next]_vars

-----------------------------------------------------------------------------
(* Properties *)

(* No two accounts ever hold the first user's role, whatever registrations *)
(* run at once, fail, or follow a restart that has lost the latch          *)
(* (register_impl: "it can only ever hand out one first-user role").       *)
OneFirstUser ==
    \A n, m \in DOMAIN users :
      (role[users[n]] = "first_user_role" /\ role[users[m]] = "first_user_role")
        => n = m

(* The inductive strengthening: the call that won the latch is alone, and  *)
(* while it has not assigned its role no account holds it.                 *)
Winner(c) == call[c].at = "count" \/ call[c].first

FirstUser(n) == role[users[n]] = "first_user_role"

AccountsInv ==
    /\ TypeOK
    /\ \A c \in Calls : call[c].first => call[c].at \in {"create", "assign", "settle"}
    /\ \A c \in Calls : Winner(c) => latch
    /\ \A c, d \in Calls : Winner(c) /\ Winner(d) => c = d
    /\ \A i \in UserIds : role[i] # "none" => i \in created
    /\ \A c \in Calls : call[c].at = "assign" => call[c].id \in created
    /\ \A c \in Calls : (call[c].first /\ call[c].at = "create") =>
         \A n \in DOMAIN users : ~FirstUser(n)
    /\ \A c \in Calls : (call[c].first /\ call[c].at = "assign") =>
         \A n \in DOMAIN users : FirstUser(n) => users[n] = call[c].id
    /\ OneFirstUser

(* AuthService: "the first account that is registered against an empty     *)
(* user table receives first_user_role", since it "must be able to         *)
(* administer the install": with the exemption on, once an account has the *)
(* default role and no call is under way, the first user's role has been   *)
(* handed out.                                                             *)
InstallHasAdministrator ==
    (/\ AutoAdmin
     /\ \E i \in created : role[i] = "default_role"
     /\ \A c \in Calls : call[c].at = "idle")
      => \E i \in created : role[i] = "first_user_role"
=============================================================================
