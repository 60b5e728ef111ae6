------------------------------ MODULE LoginFlow ------------------------------
(* AuthService's logins with a session, and what ends them: login, login_with_session,
   change_password, delete_user and logout (service/login/mod.rs) over the user database,
   the assignment store, the RBAC session manager and JwtManager's revocations.  One
   account; a call takes one step per await, and any awaited store may fail.

   A revocation is a "not before" second per user and per session.  The clock is read
   before the backend is awaited, and the call goes on to the user database or the session
   manager afterwards, also when the table has lost the write.  What is not here is in
   other modules: the lookups of a verification, failed reads, cleanup, the memory map's
   cap and restarts in JwtRevocation, the rate limiter in Accounts, the expiry of sessions
   and their mass revocation in SessionManager. *)
EXTENDS Naturals, FiniteSets

CONSTANTS
    LoginCalls,     \* concurrent calls
    Passwords,      \* passwords in play: records [text, len, upper, lower, digit, special]
    FirstPassword,  \* the password the account starts with
    MinLen, MaxLen, \* MIN_PASSWORD_LEN, MAX_PASSWORD_LEN
    Sids,           \* session ids
    NoSession,      \* a token without a session
    UserKey,        \* the key of the user's own revocations, beside one per session
    Backends,       \* revocation backends: "memory", "table"
    RawPolicies,    \* configuration values of the login policy, trimmed and lower-cased
    MaxFlowTime, MaxFlowTokens,
    MaxChanges      \* bounds; a revoking call begins while fewer than MaxChanges have returned

ASSUME FlowAssumption ==
    /\ FirstPassword \in Passwords /\ MaxFlowTime \in Nat \ {0}
    /\ NoSession \notin Sids /\ UserKey \notin Sids

VARIABLES
    login_policy,   \* password_login_policy
    revocations,    \* the backend of JwtManager, chosen at start
    account,        \* the user row: [exists, password, is_active]; is_active is only read here, and
                    \* one deactivated later is one that nobody logs in to from then on
    sessions,       \* of every id: "live" if the manager holds it, "unborn" before, "gone" after
    notBefore,      \* key -> second; 0 is none
    loginTokens,    \* issued: [sid, iat]
    running,        \* calls in flight
    second,         \* Utc::now().timestamp()
    finished        \* ghost: the revocations of calls that have returned, and how sure they are

fvars == <<login_policy, revocations, account, sessions, notBefore, loginTokens, running,
           second, finished>>

RevocationKeys == Sids \cup {UserKey}
NoLogin == [at |-> "idle"]

(* validate_password: length in bytes, three of the four categories. *)
ValidatePassword(p) ==
    /\ p.len >= MinLen /\ p.len <= MaxLen
    /\ Cardinality({c \in {"upper", "lower", "digit", "special"} : p[c]}) >= 3

(* PasswordLoginPolicy::parse; the service does not start on anything else. *)
Parse(raw) ==
    IF raw \in {"enabled", "on", "1", "true"} THEN "enabled"
    ELSE IF raw \in {"disabled", "off", "0", "false"} THEN "disabled" ELSE "refused"

FlowInit ==
    /\ login_policy \in {Parse(raw) : raw \in RawPolicies} \ {"refused"}
    /\ revocations \in Backends
    /\ account \in [exists : {TRUE}, password : {FirstPassword}, is_active : BOOLEAN]
    /\ sessions = [s \in Sids |-> "unborn"]
    /\ notBefore = [k \in RevocationKeys |-> 0]
    /\ loginTokens = {} /\ second = 1 /\ finished = {}
    /\ running = [c \in LoginCalls |-> NoLogin]

Proceed(c, rec) == running' = [running EXCEPT ![c] = rec]
EndLogin(c) == Proceed(c, NoLogin)
FlowOthers == <<login_policy, revocations, account, sessions, notBefore, loginTokens, second, finished>>

FlowTick ==
    /\ second < MaxFlowTime
    /\ second' = second + 1
    /\ UNCHANGED <<login_policy, revocations, account, sessions, notBefore, loginTokens, running, finished>>

-----------------------------------------------------------------------------
(* login and login_with_session: the policy, then authenticate_user; an unknown name, an
   inactive account and a wrong password all return the same error. *)
EnsurePasswordLoginAllowed == login_policy = "enabled"

AuthenticateUser(c, p, session) ==
    /\ running[c] = NoLogin
    /\ EnsurePasswordLoginAllowed
    /\ account.exists /\ account.is_active /\ account.password = p
    /\ Proceed(c, [at |-> "roles", session |-> session])
    /\ UNCHANGED FlowOthers

(* fetch_user_roles_and_perms; then a session if one was asked for. *)
FetchRoles(c) ==
    /\ running[c].at = "roles"
    /\ Proceed(c, IF running[c].session THEN [at |-> "session"]
                 ELSE [at |-> "issue", sid |-> NoSession])
    /\ UNCHANGED FlowOthers

(* create_session draws a fresh id; from here on a logout finds the session, although its
   token does not exist yet. *)
CreateSession(c, s) ==
    /\ running[c].at = "session" /\ sessions[s] = "unborn"
    /\ sessions' = [sessions EXCEPT ![s] = "live"]
    /\ Proceed(c, [at |-> "issue", sid |-> s])
    /\ UNCHANGED <<login_policy, revocations, account, notBefore, loginTokens, second, finished>>

(* issue_with_options does not look at the session again. *)
IssueToken(c) ==
    /\ running[c].at = "issue" /\ Cardinality(loginTokens) < MaxFlowTokens
    /\ loginTokens' = loginTokens \cup {[sid |-> running[c].sid, iat |-> second]}
    /\ EndLogin(c)
    /\ UNCHANGED <<login_policy, revocations, account, sessions, notBefore, second, finished>>

(* A store or the signing fails: the call ends with what it has done so far. *)
FlowStoreFails(c) ==
    /\ running[c].at \in {"roles", "session", "issue", "update", "remove", "destroy"}
    /\ EndLogin(c)
    /\ UNCHANGED FlowOthers

-----------------------------------------------------------------------------
(* A revocation of a key that has read the clock and awaits the backend; `then` is what the
   call goes on to. *)
Sampled(key, then, new) ==
    [at |-> "record", key |-> key, then |-> then, new |-> new, when |-> second]

BoundChanges == Cardinality(finished) < MaxChanges

(* change_password: find_by_id, the old password, the rules for the new one, the hash; then
   revoke_all_for_user. *)
ChangeBegin(c, old, new) ==
    /\ running[c] = NoLogin /\ BoundChanges
    /\ account.exists /\ account.password = old
    /\ ValidatePassword(new)
    /\ Proceed(c, [at |-> "revoke", new |-> new])
    /\ UNCHANGED FlowOthers

RevokeAllForUser(c) ==
    /\ running[c].at = "revoke"
    /\ Proceed(c, Sampled(UserKey, "update", running[c].new))
    /\ UNCHANGED FlowOthers

(* delete_user revokes without looking the user up. *)
DeleteBegin(c) ==
    /\ running[c] = NoLogin /\ BoundChanges
    /\ Proceed(c, Sampled(UserKey, "remove", FirstPassword))
    /\ UNCHANGED FlowOthers

(* Mutant: the session's tokens are left alone. *)
MutLogoutBegin(c, s) ==
    /\ running[c] = NoLogin /\ BoundChanges
    /\ Proceed(c, [at |-> "destroy", key |-> s, new |-> FirstPassword, when |-> second, sure |-> TRUE])
    /\ UNCHANGED FlowOthers

(* logout, of any session id: its tokens are revoked first, then the session goes. *)
LogoutBegin(c, s) ==
    /\ running[c] = NoLogin /\ BoundChanges
    /\ Proceed(c, Sampled(s, "destroy", FirstPassword))
    /\ UNCHANGED FlowOthers

(* Mutant: a user's revocation is stamped with the clock as it is. *)
MutStamp(key, when) == when

(* revoke_all_for_user stamps one second ahead, revoke_session does not. *)
Stamp(key, when) == IF key = UserKey THEN when + 1 ELSE when

(* Mutant: the table's upsert overwrites as the map does. *)
MutRecorded(old, new) == new

(* MemoryRevocationBackend::revoke overwrites, DbRevocationStore::revoke keeps the greatest. *)
Recorded(old, new) == IF revocations = "table" /\ old > new THEN old ELSE new

(* The backend has answered.  In the map a revocation is sure to last only if no other one
   of its key, with an earlier second, is still waiting to overwrite it. *)
Answered(c, sure) ==
    LET r == running[c] IN
    Proceed(c, [at |-> r.then, key |-> r.key, new |-> r.new, when |-> r.when, sure |-> sure])

OlderOnePending(c) ==
    \E d \in LoginCalls \ {c} :
        /\ running[d].at = "record" /\ running[d].key = running[c].key
        /\ running[d].when < running[c].when

RecordRevocation(c) ==
    LET r == running[c] IN
    /\ r.at = "record"
    /\ notBefore' = [notBefore EXCEPT ![r.key] = Recorded(notBefore[r.key], Stamp(r.key, r.when))]
    /\ Answered(c, revocations = "table" \/ ~ OlderOnePending(c))
    /\ UNCHANGED <<login_policy, revocations, account, sessions, loginTokens, second, finished>>

(* The table's write fails: it is logged, and the call goes on as if it had succeeded. *)
RevocationLost(c) ==
    /\ running[c].at = "record" /\ revocations = "table"
    /\ Answered(c, FALSE)
    /\ UNCHANGED FlowOthers

(* The call returns; its revocation is history. *)
Returned(c) ==
    LET r == running[c] IN
    /\ finished' = finished \cup {[key |-> r.key, when |-> r.when, sure |-> r.sure]}
    /\ EndLogin(c)

(* update_password replaces whatever hash is there by now. *)
UpdatePassword(c) ==
    /\ running[c].at = "update"
    /\ IF account.exists
       THEN account' = [account EXCEPT !.password = running[c].new] /\ Returned(c)
       ELSE EndLogin(c) /\ UNCHANGED <<account, finished>>
    /\ UNCHANGED <<login_policy, revocations, sessions, notBefore, loginTokens, second>>

RemoveUser(c) ==
    /\ running[c].at = "remove"
    /\ account' = [account EXCEPT !.exists = FALSE]
    /\ Returned(c)
    /\ UNCHANGED <<login_policy, revocations, sessions, notBefore, loginTokens, second>>

(* destroy_session succeeds whether or not the manager holds the session. *)
DestroySession(c) ==
    /\ running[c].at = "destroy"
    /\ sessions' = [sessions EXCEPT ![running[c].key] = IF @ = "live" THEN "gone" ELSE @]
    /\ Returned(c)
    /\ UNCHANGED <<login_policy, revocations, account, notBefore, loginTokens, second>>

FlowNext ==
    \/ FlowTick
    \/ \E c \in LoginCalls :
           \/ FetchRoles(c) \/ IssueToken(c) \/ FlowStoreFails(c)
           \/ RevokeAllForUser(c) \/ RecordRevocation(c) \/ RevocationLost(c)
           \/ UpdatePassword(c) \/ DeleteBegin(c) \/ RemoveUser(c) \/ DestroySession(c)
           \/ \E s \in Sids : CreateSession(c, s) \/ LogoutBegin(c, s)
           \/ \E p \in Passwords : \E session \in BOOLEAN : AuthenticateUser(c, p, session)
           \/ \E p, q \in Passwords : ChangeBegin(c, p, q)

FlowSpec == FlowInit /\ [][FlowNext]_fvars

-----------------------------------------------------------------------------
FlowTypeOK ==
    /\ account \in [exists : BOOLEAN, password : Passwords, is_active : BOOLEAN]
    /\ sessions \in [Sids -> {"unborn", "live", "gone"}]
    /\ notBefore \in [RevocationKeys -> 0..(MaxFlowTime + 1)]
    /\ loginTokens \subseteq [sid : Sids \cup {NoSession}, iat : 1..MaxFlowTime]

(* verify_token on a token within its lifetime. *)
TokenVerifies(t) ==
    /\ t.iat > notBefore[UserKey]
    /\ t.sid # NoSession => t.iat > notBefore[t.sid]

(* Once a logout has returned, the session's token does not verify if it was issued by the
   second the logout read: at every later moment, whatever other logouts of the session,
   changes and logins are under way, and also if the token was still to be issued when the
   logout began.  Not sure are the logouts whose write the table lost, and in the map those
   that wrote while an older logout of the session was yet to. *)
LogoutCutsOff ==
    \A x \in finished, t \in loginTokens :
        (x.key # UserKey /\ x.sure /\ t.sid = x.key /\ TokenVerifies(t)) => t.iat > x.when

(* Once a password change or a deletion has returned, no token issued by the second after
   the one it read verifies: everything issued before is cut off for good, however many
   changes race, with the same two exceptions as for a logout. *)
ChangeCutsOff ==
    \A x \in finished, t \in loginTokens :
        (x.key = UserKey /\ x.sure /\ TokenVerifies(t)) => t.iat > x.when + 1

(* A logout, a change and a deletion that have returned have cut off every token issued by
   the second they read, unless their write was lost or raced an older one in the map. *)
TokensCutOff == FlowTypeOK /\ LogoutCutsOff /\ ChangeCutsOff

(* Refuted: no verifying token points at a session that was logged out.  A logout between
   create_session and the issue of the token revokes nothing that is issued a second later. *)
NoTokenWithoutSession ==
    \A t \in loginTokens : (t.sid # NoSession /\ TokenVerifies(t)) => sessions[t.sid] = "live"

(* Refuted, for each backend: every returned change has cut off what was issued before it.
   The map lets an older revocation overwrite it, the table may have lost its write. *)
EveryChangeCutsOff ==
    \A x \in finished, t \in loginTokens : (x.key = UserKey /\ TokenVerifies(t)) => t.iat > x.when + 1

-----------------------------------------------------------------------------
(* The inductive strengthening: a revocation that is sure is on record, and in the map no
   call with an earlier second is left that could overwrite it. *)
RevokingAt == {"update", "remove", "destroy"}

FlowCall ==
    {NoLogin} \cup [at : {"roles"}, session : BOOLEAN] \cup [at : {"session"}]
    \cup [at : {"issue"}, sid : Sids \cup {NoSession}] \cup [at : {"revoke"}, new : Passwords]
    \cup [at : {"record"}, key : RevocationKeys, then : RevokingAt, new : Passwords, when : Nat]
    \cup [at : RevokingAt, key : RevocationKeys, new : Passwords, when : Nat, sure : BOOLEAN]

OnRecord(key, when) ==
    /\ Stamp(key, when) <= notBefore[key]
    /\ revocations = "table" \/ \A c \in LoginCalls :
           (running[c].at = "record" /\ running[c].key = key) => when <= running[c].when

RevocationsStand ==
    /\ \A x \in finished : x.sure => OnRecord(x.key, x.when)
    /\ \A c \in LoginCalls :
           (running[c].at \in RevokingAt /\ running[c].sure) => OnRecord(running[c].key, running[c].when)

FlowInv ==
    /\ FlowTypeOK
    /\ second \in 1..MaxFlowTime
    /\ running \in [LoginCalls -> FlowCall]
    /\ \A c \in LoginCalls : running[c].at \in {"record"} \cup RevokingAt => running[c].when <= second
    /\ finished \subseteq [key : RevocationKeys, when : Nat, sure : BOOLEAN]
    /\ \A x \in finished : x.when <= second
    /\ RevocationsStand
=============================================================================
