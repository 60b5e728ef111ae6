--------------------------- MODULE JwtRevocation ---------------------------
(***************************************************************************)
(* Issuing, verifying and revoking the root crate's tokens: JwtManager     *)
(* (auth/credential/basic.rs) over its two revocation backends, the        *)
(* process-local map (basic.rs) and the shared table                       *)
(* (database/db_revocation.rs), driven by AuthService's login,             *)
(* change_password, delete_user, logout and verify_token                   *)
(* (service/login/mod.rs).                                                 *)
(*                                                                         *)
(* A revocation is a "not before" time under one of three keys of a token: *)
(* its user, its jti and its session.  verify_with_revocation reads the    *)
(* three keys one await at a time.  Passwords are abstracted: a login or a *)
(* password change either passes its credential check or changes nothing.  *)
(***************************************************************************)
EXTENDS Integers, FiniteSets

CONSTANTS
    Users,          \* user ids
    Jtis,           \* token ids; the session a token may carry has its id
    Calls,          \* concurrent calls into the service
    Backends,       \* the revocation backends in use, of "memory" and "db"
    Lifetime,       \* expiration_hours, and the argument of cleanup
    Leeway,         \* jsonwebtoken's default leeway
    AutoWindow,     \* REVOCATION_AUTO_CLEANUP_WINDOW_SECS
    MaxEntries,     \* REVOCATION_MAX_ENTRIES
    MaxTime         \* bound on the clock

(* JwtManager::new warns about a lifetime beyond the auto-cleanup window:  *)
(* the model is of the configurations it does not warn about.              *)
ASSUME JwtAssumption ==
    /\ Users # {} /\ Jtis # {}
    /\ Backends \subseteq {"memory", "db"}
    /\ Lifetime \in Nat \ {0}
    /\ AutoWindow \in Nat /\ Lifetime <= AutoWindow
    /\ Leeway \in Nat /\ MaxEntries \in Nat /\ MaxTime \in Nat

VARIABLES
    backend,    \* the RevocationBackend JwtManager was built with
    account,    \* the users the database knows
    token,      \* issued jti -> its claims
    notBefore,  \* the backend: revocation key -> not_before
    call,       \* the calls in flight
    dead,       \* ghost: (key kind, jti) pairs a completed revocation hit
    now         \* Utc::now().timestamp()

vars == <<backend, account, token, notBefore, call, dead, now>>

-----------------------------------------------------------------------------
Times == 0 .. MaxTime
KeyKinds == {"user", "jti", "session"}
Keys == ({"user"} \X Users) \cup ({"jti", "session"} \X Jtis)

Claims == [user : Users, session : BOOLEAN, iat : Times]

(* stamp is the sampled not_before; doomed (ghost) the kinds of key under  *)
(* which the token was revoked when its verification began; blind (ghost)  *)
(* says that a table read failed during the verification.                  *)
Call == [at : {"idle", "issue", "write", "remove", "user", "jti", "session",
               "accepted"},
         user : Users, jti : Jtis, session : BOOLEAN, key : Keys,
         delete : BOOLEAN, stamp : 0 .. (MaxTime + 1),
         doomed : SUBSET KeyKinds, blind : BOOLEAN]

TypeOK ==
    /\ backend \in Backends
    /\ account \subseteq Users
    /\ DOMAIN token \subseteq Jtis
    /\ \A j \in DOMAIN token : token[j] \in Claims
    /\ DOMAIN notBefore \subseteq Keys
    /\ \A k \in DOMAIN notBefore : notBefore[k] \in 0 .. (MaxTime + 1)
    /\ call \in [Calls -> Call]
    /\ \A c \in Calls : call[c].at \in {"user", "jti", "session", "accepted"}
                          => call[c].jti \in DOMAIN token
    /\ dead \subseteq KeyKinds \X DOMAIN token
    /\ now \in Times

With(f, x, y) == [z \in DOMAIN f \cup {x} |-> IF z = x THEN y ELSE f[z]]

Key(kind, j) == IF kind = "user" THEN <<"user", token[j].user>> ELSE <<kind, j>>

(* JwtManager::verify: exp = iat + lifetime, plus the library's leeway. *)
Expiry(j) == token[j].iat + Lifetime
Verifies(j) == now <= Expiry(j) + Leeway

(* One of the three comparisons of verify_with_revocation. *)
RevokedUnder(kind, j) ==
    Key(kind, j) \in DOMAIN notBefore /\ token[j].iat <= notBefore[Key(kind, j)]

(* A plausible slip: the table's upsert overwrites as the map does. *)
Overwritten(key, stamp) == With(notBefore, key, stamp)

(* MemoryRevocationBackend::revoke overwrites, and prunes past the cap;    *)
(* DbRevocationStore::revoke keeps the greatest.                           *)
Recorded(key, stamp) ==
    LET m == With(notBefore, key, stamp)
        kept == {k \in DOMAIN m : m[k] >= stamp - AutoWindow}
    IN  IF backend = "db"
          THEN IF key \in DOMAIN notBefore /\ notBefore[key] > stamp
                 THEN notBefore ELSE m
          ELSE IF Cardinality(DOMAIN m) > MaxEntries
                 THEN [k \in kept |-> m[k]] ELSE m

-----------------------------------------------------------------------------
NoCall ==
    [at |-> "idle", user |-> CHOOSE u \in Users : TRUE,
     jti |-> CHOOSE j \in Jtis : TRUE, session |-> FALSE,
     key |-> <<"user", CHOOSE u \in Users : TRUE>>,
     delete |-> FALSE, stamp |-> 0, doomed |-> {}, blind |-> FALSE]

Init ==
    /\ backend \in Backends
    /\ account = Users
    /\ token = [j \in {} |-> 0]
    /\ notBefore = [k \in {} |-> 0]
    /\ call = [c \in Calls |-> NoCall]
    /\ dead = {}
    /\ now = 0

Free(c) == call[c].at \in {"idle", "accepted"}

Return(c) == call' = [call EXCEPT ![c] = NoCall]

(* login and login_with_session up to a successful authenticate_user. *)
AuthenticateUser(c, u, session) ==
    /\ Free(c)
    /\ u \in account
    /\ call' = [call EXCEPT ![c] = [NoCall EXCEPT !.at = "issue", !.user = u,
                                               !.session = session]]
    /\ UNCHANGED <<account, token, notBefore, dead, now>>

(* After the role, permission and session lookups: issue_with_options. *)
IssueWithOptions(c, j) ==
    /\ call[c].at = "issue"
    /\ j \in Jtis \ DOMAIN token
    /\ token' = With(token, j, [user |-> call[c].user, session |-> call[c].session,
                                iat |-> now])
    /\ Return(c)
    /\ UNCHANGED <<account, notBefore, dead, now>>

(* A lookup fails (store unavailable) and the login returns Err. *)
LoginFails(c) ==
    /\ call[c].at = "issue"
    /\ Return(c)
    /\ UNCHANGED <<account, token, notBefore, dead, now>>

(* The clock is sampled before the backend's lock is awaited. *)
Sampled(c, key, stamp, delete) ==
    /\ Free(c)
    /\ call' = [call EXCEPT ![c] = [NoCall EXCEPT !.at = "write", !.key = key,
                                               !.stamp = stamp, !.delete = delete]]
    /\ UNCHANGED <<account, token, notBefore, dead, now>>

(* change_password, after find_by_id and the check of the old password. *)
ChangePassword(c, u) ==
    /\ u \in account
    /\ Sampled(c, <<"user", u>>, now + 1, FALSE)

(* delete_user revokes before it looks the user up. *)
DeleteUser(c, u) == Sampled(c, <<"user", u>>, now + 1, TRUE)

RevokeToken(c, j) ==
    /\ j \in DOMAIN token
    /\ Sampled(c, <<"jti", j>>, now, FALSE)

(* logout; destroy_session, which follows, does not touch this state. *)
Logout(c, j) ==
    /\ j \in DOMAIN token /\ token[j].session
    /\ Sampled(c, <<"session", j>>, now, FALSE)

(* revoke_all_for_user has returned; delete_user goes on to the database.  *)
(* update_password, which follows in change_password, does not touch this  *)
(* state.                                                                  *)
Written(c) ==
    IF call[c].delete
      THEN call' = [call EXCEPT ![c] = [NoCall EXCEPT !.at = "remove",
                                                      !.key = call[c].key]]
      ELSE Return(c)

(* RevocationBackend::revoke. *)
BackendRevoke(c) ==
    LET key == call[c].key IN
    /\ call[c].at = "write"
    /\ notBefore' = Recorded(key, call[c].stamp)
    /\ dead' = dead \cup
         {x \in KeyKinds \X DOMAIN token :
            Key(x[1], x[2]) = key /\ token[x[2]].iat <= call[c].stamp}
    /\ Written(c)
    /\ UNCHANGED <<account, token, now>>

(* DbRevocationStore::revoke logs a failed write and returns. *)
BackendRevokeFails(c) ==
    /\ call[c].at = "write"
    /\ backend = "db"
    /\ Written(c)
    /\ UNCHANGED <<account, token, notBefore, dead, now>>

(* The second half of delete_user. *)
RemoveUser(c) ==
    /\ call[c].at = "remove"
    /\ account' = account \ {call[c].key[2]}
    /\ Return(c)
    /\ UNCHANGED <<token, notBefore, dead, now>>

(* cleanup_revocation with the longest token lifetime. *)
CleanupRevocation ==
    /\ notBefore' = [k \in {l \in DOMAIN notBefore : notBefore[l] >= now - Lifetime}
                       |-> notBefore[k]]
    /\ UNCHANGED <<account, token, call, dead, now>>

(* verify_with_revocation: signature and expiry first. *)
VerifyBegin(c, j) ==
    /\ Free(c)
    /\ j \in DOMAIN token /\ Verifies(j)
    /\ call' = [call EXCEPT ![c] =
         [NoCall EXCEPT !.at = "user", !.jti = j,
                        !.doomed = {kind \in KeyKinds : <<kind, j>> \in dead}]]
    /\ UNCHANGED <<account, token, notBefore, dead, now>>

(* The lookup that follows one that let the token pass. *)
NextLookup(c) ==
    IF call[c].at = "user" THEN "jti"
    ELSE IF call[c].at = "jti" /\ token[call[c].jti].session THEN "session"
    ELSE "accepted"

(* A plausible slip: the session key is never consulted. *)
LookupTwoKeys(c) ==
    /\ call[c].at \in KeyKinds
    /\ IF RevokedUnder(call[c].at, call[c].jti)
         THEN Return(c)
         ELSE call' = [call EXCEPT ![c].at =
                         IF call[c].at = "user" THEN "jti" ELSE "accepted"]
    /\ UNCHANGED <<account, token, notBefore, dead, now>>

(* get_not_before for one of the three keys, and the comparison. *)
Lookup(c) ==
    /\ call[c].at \in KeyKinds
    /\ IF RevokedUnder(call[c].at, call[c].jti)
         THEN Return(c)
         ELSE call' = [call EXCEPT ![c] = [call[c] EXCEPT !.at = NextLookup(c)]]
    /\ UNCHANGED <<account, token, notBefore, dead, now>>

(* DbRevocationStore::get_not_before reads a failed query as "no entry". *)
LookupBlind(c) ==
    /\ call[c].at \in KeyKinds
    /\ backend = "db"
    /\ call' = [call EXCEPT ![c] = [call[c] EXCEPT !.at = NextLookup(c), !.blind = TRUE]]
    /\ UNCHANGED <<account, token, notBefore, dead, now>>

(* A restart drops the calls in flight and the process-local table. *)
Restart ==
    /\ call' = [c \in Calls |-> NoCall]
    /\ IF backend = "memory"
         THEN notBefore' = [k \in {} |-> 0] /\ dead' = {}
         ELSE UNCHANGED <<notBefore, dead>>
    /\ UNCHANGED <<account, token, now>>

Tick ==
    /\ now < MaxTime
    /\ now' = now + 1
    /\ UNCHANGED <<account, token, notBefore, call, dead>>

Service(c) ==
    \/ \E u \in Users, session \in BOOLEAN : AuthenticateUser(c, u, session)
    \/ \E j \in Jtis : IssueWithOptions(c, j) \/ RevokeToken(c, j) \/ Logout(c, j)
    \/ LoginFails(c)
    \/ \E u \in Users : ChangePassword(c, u) \/ DeleteUser(c, u)
    \/ BackendRevoke(c) \/ BackendRevokeFails(c) \/ RemoveUser(c)

Verify(c) ==
    \/ \E j \in Jtis : VerifyBegin(c, j)
    \/ Lookup(c) \/ LookupBlind(c)

Next ==
    /\ \/ \E c \in Calls : Service(c) \/ Verify(c)
       \/ CleanupRevocation \/ Restart \/ Tick
    /\ UNCHANGED backend

Spec == Init /\ [][Next]_vars

-----------------------------------------------------------------------------
(* Properties *)

(* The kinds of revocation the backend never takes back before the token   *)
(* expires.  The memory backend overwrites, so a revocation of a user that *)
(* sampled the clock earlier and reaches the map later undoes a newer one; *)
(* see RevokedStaysRejected.                                               *)
Lasting == IF backend = "db" THEN KeyKinds ELSE {"jti", "session"}

(* A completed revocation keeps hitting its token until the token's        *)
(* nominal expiry, through every later revocation, prune, cleanup and, for *)
(* the shared table, restart (basic.rs RevocationBackend).                 *)
RevocationLasts ==
    \A kind \in Lasting, j \in DOMAIN token :
      (<<kind, j>> \in dead /\ now < Expiry(j)) => RevokedUnder(kind, j)

(* verify_with_revocation never accepts a token whose revocation had       *)
(* completed when the verification began, whatever happens between its     *)
(* three lookups, unless the table could not be read or the token ran out. *)
RevokedIsRejected ==
    \A c \in Calls :
      (call[c].at = "accepted" /\ ~call[c].blind /\ call[c].doomed \cap Lasting # {})
        => now >= Expiry(call[c].jti)

(* basic.rs verify_with_revocation: it "Returns an error if the token is   *)
(* invalid, expired, or has been revoked".                                 *)
RevokedStaysRejected ==
    \A c \in Calls :
      (call[c].at = "accepted" /\ ~call[c].blind /\ call[c].doomed # {})
        => now >= Expiry(call[c].jti)

-----------------------------------------------------------------------------
(* The inductive strengthening.                                            *)

(* The lookups of verify_with_revocation: under way, or all passed. *)
Looking(c) == call[c].at \in KeyKinds \cup {"accepted"}

Passed(at) ==
    IF at = "jti" THEN {"user"}
    ELSE IF at = "session" THEN {"user", "jti"}
    ELSE IF at = "accepted" THEN KeyKinds
    ELSE {}

(* Tokens are stamped with a time that has been. *)
IssuedInPast == \A j \in DOMAIN token : token[j].iat <= now

(* A revocation under way was sampled no later than now, a second ahead at *)
(* most, and after the token under its jti or session was issued.          *)
StampsInOrder ==
    \A c \in Calls : call[c].at = "write" =>
      /\ call[c].stamp <= now + 1
      /\ call[c].key[1] # "user" => /\ call[c].key[2] \in DOMAIN token
                                    /\ token[call[c].key[2]].iat <= call[c].stamp
      /\ call[c].key[1] = "session" => token[call[c].key[2]].session

(* Only tokens that carry a session are revoked under it. *)
SessionsDie == \A x \in dead : x[1] = "session" => token[x[2]].session

(* What doomed a token when its verification began still does. *)
DoomedIsDead ==
    \A c \in Calls : Looking(c) => \A kind \in call[c].doomed : <<kind, call[c].jti>> \in dead

(* A verification that has passed the lookup of a key under which the      *)
(* token was revoked is over the token's lifetime.                         *)
PassedIsOver ==
    \A c \in Calls : (Looking(c) /\ ~call[c].blind) =>
      \A kind \in call[c].doomed \cap Lasting \cap Passed(call[c].at) :
        now >= Expiry(call[c].jti)

IndInv ==
    /\ TypeOK /\ IssuedInPast /\ StampsInOrder /\ SessionsDie
    /\ DoomedIsDead /\ RevocationLasts /\ PassedIsOver
=============================================================================
