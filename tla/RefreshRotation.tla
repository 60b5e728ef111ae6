-------------------------- MODULE RefreshRotation --------------------------
(***************************************************************************)
(* Rotating refresh tokens: TokenManager::refresh_rotating and refresh     *)
(* (packages/session manager.rs) over RefreshRevocationStore               *)
(* (packages/session revocation.rs).                                       *)
(*                                                                         *)
(* A refresh token is identified by its session id; issue_pair draws a     *)
(* fresh one for every pair.  A rotation call verifies the token, samples  *)
(* the clock, passes check_and_revoke (one write lock) and then issues the *)
(* new pair: four steps, between which the clock and other calls run.      *)
(* Presentations that fail verification change no state and are left out.  *)
(***************************************************************************)
EXTENDS Integers, FiniteSets

CONSTANTS
    Sids,           \* session ids, one per token pair
    Tasks,          \* concurrent refresh_rotating calls
    RefreshTtl,     \* refresh_ttl_secs, of both the manager and the store
    Leeway,         \* VERIFY_LEEWAY_SECS
    MaxEntries,     \* REVOCATION_MAX_ENTRIES
    MaxTime         \* bound on the clock

ASSUME RotationAssumption ==
    /\ Sids # {} /\ RefreshTtl \in Nat \ {0}
    /\ Leeway \in Nat /\ MaxEntries \in Nat /\ MaxTime \in Nat

VARIABLES
    iat,        \* minted session id -> the token's issue time
    entries,    \* the store: session id -> time of revocation
    call,       \* the rotations in flight; see Call
    used,       \* ghost: ids rotated or revoked since the process started
    rotations,  \* ghost: id -> rotations admitted since the process started
    now         \* Utc::now().timestamp()

vars == <<iat, entries, call, used, rotations, now>>

-----------------------------------------------------------------------------
Times == 0 .. MaxTime

(* verified (ghost) is the time at which the token passed verify; sampled  *)
(* is the "now" handed to check_and_revoke.                                *)
Call == [at : {"idle", "verified", "sampled", "issue"}, sid : Sids,
         verified : Times, sampled : Times]

TypeOK ==
    /\ DOMAIN iat \subseteq Sids
    /\ \A sid \in DOMAIN iat : iat[sid] \in Times
    /\ DOMAIN entries \subseteq DOMAIN iat
    /\ \A sid \in DOMAIN entries : entries[sid] \in Times
    /\ call \in [Tasks -> Call]
    /\ \A t \in Tasks : call[t].at # "idle" => call[t].sid \in DOMAIN iat
    /\ used \subseteq DOMAIN iat
    /\ rotations \in [Sids -> Nat]
    /\ now \in Times

(* A plausible slip: the grace period of verify is forgotten. *)
WindowWithoutLeeway == RefreshTtl

(* window_secs *)
Window == RefreshTtl + Leeway

(* TokenManager::verify on the refresh token: exp = iat + refresh_ttl_secs, *)
(* accepted until the leeway is over.                                       *)
Verifies(sid) == now <= iat[sid] + RefreshTtl + Leeway

(* RefreshRevocationStore::is_revoked *)
IsRevoked(sid, at) == sid \in DOMAIN entries /\ at <= entries[sid] + Window

With(f, x, y) == [z \in DOMAIN f \cup {x} |-> IF z = x THEN y ELSE f[z]]

(* record_entry: insert, and past the cap drop what is out of the window. *)
RecordEntry(sid, at) ==
    LET es == With(entries, sid, at)
        kept == {x \in DOMAIN es : es[x] >= at - Window}
    IN  entries' = IF Cardinality(DOMAIN es) > MaxEntries
                     THEN [x \in kept |-> es[x]] ELSE es

-----------------------------------------------------------------------------
Init ==
    /\ iat = [sid \in {} |-> 0]
    /\ entries = [sid \in {} |-> 0]
    /\ call = [t \in Tasks |-> [at |-> "idle", sid |-> CHOOSE sid \in Sids : TRUE,
                                verified |-> 0, sampled |-> 0]]
    /\ used = {}
    /\ rotations = [sid \in Sids |-> 0]
    /\ now = 0

(* issue_pair: an id never seen before, stamped now. *)
Mint(sid) ==
    /\ sid \in Sids \ DOMAIN iat
    /\ iat' = With(iat, sid, now)

(* issue_pair at login. *)
IssuePair(sid) ==
    /\ Mint(sid)
    /\ UNCHANGED <<entries, call, used, rotations, now>>

(* refresh: a new pair, the presented token stays usable. *)
Refresh(sid, new) ==
    /\ sid \in DOMAIN iat /\ Verifies(sid)
    /\ Mint(new)
    /\ UNCHANGED <<entries, call, used, rotations, now>>

(* refresh_rotating, up to the return of verify_refresh_claims. *)
VerifyRefreshClaims(t, sid) ==
    /\ call[t].at = "idle"
    /\ sid \in DOMAIN iat /\ Verifies(sid)
    /\ call' = [call EXCEPT ![t] = [at |-> "verified", sid |-> sid,
                                    verified |-> now, sampled |-> now]]
    /\ UNCHANGED <<iat, entries, used, rotations, now>>

(* let now = Utc::now().timestamp() *)
SampleNow(t) ==
    /\ call[t].at = "verified"
    /\ call' = [call EXCEPT ![t].at = "sampled", ![t].sampled = now]
    /\ UNCHANGED <<iat, entries, used, rotations, now>>

(* A plausible slip: a known id is reported and then recorded as usual. *)
RecordOnly(t) ==
    /\ call[t].at = "sampled"
    /\ RecordEntry(call[t].sid, call[t].sampled)
    /\ call' = [call EXCEPT ![t].at = "issue"]
    /\ used' = used \cup {call[t].sid}
    /\ rotations' = [rotations EXCEPT ![call[t].sid] = @ + 1]
    /\ UNCHANGED <<iat, now>>

(* check_and_revoke, which the write lock makes one step: reject a known   *)
(* id inside the window, otherwise record it and go on.                    *)
CheckAndRevoke(t) ==
    LET sid == call[t].sid IN
    /\ call[t].at = "sampled"
    /\ IF IsRevoked(sid, call[t].sampled)
         THEN /\ call' = [call EXCEPT ![t].at = "idle"]
              /\ UNCHANGED <<entries, used, rotations>>
         ELSE /\ RecordEntry(sid, call[t].sampled)
              /\ call' = [call EXCEPT ![t].at = "issue"]
              /\ used' = used \cup {sid}
              /\ rotations' = [rotations EXCEPT ![sid] = @ + 1]
    /\ UNCHANGED <<iat, now>>

(* issue_pair for the rotated session. *)
IssueRotated(t, new) ==
    /\ call[t].at = "issue"
    /\ Mint(new)
    /\ call' = [call EXCEPT ![t].at = "idle"]
    /\ UNCHANGED <<entries, used, rotations, now>>

(* issue_pair fails (sign returns Err) or the caller is gone: the old      *)
(* token stays dead.                                                       *)
IssueFails(t) ==
    /\ call[t].at = "issue"
    /\ call' = [call EXCEPT ![t].at = "idle"]
    /\ UNCHANGED <<iat, entries, used, rotations, now>>

(* RefreshRevocationStore::revoke, by a caller that ends a session. *)
Revoke(sid) ==
    /\ sid \in DOMAIN iat
    /\ RecordEntry(sid, now)
    /\ used' = used \cup {sid}
    /\ UNCHANGED <<iat, call, rotations, now>>

Cleanup ==
    /\ entries' = [sid \in {x \in DOMAIN entries : entries[x] + Window >= now}
                     |-> entries[sid]]
    /\ UNCHANGED <<iat, call, used, rotations, now>>

(* The store is in memory: a restart forgets it, and the calls in flight. *)
Restart ==
    /\ entries' = [sid \in {} |-> 0]
    /\ call' = [t \in Tasks |-> [call[t] EXCEPT !.at = "idle"]]
    /\ used' = {}
    /\ rotations' = [sid \in Sids |-> 0]
    /\ UNCHANGED <<iat, now>>

Tick ==
    /\ now < MaxTime
    /\ now' = now + 1
    /\ UNCHANGED <<iat, entries, call, used, rotations>>

Rotate(t) ==
    \/ \E sid \in Sids : VerifyRefreshClaims(t, sid) \/ IssueRotated(t, sid)
    \/ SampleNow(t) \/ CheckAndRevoke(t) \/ IssueFails(t)

Next ==
    \/ \E sid \in Sids : IssuePair(sid) \/ Revoke(sid)
    \/ \E sid, new \in Sids : Refresh(sid, new)
    \/ \E t \in Tasks : Rotate(t)
    \/ Cleanup \/ Restart \/ Tick

Spec == Init /\ [][Next]_vars

-----------------------------------------------------------------------------
(* Properties *)

(* As long as a refresh token still verifies, leeway included, a session   *)
(* that was rotated or revoked is known to the store as revoked, whatever  *)
(* cleanups and prunes ran in between (revocation.rs, module comment).     *)
RejectedWhileVerifiable ==
    \A sid \in used : Verifies(sid) => IsRevoked(sid, now)

(* refresh_rotating is one-time-use: a session that was already rotated or *)
(* revoked is admitted to a rotation only after its token has stopped      *)
(* verifying, so never twice in its lifetime, however many calls race.     *)
OncePerLifetime ==
    [][\A sid \in used :
         rotations'[sid] > rotations[sid] => ~Verifies(sid)]_vars

(* manager.rs: "a refresh token must only ever be presented once"; at most *)
(* one rotation of a session is ever admitted by one process.              *)
PresentedOnce == \A sid \in Sids : rotations[sid] <= 1

-----------------------------------------------------------------------------
(* The inductive strengthening: an entry is never older than its token, a  *)
(* call never ahead of the clock, and a used session stays in the store    *)
(* until its token is dead.                                                *)
IndInv ==
    /\ TypeOK
    /\ \A sid \in DOMAIN iat : iat[sid] <= now
    /\ \A sid \in DOMAIN entries : iat[sid] <= entries[sid]
    /\ \A t \in Tasks : call[t].at # "idle" => /\ iat[call[t].sid] <= call[t].sampled
                                               /\ call[t].sampled <= now
    /\ \A sid \in used : Verifies(sid) => sid \in DOMAIN entries
=============================================================================
