-------------------------- MODULE LoginRateLimiter --------------------------
(***************************************************************************)
(* LoginRateLimiter (service/login/mod.rs): a fixed window of counted      *)
(* attempts per key, then a lockout.  AuthService owns two of them, for    *)
(* logins and for registrations; each call runs under the write lock of    *)
(* its limiter's map and is one step here.  A limiter with                 *)
(* PasswordLoginPolicy::Disabled counts nothing and takes no step.         *)
(***************************************************************************)
EXTENDS Integers, FiniteSets

CONSTANTS
    Limiters,       \* the limiters: "login", "register"
    Names,          \* limiter keys: trimmed, lower-cased user names
    Limit,          \* limiter -> [max, window, lockout]
    MaxEntries,     \* RATE_LIMITER_MAX_ENTRIES, a soft cap
    MaxTime         \* bound on the clock

ASSUME LimiterAssumption ==
    /\ Limit \in [Limiters -> [max : Nat \ {0}, window : Nat, lockout : Nat]]
    /\ MaxEntries \in Nat /\ MaxTime \in Nat

VARIABLES
    entries,    \* (limiter, name) -> [attempts, start]
    lockedAt,   \* ghost: when the key's last allowed attempt was counted
    now         \* Instant::now()

limiterVars == <<entries, lockedAt, now>>

Keys == Limiters \X Names
Never == -1

LimiterTypeOK ==
    /\ DOMAIN entries \subseteq Keys
    /\ \A k \in DOMAIN entries :
         entries[k] \in [attempts : 1 .. Limit[k[1]].max, start : 0 .. now]
    /\ lockedAt \in [Keys -> 0 .. MaxTime \cup {Never}]
    /\ now \in 0 .. MaxTime

-----------------------------------------------------------------------------
Total(l) == Limit[l].window + Limit[l].lockout

(* A plausible slip: at the cap every bucket past its window is dropped,   *)
(* the ones in lockout too.                                                *)
KeptPastWindow(l) ==
    IF Cardinality({k \in DOMAIN entries : k[1] = l}) >= MaxEntries
      THEN {k \in DOMAIN entries : k[1] = l => now - entries[k].start <= Limit[l].window}
      ELSE DOMAIN entries

(* The buckets that survive the pruning at the cap. *)
Kept(l) ==
    IF Cardinality({k \in DOMAIN entries : k[1] = l}) >= MaxEntries
      THEN {k \in DOMAIN entries : k[1] = l => now - entries[k].start <= Total(l)}
      ELSE DOMAIN entries

Fresh == [attempts |-> 0, start |-> now]

(* The bucket after should_reset. *)
Rolled(l, e) ==
    IF \/ now - e.start > Total(l)
       \/ now - e.start > Limit[l].window /\ e.attempts < Limit[l].max
      THEN Fresh ELSE e

Bucket(l, n) == Rolled(l, IF <<l, n>> \in Kept(l) THEN entries[<<l, n>>] ELSE Fresh)

(* Out of attempts and still inside the window plus the lockout. *)
Exhausted(l, n) ==
    /\ Bucket(l, n).attempts >= Limit[l].max
    /\ now - Bucket(l, n).start < Total(l)

(* check_and_record_failure returns Err; the pruning has happened. *)
Refuse(l, n) ==
    /\ Exhausted(l, n)
    /\ entries' = [k \in Kept(l) |-> entries[k]]
    /\ UNCHANGED <<lockedAt, now>>

(* check_and_record_failure counts the attempt and returns Ok. *)
Admit(l, n) ==
    LET b == Bucket(l, n)
        e == IF b.attempts >= Limit[l].max THEN Fresh ELSE b
    IN
    /\ ~Exhausted(l, n)
    /\ entries' = [k \in Kept(l) \cup {<<l, n>>} |->
                     IF k = <<l, n>> THEN [e EXCEPT !.attempts = @ + 1] ELSE entries[k]]
    /\ lockedAt' = [lockedAt EXCEPT ![<<l, n>>] =
                      IF e.attempts + 1 = Limit[l].max THEN now ELSE Never]
    /\ UNCHANGED now

(* reset forgets the key. *)
Reset(l, n) ==
    /\ entries' = [k \in DOMAIN entries \ {<<l, n>>} |-> entries[k]]
    /\ lockedAt' = [lockedAt EXCEPT ![<<l, n>>] = Never]
    /\ UNCHANGED now

(* The maps are process-local: a restart starts with empty ones. *)
Forget ==
    /\ entries' = [k \in {} |-> 0]
    /\ lockedAt' = [k \in Keys |-> Never]
    /\ UNCHANGED now

Elapse ==
    /\ now < MaxTime
    /\ now' = now + 1
    /\ UNCHANGED <<entries, lockedAt>>

LimiterInit ==
    /\ entries = [k \in {} |-> 0]
    /\ lockedAt = [k \in Keys |-> Never]
    /\ now = 0

LimiterNext ==
    \/ \E l \in Limiters, n \in Names : Refuse(l, n) \/ Admit(l, n) \/ Reset(l, n)
    \/ Forget
    \/ Elapse

LimiterSpec == LimiterInit /\ [][LimiterNext]_limiterVars

-----------------------------------------------------------------------------
(* A key that has used up its attempts is refused until lockout_secs after *)
(* the last of them, whatever other keys, prunings at the cap and window   *)
(* rollovers do; only its own reset (or a restart) ends that earlier       *)
(* (check_and_record_failure; "the cap can never shorten an active         *)
(* lockout").                                                              *)
LockoutHolds ==
    \A k \in Keys :
      (lockedAt[k] # Never /\ now < lockedAt[k] + Limit[k[1]].lockout)
        => Exhausted(k[1], k[2])

(* The inductive strengthening: the bucket is there, full, and its last    *)
(* attempt was counted inside its window.                                  *)
LimiterInv ==
    /\ LimiterTypeOK
    /\ \A k \in Keys :
         lockedAt[k] # Never =>
           \/ now >= lockedAt[k] + Limit[k[1]].lockout
           \/ /\ k \in DOMAIN entries
              /\ entries[k].attempts = Limit[k[1]].max
              /\ lockedAt[k] <= entries[k].start + Limit[k[1]].window
=============================================================================
