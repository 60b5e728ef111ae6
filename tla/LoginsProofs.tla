---------------------------- MODULE LoginsProofs ----------------------------
(***************************************************************************)
(* Proofs about what a login is made of.  The limiter's lockout holds for  *)
(* every limit and every number of keys, and AuthService uses the limiter  *)
(* only through its operations, so the lockout holds for it too; the first *)
(* user's role is handed out once.  Then the login flow with its sessions  *)
(* and tokens, the WebAuthn ceremony, the rotation of signing keys and the *)
(* temporary whitelist, each by the inductive invariant of its module.     *)
(***************************************************************************)
EXTENDS Accounts, LoginFlow, WebAuthnCeremony, TokenProfiles, TemporaryWhitelist, TLAPS

(* The shape of a bucket after the pruning and should_reset: it is the     *)
(* stored one, or a new one that counts nothing.                           *)
LEMMA BucketShape ==
  ASSUME LimiterAssumption, LimiterInv, NEW l \in Limiters, NEW n \in Names
  PROVE  \/ Bucket(l, n) = Fresh
         \/ /\ <<l, n>> \in DOMAIN entries
            /\ <<l, n>> \in Kept(l)
            /\ Bucket(l, n) = entries[<<l, n>>]
            /\ now - entries[<<l, n>>].start <= Total(l)
            /\ \/ now - entries[<<l, n>>].start <= Limit[l].window
               \/ entries[<<l, n>>].attempts >= Limit[l].max
<1> DEFINE k == <<l, n>>
<1>1. Kept(l) \subseteq DOMAIN entries
  BY DEF Kept
<1>2. k \in Keys /\ k[1] = l
  BY DEF Keys
<1>3. Limit[l].max \in Nat /\ Limit[l].window \in Nat /\ Limit[l].lockout \in Nat
  BY DEF LimiterAssumption
<1>4. ASSUME k \in Kept(l)
      PROVE  entries[k].start \in Int /\ entries[k].attempts \in Int /\ now \in Int
  BY <1>1, <1>2, <1>3, <1>4, SMT DEF LimiterInv, LimiterTypeOK
<1>5. CASE k \in Kept(l)
  <2>1. Bucket(l, n) = Rolled(l, entries[k])
    BY <1>5 DEF Bucket
  <2> QED
    BY <1>1, <1>3, <1>4, <1>5, <2>1, SMT DEF Rolled, Total
<1>6. CASE k \notin Kept(l)
  <2>1. Bucket(l, n) = Rolled(l, Fresh)
    BY <1>6 DEF Bucket
  <2> QED
    BY <2>1 DEF Rolled
<1> QED
  BY <1>5, <1>6

(* A key whose lockout is running keeps its bucket through a pruning. *)
LEMMA LockedIsKept ==
  ASSUME LimiterAssumption, LimiterInv, NEW l \in Limiters, NEW k \in Keys,
         k \in DOMAIN entries, lockedAt[k] # Never,
         now < lockedAt[k] + Limit[k[1]].lockout,
         lockedAt[k] <= entries[k].start + Limit[k[1]].window
  PROVE  k \in Kept(l)
<1>1. k[1] \in Limiters
  BY DEF Keys
<1>2. Limit[k[1]].window \in Nat /\ Limit[k[1]].lockout \in Nat
  BY <1>1 DEF LimiterAssumption
<1>3. now \in Int /\ entries[k].start \in Int /\ lockedAt[k] \in Int
  BY SMT DEF LimiterInv, LimiterTypeOK, Never, LimiterAssumption
<1>4. now - entries[k].start <= Total(k[1])
  BY <1>2, <1>3, SMT DEF Total
<1> QED
  BY <1>4 DEF Kept

(* An active lockout's bucket is as the invariant says: present and full.  *)
LEMMA RunningLockout ==
  ASSUME LimiterAssumption, LimiterInv, NEW k \in Keys,
         ~(now >= lockedAt[k] + Limit[k[1]].lockout)
  PROVE  now < lockedAt[k] + Limit[k[1]].lockout
<1>1. Limit[k[1]].lockout \in Int
  BY DEF LimiterAssumption, Keys
<1>2. now \in Int /\ lockedAt[k] \in Int
  BY SMT DEF LimiterInv, LimiterTypeOK, LimiterAssumption, Never
<1> QED
  BY <1>1, <1>2, SMT

-----------------------------------------------------------------------------
(* Empty limiters satisfy the invariant.                                   *)
LEMMA LimiterInitial ==
  ASSUME LimiterAssumption, LimiterInit
  PROVE  LimiterInv
<1>1. \A k \in Keys : lockedAt[k] = Never
  BY DEF LimiterInit
<1>2. LimiterTypeOK
  BY SMT DEF LimiterInit, LimiterTypeOK, LimiterAssumption, Never
<1> QED
  BY <1>1, <1>2 DEF LimiterInv

(* A refusal only prunes, and pruning spares a running lockout.            *)
LEMMA RefusePreserves ==
  ASSUME LimiterAssumption, LimiterInv, NEW l \in Limiters, NEW n \in Names,
         Refuse(l, n)
  PROVE  LimiterInv'
<1>1. Kept(l) \subseteq DOMAIN entries
  BY DEF Kept
<1>2. /\ DOMAIN entries' = Kept(l)
      /\ \A k \in Kept(l) : entries'[k] = entries[k]
      /\ lockedAt' = lockedAt /\ now' = now
  BY DEF Refuse
<1>3. LimiterTypeOK'
  BY <1>1, <1>2 DEF LimiterInv, LimiterTypeOK
<1>4. ASSUME NEW k \in Keys, lockedAt[k] # Never,
             ~(now >= lockedAt[k] + Limit[k[1]].lockout)
      PROVE  k \in Kept(l)
  <2>1. /\ k \in DOMAIN entries
        /\ lockedAt[k] <= entries[k].start + Limit[k[1]].window
    BY <1>4 DEF LimiterInv
  <2>2. now < lockedAt[k] + Limit[k[1]].lockout
    BY <1>4, RunningLockout
  <2> QED
    BY <1>4, <2>1, <2>2, LockedIsKept
<1> QED
  BY <1>2, <1>3, <1>4 DEF LimiterInv

(* Counting an attempt: the counted key is filled or freed, the others     *)
(* keep their lockout.                                                     *)
LEMMA AdmitPreserves ==
  ASSUME LimiterAssumption, LimiterInv, NEW l \in Limiters, NEW n \in Names,
         Admit(l, n)
  PROVE  LimiterInv'
<1> DEFINE x == <<l, n>>
           b == Bucket(l, n)
           e == IF b.attempts >= Limit[l].max THEN Fresh ELSE b
<1>1. Kept(l) \subseteq DOMAIN entries
  BY DEF Kept
<1>2. x \in Keys /\ x[1] = l
  BY DEF Keys
<1>3. Limit[l].max \in Nat \ {0} /\ Limit[l].window \in Nat /\ Limit[l].lockout \in Nat
  BY DEF LimiterAssumption
<1>4. now \in 0 .. MaxTime /\ MaxTime \in Nat
  BY DEF LimiterInv, LimiterTypeOK, LimiterAssumption
<1>5. /\ e = [attempts |-> e.attempts, start |-> e.start]
      /\ e.attempts \in 0 .. (Limit[l].max - 1)
      /\ e.start \in 0 .. now
      /\ now - e.start <= Limit[l].window
  <2>1. CASE e = Fresh
    BY <2>1, <1>3, <1>4, SMT DEF Fresh
  <2>2. CASE e # Fresh
    <3>1. ~(b.attempts >= Limit[l].max) /\ e = b /\ b # Fresh
      BY <2>2
    <3>2. /\ x \in DOMAIN entries /\ b = entries[x]
          /\ \/ now - entries[x].start <= Limit[l].window
             \/ entries[x].attempts >= Limit[l].max
      BY <3>1, BucketShape
    <3>3. /\ entries[x].attempts \in 1 .. Limit[l].max
          /\ entries[x].start \in 0 .. now
          /\ entries[x] = [attempts |-> entries[x].attempts, start |-> entries[x].start]
      BY <3>2, <1>2 DEF LimiterInv, LimiterTypeOK
    <3> HIDE DEF b, e
    <3> QED
      BY <3>1, <3>2, <3>3, <1>3, <1>4, SMT
  <2> QED
    BY <2>1, <2>2
<1> DEFINE new == [e EXCEPT !.attempts = @ + 1]
<1>6. /\ DOMAIN entries' = Kept(l) \cup {x}
      /\ entries'[x] = new
      /\ \A k \in Kept(l) \ {x} : entries'[k] = entries[k]
      /\ lockedAt' = [lockedAt EXCEPT ![x] =
                        IF e.attempts + 1 = Limit[l].max THEN now ELSE Never]
      /\ now' = now
  BY DEF Admit
<1>7. /\ new \in [attempts : 1 .. Limit[l].max, start : 0 .. now]
      /\ new.attempts = e.attempts + 1 /\ new.start = e.start
  <2> HIDE DEF e
  <2> QED
    BY <1>3, <1>5, SMT
<1> HIDE DEF e, new
<1>8. LimiterTypeOK'
  <2>1. DOMAIN entries' \subseteq Keys
    BY <1>1, <1>2, <1>6 DEF LimiterInv, LimiterTypeOK
  <2>2. ASSUME NEW k \in DOMAIN entries'
        PROVE  entries'[k] \in [attempts : 1 .. Limit[k[1]].max, start : 0 .. now']
    <3>1. CASE k = x
      BY <3>1, <1>2, <1>6, <1>7
    <3>2. CASE k # x
      BY <3>2, <1>1, <1>6, <2>2 DEF LimiterInv, LimiterTypeOK
    <3> QED
      BY <3>1, <3>2
  <2>3. lockedAt' \in [Keys -> 0 .. MaxTime \cup {Never}]
    BY <1>4, <1>6 DEF LimiterInv, LimiterTypeOK
  <2> QED
    BY <1>4, <1>6, <2>1, <2>2, <2>3 DEF LimiterTypeOK
<1>9. ASSUME NEW k \in Keys, lockedAt'[k] # Never
      PROVE  \/ now' >= lockedAt'[k] + Limit[k[1]].lockout
             \/ /\ k \in DOMAIN entries'
                /\ entries'[k].attempts = Limit[k[1]].max
                /\ lockedAt'[k] <= entries'[k].start + Limit[k[1]].window
  <2>1. CASE k = x
    <3>1. lockedAt'[x] = IF e.attempts + 1 = Limit[l].max THEN now ELSE Never
      BY <1>2, <1>6 DEF LimiterInv, LimiterTypeOK
    <3>2. e.attempts + 1 = Limit[l].max /\ lockedAt'[x] = now
      BY <3>1, <1>9, <2>1
    <3>3. now <= e.start + Limit[l].window
      BY <1>3, <1>4, <1>5, SMT
    <3> QED
      BY <1>2, <1>6, <1>7, <2>1, <3>2, <3>3
  <2>2. CASE k # x
    <3>1. lockedAt'[k] = lockedAt[k] /\ lockedAt[k] # Never
      BY <1>6, <1>9, <2>2 DEF LimiterInv, LimiterTypeOK
    <3>2. CASE now >= lockedAt[k] + Limit[k[1]].lockout
      BY <1>6, <3>1, <3>2
    <3>3. CASE ~(now >= lockedAt[k] + Limit[k[1]].lockout)
      <4>1. /\ k \in DOMAIN entries
            /\ entries[k].attempts = Limit[k[1]].max
            /\ lockedAt[k] <= entries[k].start + Limit[k[1]].window
        BY <3>1, <3>3 DEF LimiterInv
      <4>2. now < lockedAt[k] + Limit[k[1]].lockout
        BY <3>1, <3>3, RunningLockout
      <4>3. k \in Kept(l)
        BY <3>1, <4>1, <4>2, LockedIsKept
      <4> QED
        BY <1>6, <2>2, <3>1, <4>1, <4>3
    <3> QED
      BY <3>2, <3>3
  <2> QED
    BY <2>1, <2>2
<1> QED
  BY <1>8, <1>9 DEF LimiterInv

(* A reset forgets its own key and no other.                               *)
LEMMA ResetPreserves ==
  ASSUME LimiterAssumption, LimiterInv, NEW l \in Limiters, NEW n \in Names,
         Reset(l, n)
  PROVE  LimiterInv'
<1>1. /\ DOMAIN entries' = DOMAIN entries \ {<<l, n>>}
      /\ \A k \in DOMAIN entries' : entries'[k] = entries[k]
      /\ lockedAt' = [lockedAt EXCEPT ![<<l, n>>] = Never]
      /\ now' = now
  BY DEF Reset
<1>2. LimiterTypeOK'
  BY <1>1 DEF LimiterInv, LimiterTypeOK
<1>3. ASSUME NEW k \in Keys, lockedAt'[k] # Never
      PROVE  lockedAt'[k] = lockedAt[k] /\ k # <<l, n>>
  BY <1>1, <1>3 DEF LimiterInv, LimiterTypeOK
<1> QED
  BY <1>1, <1>2, <1>3 DEF LimiterInv

(* A restart forgets every key.                                            *)
LEMMA ForgetPreserves ==
  ASSUME LimiterAssumption, LimiterInv, Forget
  PROVE  LimiterInv'
<1>1. \A k \in Keys : lockedAt'[k] = Never
  BY DEF Forget
<1>2. LimiterTypeOK'
  BY SMT DEF LimiterInv, Forget, LimiterTypeOK, LimiterAssumption, Never
<1> QED
  BY <1>1, <1>2 DEF LimiterInv

(* Time only brings the end of a lockout closer.                           *)
LEMMA ElapsePreserves ==
  ASSUME LimiterAssumption, LimiterInv, Elapse
  PROVE  LimiterInv'
<1>1. now \in 0 .. MaxTime /\ now' = now + 1 /\ now' \in 0 .. MaxTime
  BY SMT DEF Elapse, LimiterInv, LimiterTypeOK, LimiterAssumption
<1>2. LimiterTypeOK'
  <2>1. ASSUME NEW k \in DOMAIN entries
        PROVE  entries[k] \in [attempts : 1 .. Limit[k[1]].max, start : 0 .. now']
    <3>1. entries[k] \in [attempts : 1 .. Limit[k[1]].max, start : 0 .. now]
      BY DEF LimiterInv, LimiterTypeOK
    <3>2. 0 .. now \subseteq 0 .. now'
      BY <1>1, SMT
    <3> QED
      BY <3>1, <3>2
  <2> QED
    BY <1>1, <2>1 DEF Elapse, LimiterInv, LimiterTypeOK
<1>3. ASSUME NEW k \in Keys, lockedAt[k] # Never,
             now >= lockedAt[k] + Limit[k[1]].lockout
      PROVE  now' >= lockedAt[k] + Limit[k[1]].lockout
  <2>1. Limit[k[1]].lockout \in Int
    BY DEF LimiterAssumption, Keys
  <2>2. lockedAt[k] \in Int
    BY SMT DEF LimiterInv, LimiterTypeOK, LimiterAssumption, Never
  <2> QED
    BY <1>1, <1>3, <2>1, <2>2, SMT
<1> QED
  BY <1>2, <1>3 DEF LimiterInv, Elapse

(* The limiter's own steps preserve its invariant, for any limits, any     *)
(* number of keys and any cap.                                             *)
LEMMA LimiterStep ==
  ASSUME LimiterAssumption, LimiterInv, [LimiterNext]_limiterVars
  PROVE  LimiterInv'
<1>1. CASE UNCHANGED limiterVars
  BY <1>1 DEF limiterVars, LimiterInv, LimiterTypeOK
<1>2. ASSUME NEW l \in Limiters, NEW n \in Names,
             Refuse(l, n) \/ Admit(l, n) \/ Reset(l, n)
      PROVE  LimiterInv'
  BY <1>2, RefusePreserves, AdmitPreserves, ResetPreserves
<1>3. CASE Forget
  BY <1>3, ForgetPreserves
<1>4. CASE Elapse
  BY <1>4, ElapsePreserves
<1> QED
  BY <1>1, <1>2, <1>3, <1>4 DEF LimiterNext

(* A bucket as the invariant describes it refuses its key. *)
LEMMA LockedIsRefused ==
  ASSUME LimiterAssumption, LimiterInv
  PROVE  LockoutHolds
<1> SUFFICES ASSUME NEW k \in Keys, lockedAt[k] # Never,
                    now < lockedAt[k] + Limit[k[1]].lockout
             PROVE  Exhausted(k[1], k[2])
  BY DEF LockoutHolds
<1>1. k[1] \in Limiters /\ k[2] \in Names /\ k = <<k[1], k[2]>>
  BY DEF Keys
<1>2. /\ Limit[k[1]].max \in Nat /\ Limit[k[1]].window \in Nat
      /\ Limit[k[1]].lockout \in Nat
  BY <1>1 DEF LimiterAssumption
<1>3. now \in Int /\ lockedAt[k] \in Int
  BY SMT DEF LimiterInv, LimiterTypeOK, LimiterAssumption, Never
<1>4. /\ k \in DOMAIN entries
      /\ entries[k].attempts = Limit[k[1]].max
      /\ lockedAt[k] <= entries[k].start + Limit[k[1]].window
  BY <1>2, <1>3, SMT DEF LimiterInv
<1>5. entries[k].start \in Int
  BY <1>3, <1>4, SMT DEF LimiterInv, LimiterTypeOK
<1>6. k \in Kept(k[1])
  BY <1>1, <1>4, LockedIsKept
<1>7. now - entries[k].start < Total(k[1])
  BY <1>2, <1>3, <1>4, <1>5, SMT DEF Total
<1>8. Bucket(k[1], k[2]) = entries[k]
  <2>1. Bucket(k[1], k[2]) = Rolled(k[1], entries[k])
    BY <1>1, <1>6 DEF Bucket
  <2>2. /\ ~(now - entries[k].start > Total(k[1]))
        /\ ~(entries[k].attempts < Limit[k[1]].max)
    BY <1>2, <1>3, <1>4, <1>5, <1>7, SMT DEF Total
  <2> QED
    BY <2>1, <2>2 DEF Rolled
<1> QED
  BY <1>2, <1>4, <1>7, <1>8, SMT DEF Exhausted

(* LoginRateLimiter: a key that used up its attempts is refused for the    *)
(* whole lockout after the last of them (check_and_record_failure).        *)
THEOREM LimiterLocksOut == LimiterSpec => []LockoutHolds
<1>1. LimiterInit => LimiterInv
  BY LimiterAssumption, LimiterInitial
<1>2. LimiterInv /\ [LimiterNext]_limiterVars => LimiterInv'
  BY LimiterAssumption, LimiterStep
<1>3. LimiterInv => LockoutHolds
  BY LimiterAssumption, LockedIsRefused
<1> QED
  BY <1>1, <1>2, <1>3, PTL DEF LimiterSpec

-----------------------------------------------------------------------------
(* Every step of register, login and delete_user is a step of a limiter or *)
(* leaves both limiters alone.                                             *)
LEMMA StepIsLimiterStep ==
  ASSUME AccountsAssumption, TypeOK, [Next]_vars
  PROVE  [LimiterNext]_limiterVars
<1>1. /\ "login" \in Limiters /\ "register" \in Limiters
      /\ LoginNames \subseteq Usernames
      /\ \A n \in Usernames : Normalise[n] \in Names
  BY DEF AccountsAssumption
<1>2. CASE UNCHANGED vars
  BY <1>2 DEF vars, limiterVars
<1>3. ASSUME NEW c \in Calls, Step(c)
      PROVE  [LimiterNext]_limiterVars
  <2>1. ASSUME NEW n \in Usernames, Register(c, n)
        PROVE  LimiterNext
    BY <1>1, <2>1 DEF Register, LimiterNext
  <2>2. ASSUME NEW n \in LoginNames, Login(c, n)
        PROVE  LimiterNext
    BY <1>1, <2>2 DEF Login, LimiterNext
  <2>3. ASSUME \/ FindByUsername(c) \/ SwapLatch(c) \/ CountUsers(c)
               \/ \E i \in UserIds : CreateUser(c, i)
               \/ CreateUserRefused(c) \/ AssignRole(c) \/ StoreFails(c)
               \/ \E right \in BOOLEAN : Authenticate(c, right)
        PROVE  UNCHANGED limiterVars
    BY <2>3 DEF FindByUsername, SwapLatch, CountUsers, CreateUser,
                CreateUserRefused, AssignRole, StoreFails, Authenticate
  <2>4. call[c].name \in Usernames
    BY DEF TypeOK, Call
  <2>5. CASE Registered(c)
    BY <1>1, <2>4, <2>5 DEF Registered, LimiterNext
  <2>6. CASE Authenticated(c)
    BY <1>1, <2>4, <2>6 DEF Authenticated, LimiterNext
  <2> QED
    BY <1>3, <2>1, <2>2, <2>3, <2>5, <2>6 DEF Step
<1>4. ASSUME NEW n \in Usernames, RegisterRefused(n)
      PROVE  LimiterNext
  BY <1>1, <1>4 DEF RegisterRefused, LimiterNext
<1>5. ASSUME NEW n \in LoginNames, LoginRefused(n)
      PROVE  LimiterNext
  BY <1>1, <1>5 DEF LoginRefused, LimiterNext
<1>6. ASSUME NEW n \in Usernames, DeleteUser(n)
      PROVE  UNCHANGED limiterVars
  BY <1>6 DEF DeleteUser
<1>7. CASE Restart
  BY <1>7 DEF Restart, LimiterNext
<1>8. CASE Tick
  BY <1>8 DEF Tick, LimiterNext
<1> QED
  BY <1>2, <1>3, <1>4, <1>5, <1>6, <1>7, <1>8 DEF Next

-----------------------------------------------------------------------------
(* The call record at rest. *)
LEMMA NoCallShape ==
  ASSUME AccountsAssumption
  PROVE  NoCall \in Call /\ NoCall.at = "idle" /\ ~NoCall.first
BY DEF AccountsAssumption, NoCall, Call

(* A call that moves without winning or creating anything keeps the        *)
(* invariant.                                                              *)
LEMMA CallMoves ==
  ASSUME AccountsInv, LimiterTypeOK', NEW c \in Calls, NEW rec \in Call,
         rec.at \notin {"count", "create", "assign", "settle"}, ~rec.first,
         call' = [call EXCEPT ![c] = rec],
         UNCHANGED <<users, role, created, latch>>
  PROVE  AccountsInv'
<1>1. /\ call' \in [Calls -> Call]
      /\ call'[c] = rec
      /\ \A d \in Calls : d # c => call'[d] = call[d]
  BY DEF AccountsInv, TypeOK
<1>2. TypeOK'
  BY <1>1 DEF AccountsInv, TypeOK
<1>3. \A d \in Calls : Winner(d)' => d # c /\ Winner(d)
  BY <1>1 DEF Winner
<1>4. OneFirstUser'
  BY DEF AccountsInv, OneFirstUser
<1> QED
  BY <1>1, <1>2, <1>3, <1>4 DEF AccountsInv, FirstUser

(* has_first_user.swap: the caller that wins finds no other winner.        *)
LEMMA SwapLatchPreserves ==
  ASSUME AccountsInv, LimiterTypeOK', NEW c \in Calls, SwapLatch(c),
         AccountsAssumption
  PROVE  AccountsInv'
<1> DEFINE rec == [call[c] EXCEPT !.at = IF AutoAdmin /\ ~latch THEN "count" ELSE "create"]
<1>1. call[c] \in Call /\ call[c].at = "latch" /\ ~call[c].first
  BY DEF SwapLatch, AccountsInv, TypeOK
<1>2. call' = [call EXCEPT ![c] = rec] /\ UNCHANGED <<users, role, created>>
  BY DEF SwapLatch, Goto, Become
<1>3. rec \in Call /\ rec.at \in {"count", "create"} /\ ~rec.first
  BY <1>1 DEF Call
<1>4. /\ call' \in [Calls -> Call]
      /\ call'[c] = rec
      /\ \A d \in Calls : d # c => call'[d] = call[d]
  BY <1>2, <1>3 DEF AccountsInv, TypeOK
<1>5. latch' = (latch \/ AutoAdmin) /\ latch' \in BOOLEAN
  BY DEF SwapLatch, AccountsInv, TypeOK, AccountsAssumption
<1>6. TypeOK'
  BY <1>2, <1>4, <1>5 DEF AccountsInv, TypeOK
<1>7. rec.at = "count" => AutoAdmin /\ ~latch
  BY <1>1 DEF Call
<1> HIDE DEF rec
<1>8. \A d \in Calls : Winner(d)' => latch'
  BY <1>3, <1>4, <1>5, <1>7 DEF Winner, AccountsInv
<1>9. \A d, g \in Calls : Winner(d)' /\ Winner(g)' => d = g
  BY <1>3, <1>4, <1>7 DEF Winner, AccountsInv
<1>10. OneFirstUser'
  BY <1>2 DEF AccountsInv, OneFirstUser
<1> QED
  BY <1>2, <1>3, <1>4, <1>6, <1>8, <1>9, <1>10 DEF AccountsInv, FirstUser

(* count_users: only the winner learns that it is first, and only over an  *)
(* empty table.                                                            *)
LEMMA CountUsersPreserves ==
  ASSUME AccountsInv, LimiterTypeOK', NEW c \in Calls, CountUsers(c)
  PROVE  AccountsInv'
<1> DEFINE rec == [call[c] EXCEPT !.at = "create", !.first = (DOMAIN users = {})]
<1>1. call[c] \in Call /\ call[c].at = "count" /\ Winner(c)
  BY DEF CountUsers, AccountsInv, TypeOK, Winner
<1>2. call' = [call EXCEPT ![c] = rec] /\ UNCHANGED <<users, role, created, latch>>
  BY DEF CountUsers, Become
<1>3. rec \in Call /\ rec.at = "create" /\ (rec.first => DOMAIN users = {})
  BY <1>1 DEF Call
<1> HIDE DEF rec
<1>4. /\ call' \in [Calls -> Call]
      /\ call'[c] = rec
      /\ \A d \in Calls : d # c => call'[d] = call[d]
  BY <1>2, <1>3 DEF AccountsInv, TypeOK
<1>5. TypeOK'
  BY <1>2, <1>4 DEF AccountsInv, TypeOK
<1>6. \A d \in Calls : Winner(d)' => Winner(d)
  BY <1>1, <1>4 DEF Winner
<1>7. OneFirstUser'
  BY <1>2 DEF AccountsInv, OneFirstUser
<1> QED
  BY <1>2, <1>3, <1>4, <1>5, <1>6, <1>7 DEF AccountsInv, FirstUser

(* create_user: a fresh id, that nobody assigned a role to.                *)
LEMMA CreateUserPreserves ==
  ASSUME AccountsInv, LimiterTypeOK', NEW c \in Calls, NEW i \in UserIds,
         CreateUser(c, i)
  PROVE  AccountsInv'
<1> DEFINE rec == [call[c] EXCEPT !.at = "assign", !.id = i]
           n0 == call[c].name
<1>1. call[c] \in Call /\ call[c].at = "create" /\ n0 \in Usernames
  BY DEF CreateUser, AccountsInv, TypeOK, Call
<1>2. /\ call' = [call EXCEPT ![c] = rec] /\ UNCHANGED <<role, latch>>
      /\ created' = created \cup {i} /\ i \notin created
      /\ n0 \notin DOMAIN users
      /\ DOMAIN users' = DOMAIN users \cup {n0}
      /\ users'[n0] = i /\ \A n \in DOMAIN users : users'[n] = users[n]
  BY DEF CreateUser, Become
<1>3. /\ rec \in Call /\ rec.at = "assign" /\ rec.id = i
      /\ rec.first = call[c].first
  BY <1>1 DEF Call
<1> HIDE DEF rec, n0
<1>4. /\ call' \in [Calls -> Call]
      /\ call'[c] = rec
      /\ \A d \in Calls : d # c => call'[d] = call[d]
  BY <1>2, <1>3 DEF AccountsInv, TypeOK
<1>5. \A n \in DOMAIN users : users[n] \in created /\ users[n] # i
  BY <1>2 DEF AccountsInv, TypeOK
<1>6. TypeOK'
  BY <1>1, <1>2, <1>4, <1>5 DEF AccountsInv, TypeOK
<1>7. \A d \in Calls : Winner(d)' => Winner(d)
  BY <1>1, <1>3, <1>4 DEF Winner
<1>8. role[i] = "none"
  BY <1>2 DEF AccountsInv
<1>9. \A n \in DOMAIN users' : FirstUser(n)' => n \in DOMAIN users /\ FirstUser(n)
  BY <1>2, <1>8 DEF FirstUser
<1>10. OneFirstUser'
  BY <1>2, <1>9 DEF AccountsInv, OneFirstUser, FirstUser
<1>11. \A d \in Calls : (call'[d].first /\ call'[d].at = "assign") =>
         \A n \in DOMAIN users' : FirstUser(n)' => users'[n] = call'[d].id
  <2>1. SUFFICES ASSUME NEW d \in Calls, call'[d].first, call'[d].at = "assign",
                        NEW n \in DOMAIN users', FirstUser(n)'
                 PROVE  users'[n] = call'[d].id
    OBVIOUS
  <2>2. n \in DOMAIN users /\ FirstUser(n) /\ users'[n] = users[n]
    BY <1>2, <1>9, <2>1
  <2>3. CASE d = c
    BY <1>1, <1>3, <1>4, <2>1, <2>2, <2>3 DEF AccountsInv
  <2>4. CASE d # c
    BY <1>4, <2>1, <2>2, <2>4 DEF AccountsInv
  <2> QED
    BY <2>3, <2>4
<1> QED
  BY <1>1, <1>2, <1>3, <1>4, <1>6, <1>7, <1>9, <1>10, <1>11 DEF AccountsInv

(* assign_role: the winner's account is the only one to get the first      *)
(* role.                                                                   *)
LEMMA AssignRolePreserves ==
  ASSUME AccountsInv, LimiterTypeOK', NEW c \in Calls, AssignRole(c)
  PROVE  AccountsInv'
<1> DEFINE rec == [call[c] EXCEPT !.at = "settle"]
           i == call[c].id
<1>1. call[c] \in Call /\ call[c].at = "assign" /\ i \in UserIds /\ i \in created
  BY DEF AssignRole, AccountsInv, TypeOK, Call
<1>2. /\ call' = [call EXCEPT ![c] = rec] /\ UNCHANGED <<users, created, latch>>
      /\ role' = [role EXCEPT ![i] = IF call[c].first THEN "first_user_role"
                                                     ELSE "default_role"]
  BY DEF AssignRole, Goto, Become
<1>3. rec \in Call /\ rec.at = "settle" /\ rec.first = call[c].first
  BY <1>1 DEF Call
<1> HIDE DEF rec, i
<1>4. /\ call' \in [Calls -> Call]
      /\ call'[c] = rec
      /\ \A d \in Calls : d # c => call'[d] = call[d]
  BY <1>2, <1>3 DEF AccountsInv, TypeOK
<1>5. /\ role' \in [UserIds -> {"none", "first_user_role", "default_role"}]
      /\ role'[i] = IF call[c].first THEN "first_user_role" ELSE "default_role"
      /\ \A j \in UserIds : j # i => role'[j] = role[j]
  BY <1>1, <1>2 DEF AccountsInv, TypeOK
<1>6. TypeOK'
  BY <1>2, <1>4, <1>5 DEF AccountsInv, TypeOK
<1>7. \A d \in Calls : Winner(d)' => Winner(d)
  BY <1>1, <1>3, <1>4 DEF Winner
<1>8. \A n \in DOMAIN users : users[n] \in UserIds
  BY DEF AccountsInv, TypeOK
<1>9. CASE call[c].first
  <2>1. \A d \in Calls : call'[d].first => d = c
    BY <1>4, <1>9 DEF AccountsInv, Winner
  <2>2. \A n \in DOMAIN users : FirstUser(n)' => users[n] = i
    BY <1>1, <1>2, <1>5, <1>8, <1>9 DEF AccountsInv, FirstUser, i
  <2>3. OneFirstUser'
    BY <1>2, <1>6, <2>2 DEF OneFirstUser, FirstUser, TypeOK
  <2> QED
    BY <1>1, <1>2, <1>3, <1>4, <1>5, <1>6, <1>7, <2>1, <2>3 DEF AccountsInv
<1>10. CASE ~call[c].first
  <2>1. \A n \in DOMAIN users : FirstUser(n)' => FirstUser(n)
    BY <1>2, <1>5, <1>8, <1>10 DEF FirstUser
  <2>2. OneFirstUser'
    BY <1>2, <2>1 DEF AccountsInv, OneFirstUser, FirstUser
  <2> QED
    BY <1>1, <1>2, <1>3, <1>4, <1>5, <1>6, <1>7, <1>10, <2>1, <2>2 DEF AccountsInv
<1> QED
  BY <1>9, <1>10

(* delete_user takes an account away and gives nothing.                    *)
LEMMA DeleteUserPreserves ==
  ASSUME AccountsInv, LimiterTypeOK', NEW n0 \in Usernames, DeleteUser(n0)
  PROVE  AccountsInv'
<1>1. /\ UNCHANGED <<role, created, latch, call>>
      /\ DOMAIN users' \subseteq DOMAIN users
      /\ \A n \in DOMAIN users' : users'[n] = users[n]
  BY DEF DeleteUser
<1>2. TypeOK'
  BY <1>1 DEF AccountsInv, TypeOK
<1>3. \A n \in DOMAIN users' : FirstUser(n)' => FirstUser(n)
  BY <1>1 DEF FirstUser
<1>4. OneFirstUser'
  BY <1>1, <1>3 DEF AccountsInv, OneFirstUser, FirstUser
<1> QED
  BY <1>1, <1>2, <1>3, <1>4 DEF AccountsInv, Winner

(* A restart loses the latch and every call that could have relied on it.  *)
LEMMA RestartPreserves ==
  ASSUME AccountsInv, LimiterTypeOK', Restart, AccountsAssumption
  PROVE  AccountsInv'
<1>1. /\ UNCHANGED <<users, role, created>> /\ latch' = FALSE
      /\ \A c \in Calls : call'[c] = NoCall
      /\ call' \in [Calls -> Call]
  BY NoCallShape DEF Restart
<1>2. TypeOK'
  BY <1>1 DEF AccountsInv, TypeOK
<1>3. \A c \in Calls : call'[c].at = "idle" /\ ~call'[c].first
  BY <1>1, NoCallShape
<1>4. OneFirstUser'
  BY <1>1 DEF AccountsInv, OneFirstUser
<1> QED
  BY <1>1, <1>2, <1>3, <1>4 DEF AccountsInv, Winner

(* Every step of AuthService preserves the invariant; most only move one   *)
(* call on, or do not touch the accounts.                                  *)
LEMMA AccountsStep ==
  ASSUME LimiterAssumption, AccountsAssumption, LimiterInv, AccountsInv,
         [Next]_vars
  PROVE  LimiterInv' /\ AccountsInv'
<1>1. LimiterInv' /\ LimiterTypeOK'
  <2>1. [LimiterNext]_limiterVars
    BY StepIsLimiterStep DEF AccountsInv
  <2> QED
    BY <2>1, LimiterStep DEF LimiterInv
<1>2. ASSUME UNCHANGED <<users, role, created, latch, call>>
      PROVE  AccountsInv'
  <2>1. TypeOK'
    BY <1>1, <1>2 DEF AccountsInv, TypeOK
  <2>2. OneFirstUser'
    BY <1>2 DEF AccountsInv, OneFirstUser
  <2> QED
    BY <1>2, <2>1, <2>2 DEF AccountsInv, Winner, FirstUser
<1>3. ASSUME NEW c \in Calls, Step(c)
      PROVE  AccountsInv'
  <2>1. NoCall \in Call /\ NoCall.at = "idle" /\ ~NoCall.first
    BY NoCallShape
  <2>2. call[c] \in Call
    BY DEF AccountsInv, TypeOK
  <2>3. ASSUME NEW at \in {"find", "authenticate"}, NEW n \in Usernames,
               Become(c, [NoCall EXCEPT !.at = at, !.name = n]),
               UNCHANGED <<users, role, created, latch>>
        PROVE  AccountsInv'
    <3> DEFINE rec == [NoCall EXCEPT !.at = at, !.name = n]
    <3>1. /\ rec \in Call /\ ~rec.first
          /\ rec.at \notin {"count", "create", "assign", "settle"}
      BY <2>1, <2>3 DEF Call
    <3>2. call' = [call EXCEPT ![c] = rec]
      BY <2>3 DEF Become
    <3> QED
      BY <1>1, <2>3, <3>1, <3>2, CallMoves
  <2>4. ASSUME Return(c), UNCHANGED <<users, role, created, latch>>
        PROVE  AccountsInv'
    <3>1. call' = [call EXCEPT ![c] = NoCall]
      BY <2>4 DEF Return, Become
    <3> QED
      BY <1>1, <2>1, <2>4, <3>1, CallMoves
  <2>5. ASSUME NEW at \in {"latch", "clear"}, Goto(c, at),
               call[c].at \in {"find", "authenticate"},
               UNCHANGED <<users, role, created, latch>>
        PROVE  AccountsInv'
    <3> DEFINE rec == [call[c] EXCEPT !.at = at]
    <3>1. ~call[c].first
      BY <2>5 DEF AccountsInv
    <3>2. /\ rec \in Call /\ ~rec.first
          /\ rec.at \notin {"count", "create", "assign", "settle"}
      BY <2>2, <2>5, <3>1 DEF Call
    <3>3. call' = [call EXCEPT ![c] = rec]
      BY <2>5 DEF Goto, Become
    <3> QED
      BY <1>1, <2>5, <3>2, <3>3, CallMoves
  <2>6. ASSUME NEW n \in Usernames, Register(c, n) \/ Login(c, n)
        PROVE  AccountsInv'
    BY <2>3, <2>6 DEF Register, Login
  <2>7. CASE FindByUsername(c)
    BY <2>4, <2>5, <2>7 DEF FindByUsername
  <2>8. ASSUME NEW right \in BOOLEAN, Authenticate(c, right)
        PROVE  AccountsInv'
    BY <2>4, <2>5, <2>8 DEF Authenticate
  <2>9. CASE CreateUserRefused(c) \/ Registered(c) \/ Authenticated(c) \/ StoreFails(c)
    BY <2>4, <2>9 DEF CreateUserRefused, Registered, Authenticated, StoreFails
  <2>10. CASE SwapLatch(c)
    BY <1>1, <2>10, SwapLatchPreserves
  <2>11. CASE CountUsers(c)
    BY <1>1, <2>11, CountUsersPreserves
  <2>12. ASSUME NEW i \in UserIds, CreateUser(c, i)
         PROVE  AccountsInv'
    BY <1>1, <2>12, CreateUserPreserves
  <2>13. CASE AssignRole(c)
    BY <1>1, <2>13, AssignRolePreserves
  <2>14. LoginNames \subseteq Usernames
    BY DEF AccountsAssumption
  <2> QED
    BY <1>3, <2>6, <2>7, <2>8, <2>9, <2>10, <2>11, <2>12, <2>13, <2>14 DEF Step
<1>4. ASSUME NEW n \in Usernames, DeleteUser(n)
      PROVE  AccountsInv'
  BY <1>1, <1>4, DeleteUserPreserves
<1>5. CASE Restart
  BY <1>1, <1>5, RestartPreserves
<1>6. ASSUME NEW n \in Usernames, RegisterRefused(n) \/ LoginRefused(n)
      PROVE  AccountsInv'
  BY <1>2, <1>6 DEF RegisterRefused, LoginRefused
<1>7. CASE Tick \/ UNCHANGED vars
  BY <1>1, <1>2, <1>7 DEF Tick, vars
<1>8. LoginNames \subseteq Usernames
  BY DEF AccountsAssumption
<1> QED
  BY <1>1, <1>3, <1>4, <1>5, <1>6, <1>7, <1>8 DEF Next

(* A service over an empty database satisfies both invariants. *)
LEMMA AccountsInitial ==
  ASSUME LimiterAssumption, AccountsAssumption, Init
  PROVE  LimiterInv /\ AccountsInv
<1>1. LimiterInv /\ LimiterTypeOK
  BY LimiterInitial DEF Init, LimiterInv
<1>2. \A c \in Calls : call[c] \in Call /\ call[c].at = "idle" /\ ~call[c].first
  BY NoCallShape DEF Init
<1>3. DOMAIN users = {} /\ \A i \in UserIds : role[i] = "none"
  BY DEF Init
<1>4. call \in [Calls -> Call]
  BY NoCallShape DEF Init
<1>5. TypeOK
  BY <1>1, <1>3, <1>4 DEF Init, TypeOK
<1> QED
  BY <1>1, <1>2, <1>3, <1>5 DEF AccountsInv, OneFirstUser, Winner

(* The two invariants hold of every run of AuthService.                    *)
THEOREM AccountsInvariant == Spec => [](LimiterInv /\ AccountsInv)
<1>1. Init => LimiterInv /\ AccountsInv
  BY LimiterAssumption, AccountsAssumption, AccountsInitial
<1>2. (LimiterInv /\ AccountsInv) /\ [Next]_vars => (LimiterInv /\ AccountsInv)'
  BY LimiterAssumption, AccountsAssumption, AccountsStep
<1> QED
  BY <1>1, <1>2, PTL DEF Spec

(* The accounts, the calls in flight and the limiters' buckets keep their  *)
(* shape: distinct accounts have distinct ids, and a bucket never counts   *)
(* past its maximum.                                                       *)
THEOREM AccountsTyped == Spec => []TypeOK
<1>1. LimiterInv /\ AccountsInv => TypeOK
  BY DEF AccountsInv
<1> QED
  BY <1>1, AccountsInvariant, PTL

(* register_impl hands out the first user's role at most once, for any     *)
(* number of concurrent registrations, failures, deletions and restarts.   *)
THEOREM FirstUserUnique == Spec => []OneFirstUser
<1>1. LimiterInv /\ AccountsInv => OneFirstUser
  BY DEF AccountsInv
<1> QED
  BY <1>1, AccountsInvariant, PTL

(* What AuthService does to its limiters is what the limiter alone allows: *)
(* the accounts refine LimiterSpec.                                        *)
THEOREM AccountsUseLimiters == Spec => LimiterSpec
<1>1. Init => LimiterInit
  BY DEF Init
<1>2. AccountsInv /\ [Next]_vars => [LimiterNext]_limiterVars
  BY AccountsAssumption, StepIsLimiterStep DEF AccountsInv
<1> QED
  BY <1>1, <1>2, AccountsInvariant, PTL DEF Spec, LimiterSpec

(* Hence the lockout of check_and_record_failure holds in AuthService.     *)
THEOREM AccountsLockOut == Spec => []LockoutHolds
BY AccountsUseLimiters, LimiterLocksOut, PTL

-----------------------------------------------------------------------------
(* LoginFlow *)

(* What a call in flight holds, by the step it is at.                      *)
LEMMA FlowCallShape ==
  ASSUME NEW k \in FlowCall
  PROVE  /\ k.at = "roles" => k.session \in BOOLEAN
         /\ k.at = "issue" => k.sid \in Sids \cup {NoSession}
         /\ k.at = "revoke" => k.new \in Passwords
         /\ k.at = "record" =>
              k \in [at : {"record"}, key : RevocationKeys, then : RevokingAt, new : Passwords, when : Nat]
         /\ k.at \in RevokingAt =>
              k \in [at : RevokingAt, key : RevocationKeys, new : Passwords, when : Nat, sure : BOOLEAN]
<1>1. CASE k = NoLogin
  BY <1>1 DEF NoLogin, RevokingAt
<1>2. CASE k \in [at : {"roles"}, session : BOOLEAN]
  BY <1>2 DEF RevokingAt
<1>3. CASE k \in [at : {"session"}]
  BY <1>3 DEF RevokingAt
<1>4. CASE k \in [at : {"issue"}, sid : Sids \cup {NoSession}]
  BY <1>4 DEF RevokingAt
<1>5. CASE k \in [at : {"revoke"}, new : Passwords]
  BY <1>5 DEF RevokingAt
<1>6. CASE k \in [at : {"record"}, key : RevocationKeys, then : RevokingAt, new : Passwords, when : Nat]
  BY <1>6 DEF RevokingAt
<1>7. CASE k \in [at : RevokingAt, key : RevocationKeys, new : Passwords, when : Nat, sure : BOOLEAN]
  BY <1>7 DEF RevokingAt
<1> QED
  BY <1>1, <1>2, <1>3, <1>4, <1>5, <1>6, <1>7 DEF FlowCall

(* A step of one call leaves the other calls alone.                        *)
LEMMA ProceedsAlone ==
  ASSUME running \in [LoginCalls -> FlowCall], NEW c \in LoginCalls, NEW k \in FlowCall, Proceed(c, k)
  PROVE  /\ running' \in [LoginCalls -> FlowCall] /\ running'[c] = k
         /\ \A d \in LoginCalls \ {c} : running'[d] = running[d]
<1> QED
  BY DEF Proceed

(* Both ways a call can stand.                                             *)
LEMMA EndingIsACall ==
  ASSUME NEW c \in LoginCalls, EndLogin(c)
  PROVE  NoLogin \in FlowCall /\ NoLogin.at = "idle" /\ Proceed(c, NoLogin)
<1> QED
  BY DEF EndLogin, FlowCall, NoLogin

(* The call that is about to write samples no earlier second than any      *)
(* revocation on record, so what is on record stays there while one call   *)
(* moves on without writing.                                               *)
LEMMA OnRecordKept ==
  ASSUME FlowInv, NEW c \in LoginCalls, NEW k \in FlowCall, Proceed(c, k),
         k.at = "record" => k.when = second,
         UNCHANGED <<revocations, notBefore>>,
         NEW key, NEW when \in Nat, when <= second, OnRecord(key, when)
  PROVE  OnRecord(key, when)'
<1>1. /\ running'[c] = k
      /\ \A d \in LoginCalls \ {c} : running'[d] = running[d]
  BY ProceedsAlone DEF FlowInv
<1>2. \A d \in LoginCalls :
         (running'[d].at = "record" /\ running'[d].key = key) =>
            \/ when <= running'[d].when
            \/ /\ running[d].at = "record" /\ running[d].key = key
               /\ running'[d].when = running[d].when
  BY <1>1
<1> QED
  BY <1>1, <1>2 DEF OnRecord, Stamp

(* A step of one call that writes no revocation keeps the invariant, if it *)
(* carries on only what is on record, and history gains only that.         *)
LEMMA FlowCallMoves ==
  ASSUME FlowInv, NEW c \in LoginCalls, NEW k \in FlowCall, Proceed(c, k),
         k.at = "record" => k.when = second,
         k.at \in RevokingAt => (k.when <= second /\ (k.sure => OnRecord(k.key, k.when))),
         UNCHANGED <<revocations, notBefore, second>>,
         FlowTypeOK',
         finished' \subseteq [key : RevocationKeys, when : Nat, sure : BOOLEAN],
         \A x \in finished' : x.when <= second /\ (x.sure => OnRecord(x.key, x.when))
  PROVE  FlowInv'
<1>1. /\ running' \in [LoginCalls -> FlowCall] /\ running'[c] = k
      /\ \A d \in LoginCalls \ {c} : running'[d] = running[d]
  BY ProceedsAlone DEF FlowInv
<1>2. second \in Nat
  BY FlowAssumption DEF FlowInv
<1>3. \A d \in LoginCalls : running'[d].at \in {"record"} \cup RevokingAt => running'[d].when <= second
  BY <1>1, <1>2 DEF FlowInv
<1>4. ASSUME NEW x \in finished', x.sure
      PROVE  OnRecord(x.key, x.when)'
  BY <1>4, OnRecordKept
<1>5. ASSUME NEW d \in LoginCalls, running'[d].at \in RevokingAt, running'[d].sure
      PROVE  OnRecord(running[d].key, running[d].when)'
  <2>1. PICK key, when : key = running'[d].key /\ when = running'[d].when
    OBVIOUS
  <2>2. running'[d] \in FlowCall
    BY <1>1
  <2>3. when \in Nat /\ when <= second
    BY <1>3, <1>5, <2>1, <2>2, FlowCallShape
  <2>4. OnRecord(key, when)
    <3>1. CASE d = c
      BY <1>1, <1>5, <2>1, <3>1
    <3>2. CASE d # c
      BY <1>1, <1>5, <2>1, <3>2 DEF FlowInv, RevocationsStand
    <3> QED
      BY <3>1, <3>2
  <2>5. OnRecord(key, when)'
    BY <2>3, <2>4, OnRecordKept
  <2> QED
    BY <2>1, <2>5 DEF OnRecord, Stamp
<1>6. RevocationsStand'
  BY <1>4, <1>5 DEF RevocationsStand
<1> QED
  BY <1>1, <1>2, <1>3, <1>6 DEF FlowInv

(* In particular a step that also leaves history alone.                    *)
LEMMA FlowCallMovesQuietly ==
  ASSUME FlowInv, NEW c \in LoginCalls, NEW k \in FlowCall, Proceed(c, k),
         k.at = "record" => k.when = second,
         k.at \in RevokingAt => (k.when <= second /\ ~ k.sure),
         UNCHANGED <<revocations, notBefore, second, finished>>,
         FlowTypeOK'
  PROVE  FlowInv'
<1>1. \A x \in finished' : x.when <= second /\ (x.sure => OnRecord(x.key, x.when))
  BY DEF FlowInv, RevocationsStand
<1>2. finished' \subseteq [key : RevocationKeys, when : Nat, sure : BOOLEAN]
  BY DEF FlowInv
<1> QED
  BY <1>1, <1>2, FlowCallMoves

(* What only a call sees does not concern the types.                       *)
LEMMA OthersKeepTypes ==
  ASSUME FlowInv, UNCHANGED FlowOthers
  PROVE  FlowTypeOK' /\ UNCHANGED <<revocations, notBefore, second, finished>>
<1> QED
  BY DEF FlowInv, FlowOthers, FlowTypeOK

(* A call that reads the clock for a revocation.                           *)
LEMMA SamplingKeeps ==
  ASSUME FlowInv, NEW c \in LoginCalls, NEW key \in RevocationKeys, NEW then \in RevokingAt,
         NEW new \in Passwords, Proceed(c, Sampled(key, then, new)), UNCHANGED FlowOthers
  PROVE  FlowInv'
<1> DEFINE k == Sampled(key, then, new)
<1>1. second \in Nat
  BY FlowAssumption DEF FlowInv
<1>2. k \in FlowCall /\ k.at = "record" /\ k.when = second /\ Proceed(c, k)
  BY <1>1 DEF Sampled, FlowCall
<1>3. k.at \notin RevokingAt
  BY <1>2 DEF RevokingAt
<1> HIDE DEF k
<1> QED
  BY <1>2, <1>3, OthersKeepTypes, FlowCallMovesQuietly

(* Logins up to the session, the beginnings of revoking calls, a failing   *)
(* store and a lost write.                                                 *)
LEMMA QuietSteps ==
  ASSUME FlowInv, NEW c \in LoginCalls,
         \/ FetchRoles(c) \/ FlowStoreFails(c) \/ RevokeAllForUser(c) \/ DeleteBegin(c) \/ RevocationLost(c)
         \/ \E s \in Sids : LogoutBegin(c, s)
         \/ \E p \in Passwords : \E session \in BOOLEAN : AuthenticateUser(c, p, session)
         \/ \E p, q \in Passwords : ChangeBegin(c, p, q)
  PROVE  FlowInv'
<1>0. running[c] \in FlowCall /\ FirstPassword \in Passwords /\ UserKey \in RevocationKeys
  BY FlowAssumption DEF FlowInv, RevocationKeys
<1>1. CASE FetchRoles(c)
  <2> DEFINE k == IF running[c].session THEN [at |-> "session"] ELSE [at |-> "issue", sid |-> NoSession]
  <2>1. k \in FlowCall /\ k.at \in {"session", "issue"}
    BY DEF FlowCall
  <2>2. Proceed(c, k) /\ UNCHANGED FlowOthers
    BY <1>1 DEF FetchRoles
  <2>3. k.at # "record" /\ k.at \notin RevokingAt
    BY <2>1 DEF RevokingAt
  <2> HIDE DEF k
  <2> QED
    BY <2>1, <2>2, <2>3, OthersKeepTypes, FlowCallMovesQuietly
<1>2. CASE FlowStoreFails(c)
  <2>1. /\ NoLogin \in FlowCall /\ Proceed(c, NoLogin) /\ UNCHANGED FlowOthers
        /\ NoLogin.at # "record" /\ NoLogin.at \notin RevokingAt
    BY <1>2, EndingIsACall DEF FlowStoreFails, RevokingAt
  <2> QED
    BY <2>1, OthersKeepTypes, FlowCallMovesQuietly
<1>3. CASE RevokeAllForUser(c)
  <2>1. running[c].new \in Passwords
    BY <1>0, <1>3, FlowCallShape DEF RevokeAllForUser
  <2>2. "update" \in RevokingAt
    BY DEF RevokingAt
  <2> QED
    BY <1>0, <1>3, <2>1, <2>2, SamplingKeeps DEF RevokeAllForUser
<1>4. CASE DeleteBegin(c)
  <2>1. "remove" \in RevokingAt
    BY DEF RevokingAt
  <2> QED
    BY <1>0, <1>4, <2>1, SamplingKeeps DEF DeleteBegin
<1>5. CASE RevocationLost(c)
  <2> DEFINE r == running[c]
             k == [at |-> r.then, key |-> r.key, new |-> r.new, when |-> r.when, sure |-> FALSE]
  <2>1. r \in [at : {"record"}, key : RevocationKeys, then : RevokingAt, new : Passwords, when : Nat]
    BY <1>0, <1>5, FlowCallShape DEF RevocationLost
  <2>2. k \in FlowCall /\ k.at # "record" /\ ~ k.sure
    BY <2>1 DEF FlowCall, RevokingAt
  <2>3. k.when <= second
    BY <1>5 DEF RevocationLost, FlowInv
  <2>4. Proceed(c, k) /\ UNCHANGED FlowOthers
    BY <1>5 DEF RevocationLost, Answered
  <2> HIDE DEF k
  <2> QED
    BY <2>2, <2>3, <2>4, OthersKeepTypes, FlowCallMovesQuietly
<1>6. ASSUME NEW s \in Sids, LogoutBegin(c, s)
      PROVE  FlowInv'
  <2>1. "destroy" \in RevokingAt /\ s \in RevocationKeys
    BY DEF RevokingAt, RevocationKeys
  <2> QED
    BY <1>0, <1>6, <2>1, SamplingKeeps DEF LogoutBegin
<1>7. ASSUME NEW p \in Passwords, NEW session \in BOOLEAN, AuthenticateUser(c, p, session)
      PROVE  FlowInv'
  <2> DEFINE k == [at |-> "roles", session |-> session]
  <2>1. k \in FlowCall /\ k.at # "record" /\ k.at \notin RevokingAt
    BY DEF FlowCall, RevokingAt
  <2>2. Proceed(c, k) /\ UNCHANGED FlowOthers
    BY <1>7 DEF AuthenticateUser
  <2> HIDE DEF k
  <2> QED
    BY <2>1, <2>2, OthersKeepTypes, FlowCallMovesQuietly
<1>8. ASSUME NEW p \in Passwords, NEW q \in Passwords, ChangeBegin(c, p, q)
      PROVE  FlowInv'
  <2> DEFINE k == [at |-> "revoke", new |-> q]
  <2>1. k \in FlowCall /\ k.at # "record" /\ k.at \notin RevokingAt
    BY DEF FlowCall, RevokingAt
  <2>2. Proceed(c, k) /\ UNCHANGED FlowOthers
    BY <1>8 DEF ChangeBegin
  <2> HIDE DEF k
  <2> QED
    BY <2>1, <2>2, OthersKeepTypes, FlowCallMovesQuietly
<1> QED
  BY <1>1, <1>2, <1>3, <1>4, <1>5, <1>6, <1>7, <1>8

(* A login gets its session and then its token.                            *)
LEMMA LoginEndsWell ==
  ASSUME FlowInv, NEW c \in LoginCalls, IssueToken(c) \/ \E s \in Sids : CreateSession(c, s)
  PROVE  FlowInv'
<1>1. CASE IssueToken(c)
  <2>1. /\ NoLogin \in FlowCall /\ Proceed(c, NoLogin)
        /\ NoLogin.at # "record" /\ NoLogin.at \notin RevokingAt
    BY <1>1, EndingIsACall DEF IssueToken, RevokingAt
  <2>2. running[c].sid \in Sids \cup {NoSession} /\ second \in 1..MaxFlowTime
    BY <1>1, FlowCallShape DEF IssueToken, FlowInv
  <2>3. /\ loginTokens' = loginTokens \cup {[sid |-> running[c].sid, iat |-> second]}
        /\ UNCHANGED <<revocations, account, sessions, notBefore, second, finished>>
    BY <1>1 DEF IssueToken
  <2>4. FlowTypeOK'
    BY <2>2, <2>3 DEF FlowInv, FlowTypeOK
  <2> QED
    BY <2>1, <2>3, <2>4, FlowCallMovesQuietly
<1>2. ASSUME NEW s \in Sids, CreateSession(c, s)
      PROVE  FlowInv'
  <2> DEFINE k == [at |-> "issue", sid |-> s]
  <2>1. k \in FlowCall /\ k.at # "record" /\ k.at \notin RevokingAt
    BY DEF FlowCall, RevokingAt
  <2>2. /\ Proceed(c, k) /\ sessions' = [sessions EXCEPT ![s] = "live"]
        /\ UNCHANGED <<revocations, account, loginTokens, notBefore, second, finished>>
    BY <1>2 DEF CreateSession
  <2>3. FlowTypeOK'
    BY <2>2 DEF FlowInv, FlowTypeOK
  <2> HIDE DEF k
  <2> QED
    BY <2>1, <2>2, <2>3, FlowCallMovesQuietly
<1> QED
  BY <1>1, <1>2

(* A call returns: what it carried is history.                             *)
LEMMA ReturningKeeps ==
  ASSUME FlowInv, NEW c \in LoginCalls, running[c].at \in RevokingAt, Returned(c),
         UNCHANGED <<revocations, notBefore, second>>, FlowTypeOK'
  PROVE  FlowInv'
<1> DEFINE r == running[c]
           x == [key |-> r.key, when |-> r.when, sure |-> r.sure]
<1>1. r \in [at : RevokingAt, key : RevocationKeys, new : Passwords, when : Nat, sure : BOOLEAN]
  BY FlowCallShape DEF FlowInv
<1>2. finished' = finished \cup {x} /\ EndLogin(c)
  BY DEF Returned
<1>3. x \in [key : RevocationKeys, when : Nat, sure : BOOLEAN]
  BY <1>1
<1>4. x.when <= second /\ (x.sure => OnRecord(x.key, x.when))
  BY DEF FlowInv, RevocationsStand
<1>5. /\ NoLogin \in FlowCall /\ Proceed(c, NoLogin)
      /\ NoLogin.at # "record" /\ NoLogin.at \notin RevokingAt
  BY <1>2, EndingIsACall DEF RevokingAt
<1> HIDE DEF x
<1>6. \A y \in finished' : y.when <= second /\ (y.sure => OnRecord(y.key, y.when))
  BY <1>2, <1>4 DEF FlowInv, RevocationsStand
<1>7. finished' \subseteq [key : RevocationKeys, when : Nat, sure : BOOLEAN]
  BY <1>2, <1>3 DEF FlowInv
<1> QED
  BY <1>5, <1>6, <1>7, FlowCallMoves

(* The ends of the revoking calls.                                         *)
LEMMA RevokingCallsEnd ==
  ASSUME FlowInv, NEW c \in LoginCalls, UpdatePassword(c) \/ RemoveUser(c) \/ DestroySession(c)
  PROVE  FlowInv'
<1>0. running[c] \in FlowCall
  BY DEF FlowInv
<1>1. CASE UpdatePassword(c)
  <2>1. running[c].at \in RevokingAt /\ running[c].new \in Passwords
    BY <1>0, <1>1, FlowCallShape DEF UpdatePassword, RevokingAt
  <2>2. UNCHANGED <<revocations, sessions, notBefore, loginTokens, second>>
    BY <1>1 DEF UpdatePassword
  <2>3. CASE account.exists
    <3>1. account' = [account EXCEPT !.password = running[c].new] /\ Returned(c)
      BY <1>1, <2>3 DEF UpdatePassword
    <3>2. FlowTypeOK'
      BY <2>1, <2>2, <3>1 DEF FlowInv, FlowTypeOK
    <3> QED
      BY <2>1, <2>2, <3>1, <3>2, ReturningKeeps
  <2>4. CASE ~ account.exists
    <3>1. EndLogin(c) /\ UNCHANGED <<account, finished>>
      BY <1>1, <2>4 DEF UpdatePassword
    <3>2. /\ NoLogin \in FlowCall /\ Proceed(c, NoLogin)
          /\ NoLogin.at # "record" /\ NoLogin.at \notin RevokingAt
      BY <3>1, EndingIsACall DEF RevokingAt
    <3>3. FlowTypeOK'
      BY <2>2, <3>1 DEF FlowInv, FlowTypeOK
    <3> QED
      BY <2>2, <3>1, <3>2, <3>3, FlowCallMovesQuietly
  <2> QED
    BY <2>3, <2>4
<1>2. CASE RemoveUser(c)
  <2>1. /\ running[c].at \in RevokingAt /\ Returned(c) /\ account' = [account EXCEPT !.exists = FALSE]
        /\ UNCHANGED <<revocations, sessions, notBefore, loginTokens, second>>
    BY <1>2 DEF RemoveUser, RevokingAt
  <2>2. FlowTypeOK'
    BY <2>1 DEF FlowInv, FlowTypeOK
  <2> QED
    BY <2>1, <2>2, ReturningKeeps
<1>3. CASE DestroySession(c)
  <2>1. /\ running[c].at \in RevokingAt /\ Returned(c)
        /\ UNCHANGED <<revocations, account, notBefore, loginTokens, second>>
    BY <1>3 DEF DestroySession, RevokingAt
  <2>2. sessions' \in [Sids -> {"unborn", "live", "gone"}]
    BY <1>3 DEF DestroySession, FlowInv, FlowTypeOK
  <2>3. FlowTypeOK'
    BY <2>1, <2>2 DEF FlowInv, FlowTypeOK
  <2> QED
    BY <2>1, <2>3, ReturningKeeps
<1> QED
  BY <1>1, <1>2, <1>3

(* A revocation is written.  In the table it can only raise the entry.  In *)
(* the map it overwrites, and whatever is on record there read no later    *)
(* second than any call still waiting, this one among them.                *)
LEMMA RecordingKeeps ==
  ASSUME FlowInv, NEW c \in LoginCalls, RecordRevocation(c)
  PROVE  FlowInv'
<1> DEFINE r == running[c]
           b == revocations = "table" \/ ~ OlderOnePending(c)
           k == [at |-> r.then, key |-> r.key, new |-> r.new, when |-> r.when, sure |-> b]
           entry == Recorded(notBefore[r.key], Stamp(r.key, r.when))
<1>1. r \in [at : {"record"}, key : RevocationKeys, then : RevokingAt, new : Passwords, when : Nat]
  BY FlowCallShape DEF RecordRevocation, FlowInv
<1>2. /\ notBefore' = [notBefore EXCEPT ![r.key] = entry] /\ Proceed(c, k)
      /\ UNCHANGED <<revocations, account, sessions, loginTokens, second, finished>>
  BY DEF RecordRevocation, Answered
<1>3. b \in BOOLEAN
  BY DEF OlderOnePending
<1>4. k \in FlowCall /\ k.at \in RevokingAt /\ k.at # "record"
  <2> HIDE DEF b
  <2> QED
    BY <1>1, <1>3 DEF FlowCall, RevokingAt
<1>5. /\ r.when \in Nat /\ r.when <= second /\ second \in 1..MaxFlowTime /\ MaxFlowTime \in Nat
      /\ r.key \in RevocationKeys /\ notBefore[r.key] \in 0..(MaxFlowTime + 1)
      /\ notBefore \in [RevocationKeys -> 0..(MaxFlowTime + 1)]
  BY <1>1, FlowAssumption DEF RecordRevocation, FlowInv, FlowTypeOK
<1>6. /\ entry \in 0..(MaxFlowTime + 1) /\ Stamp(r.key, r.when) <= entry
      /\ revocations = "table" => notBefore[r.key] <= entry
  <2>1. Stamp(r.key, r.when) \in 0..(MaxFlowTime + 1)
    BY <1>5 DEF Stamp
  <2> QED
    BY <1>5, <2>1 DEF Recorded
<1>7. /\ running' \in [LoginCalls -> FlowCall] /\ running'[c] = k
      /\ \A d \in LoginCalls \ {c} : running'[d] = running[d]
  BY <1>2, <1>4, ProceedsAlone DEF FlowInv
<1>8. \A d \in LoginCalls : running'[d].at = "record" => d # c /\ running'[d] = running[d]
  <2> HIDE DEF k
  <2> QED
    BY <1>4, <1>7
<1>9. \A d \in LoginCalls : running'[d].at \in {"record"} \cup RevokingAt => running'[d].when <= second
  <2>1. k.when <= second
    BY <1>5
  <2> HIDE DEF k
  <2> QED
    BY <1>7, <2>1 DEF FlowInv
<1>10. ASSUME NEW key \in RevocationKeys, NEW when \in Nat, OnRecord(key, when)
       PROVE  OnRecord(key, when)'
  <2>1. Stamp(key, when) <= notBefore'[key]
    <3>1. CASE key # r.key
      BY <1>2, <1>5, <1>10, <3>1 DEF OnRecord
    <3>2. CASE key = r.key
      <4>1. notBefore'[key] = entry
        BY <1>2, <1>5, <3>2
      <4>2. CASE revocations = "table"
        <5>1. Stamp(key, when) \in Nat /\ Stamp(key, when) <= notBefore[r.key]
          BY <1>10, <3>2 DEF OnRecord, Stamp
        <5> HIDE DEF entry
        <5> QED
          BY <1>5, <1>6, <4>1, <4>2, <5>1
      <4>3. CASE revocations # "table"
        <5>1. when <= r.when
          BY <1>10, <3>2, <4>3 DEF OnRecord, RecordRevocation
        <5>2. Stamp(key, when) <= Stamp(r.key, r.when)
          BY <1>5, <3>2, <5>1 DEF Stamp
        <5>3. Stamp(key, when) \in Nat /\ Stamp(r.key, r.when) \in Nat
          BY <1>5 DEF Stamp
        <5> HIDE DEF entry
        <5> QED
          BY <1>6, <4>1, <5>2, <5>3
      <4> QED
        BY <4>2, <4>3
    <3> QED
      BY <3>1, <3>2
  <2>2. Stamp(key, when)' = Stamp(key, when)
    BY DEF Stamp
  <2>3. revocations' = "table" \/ \A d \in LoginCalls :
           (running'[d].at = "record" /\ running'[d].key = key) => when <= running'[d].when
    BY <1>2, <1>8, <1>10 DEF OnRecord
  <2> QED
    BY <2>1, <2>2, <2>3 DEF OnRecord
<1>11. ASSUME b PROVE  OnRecord(running[c].key, running[c].when)'
  <2>1. running'[c].key = r.key /\ running'[c].when = r.when
    BY <1>7
  <2>2. Stamp(r.key, r.when) <= notBefore'[r.key]
    <3> HIDE DEF entry, r
    <3> QED
      BY <1>2, <1>5, <1>6
  <2>3. revocations' = "table" \/ \A d \in LoginCalls :
           (running'[d].at = "record" /\ running'[d].key = r.key) => r.when <= running'[d].when
    <3> SUFFICES ASSUME revocations # "table", NEW d \in LoginCalls,
                        running'[d].at = "record", running'[d].key = r.key
                 PROVE  r.when <= running'[d].when
      BY <1>2
    <3>1. d \in LoginCalls \ {c} /\ running'[d] = running[d]
      BY <1>8
    <3>2. ~ (running[d].when < r.when)
      BY <1>11, <3>1 DEF OlderOnePending
    <3>3. running[d].when \in Nat
      BY <3>1, FlowCallShape DEF FlowInv
    <3> QED
      BY <1>5, <3>1, <3>2, <3>3
  <2> HIDE DEF r
  <2> QED
    BY <2>1, <2>2, <2>3 DEF OnRecord, Stamp
<1>12. ASSUME NEW x \in finished', x.sure
       PROVE  OnRecord(x.key, x.when)'
  <2>1. x \in [key : RevocationKeys, when : Nat, sure : BOOLEAN] /\ OnRecord(x.key, x.when)
    BY <1>2, <1>12 DEF FlowInv, RevocationsStand
  <2> QED
    BY <1>10, <2>1
<1>13. ASSUME NEW d \in LoginCalls, running'[d].at \in RevokingAt, running'[d].sure
       PROVE  OnRecord(running[d].key, running[d].when)'
  <2>1. CASE d = c
    <3>1. running'[c].sure = b
      <4> HIDE DEF b
      <4> QED
        BY <1>7
    <3>2. b
      <4> HIDE DEF b
      <4> QED
        BY <1>13, <2>1, <3>1
    <3> QED
      BY <1>11, <2>1, <3>2
  <2>2. CASE d # c
    <3>1. running'[d] = running[d]
      BY <1>7, <2>2
    <3>2. running[d] \in [at : RevokingAt, key : RevocationKeys, new : Passwords, when : Nat, sure : BOOLEAN]
      BY <1>13, <3>1, FlowCallShape DEF FlowInv
    <3>3. OnRecord(running[d].key, running[d].when)
      BY <1>13, <3>1 DEF FlowInv, RevocationsStand
    <3>4. PICK key \in RevocationKeys, when \in Nat : key = running[d].key /\ when = running[d].when
      BY <3>2
    <3>5. OnRecord(key, when)'
      BY <1>10, <3>3, <3>4
    <3> QED
      BY <3>1, <3>4, <3>5 DEF OnRecord, Stamp
  <2> QED
    BY <2>1, <2>2
<1>14. RevocationsStand'
  BY <1>12, <1>13 DEF RevocationsStand
<1>15. FlowTypeOK'
  <2> HIDE DEF entry
  <2> QED
    BY <1>2, <1>5, <1>6 DEF FlowInv, FlowTypeOK
<1> HIDE DEF k, r, entry, b
<1> QED
  BY <1>2, <1>7, <1>9, <1>14, <1>15 DEF FlowInv

(* The clock ticks.                                                        *)
LEMMA TickingKeeps ==
  ASSUME FlowInv, FlowTick
  PROVE  FlowInv'
<1>1. second \in Nat /\ second' \in 1..MaxFlowTime /\ second' = second + 1
  BY FlowAssumption DEF FlowTick, FlowInv
<1>2. UNCHANGED <<revocations, account, sessions, notBefore, loginTokens, running, finished>>
  BY DEF FlowTick
<1>3. \A c \in LoginCalls : running[c].at \in {"record"} \cup RevokingAt => running[c].when \in Nat
  BY FlowCallShape DEF FlowInv
<1>4. \A c \in LoginCalls : running'[c].at \in {"record"} \cup RevokingAt => running'[c].when <= second'
  BY <1>1, <1>2, <1>3 DEF FlowInv
<1>5. \A x \in finished' : x.when <= second'
  <2>1. \A x \in finished : x.when \in Nat
    BY DEF FlowInv
  <2> QED
    BY <1>1, <1>2, <2>1 DEF FlowInv
<1>6. RevocationsStand' /\ FlowTypeOK'
  BY <1>2 DEF FlowInv, RevocationsStand, OnRecord, Stamp, FlowTypeOK
<1> QED
  BY <1>1, <1>2, <1>4, <1>5, <1>6 DEF FlowInv

(* The invariant of the login flow is inductive.                           *)
LEMMA FlowInvariance == FlowSpec => []FlowInv
<1>1. FlowInit => FlowInv
  <2> SUFFICES ASSUME FlowInit PROVE FlowInv
    OBVIOUS
  <2>1. \A c \in LoginCalls : running[c].at \notin {"record"} \cup RevokingAt
    BY DEF FlowInit, NoLogin, RevokingAt
  <2>2. running \in [LoginCalls -> FlowCall]
    BY DEF FlowInit, FlowCall
  <2>3. loginTokens = {} /\ finished = {} /\ second \in 1..MaxFlowTime
    BY FlowAssumption DEF FlowInit
  <2>4. FlowTypeOK
    <3>1. account \in [exists : BOOLEAN, password : Passwords, is_active : BOOLEAN]
      BY FlowAssumption DEF FlowInit
    <3>2. notBefore \in [RevocationKeys -> 0..(MaxFlowTime + 1)]
      BY FlowAssumption DEF FlowInit
    <3>3. sessions \in [Sids -> {"unborn", "live", "gone"}]
      BY DEF FlowInit
    <3> QED
      BY <2>3, <3>1, <3>2, <3>3 DEF FlowTypeOK
  <2> QED
    BY <2>1, <2>2, <2>3, <2>4 DEF FlowInv, RevocationsStand
<1>2. FlowInv /\ [FlowNext]_fvars => FlowInv'
  <2> SUFFICES ASSUME FlowInv, [FlowNext]_fvars PROVE FlowInv'
    OBVIOUS
  <2>1. CASE UNCHANGED fvars
    BY <2>1 DEF fvars, FlowInv, FlowTypeOK, RevocationsStand, OnRecord, Stamp
  <2>2. CASE FlowTick
    BY <2>2, TickingKeeps
  <2>3. ASSUME NEW c \in LoginCalls, RecordRevocation(c)
        PROVE  FlowInv'
    BY <2>3, RecordingKeeps
  <2>4. ASSUME NEW c \in LoginCalls,
               \/ FetchRoles(c) \/ FlowStoreFails(c) \/ RevokeAllForUser(c) \/ DeleteBegin(c)
               \/ RevocationLost(c) \/ \E s \in Sids : LogoutBegin(c, s)
               \/ \E p \in Passwords : \E session \in BOOLEAN : AuthenticateUser(c, p, session)
               \/ \E p, q \in Passwords : ChangeBegin(c, p, q)
        PROVE  FlowInv'
    BY <2>4, QuietSteps
  <2>5. ASSUME NEW c \in LoginCalls, IssueToken(c) \/ \E s \in Sids : CreateSession(c, s)
        PROVE  FlowInv'
    BY <2>5, LoginEndsWell
  <2>6. ASSUME NEW c \in LoginCalls, UpdatePassword(c) \/ RemoveUser(c) \/ DestroySession(c)
        PROVE  FlowInv'
    BY <2>6, RevokingCallsEnd
  <2> QED
    BY <2>1, <2>2, <2>3, <2>4, <2>5, <2>6 DEF FlowNext
<1> QED
  BY <1>1, <1>2, PTL DEF FlowSpec

(* AuthService, for any number of concurrent logins, password changes,     *)
(* deletions and logouts over failing stores and either backend: a logout, *)
(* a change and a deletion that have returned have cut off every token     *)
(* issued by the second they read, unless the table lost their write or,   *)
(* in the map, it raced an older one of the same key.                      *)
THEOREM TokensAreCutOff == FlowSpec => []TokensCutOff
<1>1. FlowInv => TokensCutOff
  <2> SUFFICES ASSUME FlowInv PROVE LogoutCutsOff /\ ChangeCutsOff
    BY DEF FlowInv, TokensCutOff
  <2>1. ASSUME NEW x \in finished, x.sure
        PROVE  x.when \in Nat /\ Stamp(x.key, x.when) <= notBefore[x.key] /\ notBefore[x.key] \in Int
    BY <2>1, FlowAssumption DEF FlowInv, FlowTypeOK, RevocationsStand, OnRecord
  <2>2. \A t \in loginTokens : t.iat \in Int
    BY DEF FlowInv, FlowTypeOK
  <2>3. ASSUME NEW x \in finished, NEW t \in loginTokens,
               x.key # UserKey, x.sure, t.sid = x.key, TokenVerifies(t)
        PROVE  t.iat > x.when
    <3>1. x.key # NoSession
      BY <2>3, FlowAssumption DEF FlowInv, RevocationKeys
    <3>2. t.iat > notBefore[x.key] /\ Stamp(x.key, x.when) = x.when
      BY <2>3, <3>1 DEF TokenVerifies, Stamp
    <3> QED
      BY <2>1, <2>2, <2>3, <3>2
  <2>4. ASSUME NEW x \in finished, NEW t \in loginTokens, x.key = UserKey, x.sure, TokenVerifies(t)
        PROVE  t.iat > x.when + 1
    <3>1. t.iat > notBefore[x.key] /\ Stamp(x.key, x.when) = x.when + 1
      BY <2>4 DEF TokenVerifies, Stamp
    <3> QED
      BY <2>1, <2>2, <2>4, <3>1
  <2> QED
    BY <2>3, <2>4 DEF LogoutCutsOff, ChangeCutsOff
<1> QED
  BY <1>1, FlowInvariance, PTL

-----------------------------------------------------------------------------
(* WebAuthnCeremony *)

(* What a request in progress holds, by the step it is at.                 *)
LEMMA RequestShape ==
  ASSUME NEW k \in Requests
  PROVE  /\ k.step \in {"idle", "taken", "loaded", "verified"}
         /\ k.step # "idle" => k.response \in responses /\ k.challenge \in Challenges
         /\ k.step = "taken" => k.purpose \in {"create", "get"}
         /\ k.step \in {"loaded", "verified"} =>
              /\ k.cred \in CredentialRecord
              /\ [k EXCEPT !.step = "verified"] =
                     [step |-> "verified", cred |-> k.cred, challenge |-> k.challenge, response |-> k.response]
<1>1. CASE k = NoRequest
  BY <1>1 DEF NoRequest
<1>2. CASE k \in [step : {"taken"}, purpose : {"create", "get"}, challenge : Challenges, response : responses]
  BY <1>2
<1>3. CASE k \in [step : {"loaded", "verified"}, cred : CredentialRecord, challenge : Challenges,
                  response : responses]
  BY <1>3
<1> QED
  BY <1>1, <1>2, <1>3 DEF Requests

(* A request moves and the others stay as they are.                        *)
LEMMA RequestMoves ==
  ASSUME handling \in [Handlers -> Requests], NEW h \in Handlers, NEW k \in Requests,
         handling' = [handling EXCEPT ![h] = k], responses' = responses
  PROVE  /\ handling' \in [Handlers -> Requests'] /\ handling'[h] = k
         /\ \A g \in Handlers \ {h} : handling'[g] = handling[g]
<1>1. Requests' = Requests
  BY DEF Requests, CredentialRecord, NoRequest
<1> QED
  BY <1>1

(* Initially nobody holds anything.                                        *)
LEMMA CeremonyStarts ==
  ASSUME CeremonyAssumption, CeremonyInit
  PROVE  CeremonyInv
<1>1. /\ issued = [c \in Challenges |-> "fresh"] /\ counter = [d \in Devices |-> 0]
      /\ cose \in CoseKeys /\ responses = {} /\ stored = NoCredential
      /\ handling = [h \in Handlers |-> NoRequest]
      /\ accepted = [c \in Challenges |-> 0] /\ settled = 0 /\ overlapped = FALSE
  BY DEF CeremonyInit
<1>2. 0 \in 0..MaxCount /\ 0 \in Nat
  BY DEF CeremonyAssumption
<1>3. stored \in CredentialRecord
  BY <1>1, <1>2, Zenon DEF NoCredential, CredentialRecord
<1>4. stored.sign_count = 0
  BY <1>1 DEF NoCredential
<1>5. \A h \in Handlers : handling[h].step = "idle"
  BY <1>1 DEF NoRequest
<1>6. CeremonyTypeOK
  BY <1>1, <1>2, <1>4 DEF CeremonyTypeOK
<1>7. CeremonyHolds
  BY <1>1, <1>5, <1>6 DEF CeremonyHolds, AcceptedOnce, CopyNoticed
<1>8. TakenOnce /\ OneAtATime
  BY <1>1, <1>5, <1>4 DEF TakenOnce, OneAtATime, Holding
<1>9. handling \in [Handlers -> Requests]
  BY <1>1 DEF Requests
<1> QED
  BY <1>1, <1>2, <1>7, <1>8, <1>9, <1>3 DEF CeremonyInv

(* Beginning a ceremony: the challenge is one nobody holds.                *)
LEMMA BeginKeeps ==
  ASSUME CeremonyAssumption, CeremonyInv, NEW c \in Challenges, NEW type \in {"create", "get"}, Begin(c, type)
  PROVE  CeremonyInv'
<1>1. /\ issued[c] = "fresh" /\ issued' = [issued EXCEPT ![c] = type]
      /\ counter' = counter /\ cose' = cose /\ responses' = responses /\ stored' = stored
      /\ handling' = handling /\ accepted' = accepted /\ settled' = settled /\ overlapped' = overlapped
  BY DEF Begin, devices
<1>2. issued \in [Challenges -> {"fresh", "create", "get", "gone"}]
  BY DEF CeremonyInv, CeremonyHolds, CeremonyTypeOK
<1>3. CeremonyHolds'
  BY <1>1, <1>2 DEF CeremonyInv, CeremonyHolds, CeremonyTypeOK, AcceptedOnce, CopyNoticed
<1>4. TakenOnce'
  BY <1>1, <1>2 DEF CeremonyInv, TakenOnce, Holding
<1>5. OneAtATime'
  BY <1>1 DEF CeremonyInv, OneAtATime
<1>6. Requests' = Requests
  BY <1>1 DEF Requests, CredentialRecord, NoRequest
<1> QED
  BY <1>1, <1>3, <1>4, <1>5, <1>6 DEF CeremonyInv, ResponseOK, CredentialRecord

(* A client answers: the count it names is its device's next.              *)
LEMMA RespondKeeps ==
  ASSUME CeremonyAssumption, CeremonyInv, NEW d \in Devices, NEW c \in Challenges,
         NEW type \in {"create", "get"}, NEW shape \in Shapes, Respond(d, c, type, shape)
  PROVE  CeremonyInv'
<1> DEFINE r == [client |-> [typ |-> type, challenge |-> c, origin |-> shape.origin,
                             cross_origin |-> shape.cross],
                 fmt |-> "none", at |-> type = "create", rp |-> shape.rp, up |-> TRUE, uv |-> shape.uv,
                 id |-> "cred", count |-> counter'[d]]
<1>1. /\ issued' = issued /\ cose' = cose /\ stored' = stored
      /\ handling' = handling /\ accepted' = accepted /\ settled' = settled /\ overlapped' = overlapped
  BY DEF Respond, devices
<1>2. counter \in [Devices -> 0..MaxCount] /\ MaxCount \in Nat /\ Counting \in BOOLEAN
  BY DEF CeremonyInv, CeremonyHolds, CeremonyTypeOK, CeremonyAssumption
<1>3. /\ counter' = IF Counting THEN [counter EXCEPT ![d] = @ + 1] ELSE counter
      /\ responses' = responses \cup {r}
      /\ ~ Counting \/ counter[d] < MaxCount
  BY DEF Respond
<1>4. r.client.challenge = c /\ r.id = "cred" /\ r.count = counter'[d]
  OBVIOUS
<1> HIDE DEF r
<1>5. /\ counter' \in [Devices -> 0..MaxCount] /\ counter'[d] \in 0..MaxCount
      /\ IF Counting THEN counter'[d] > 0 ELSE counter'[d] = 0
      /\ ~ Counting => counter' = counter
  <2>1. CASE Counting
    BY <1>2, <1>3, <2>1
  <2>2. CASE ~ Counting
    BY <1>2, <1>3, <2>2 DEF CeremonyInv
  <2> QED
    BY <2>1, <2>2
<1>6. \A x \in responses' : ResponseOK(x)
  BY <1>3, <1>4, <1>5 DEF CeremonyInv, ResponseOK
<1>7. Requests \subseteq Requests'
  <2>1. responses \subseteq responses'
    BY <1>3
  <2> QED
    BY <2>1 DEF Requests, CredentialRecord, NoRequest
<1>8. handling' \in [Handlers -> Requests']
  BY <1>1, <1>7 DEF CeremonyInv
<1>9. CeremonyHolds' /\ TakenOnce' /\ OneAtATime'
  BY <1>1, <1>5 DEF CeremonyInv, CeremonyHolds, CeremonyTypeOK, AcceptedOnce, CopyNoticed,
     TakenOnce, Holding, OneAtATime
<1> QED
  BY <1>1, <1>5, <1>6, <1>8, <1>9 DEF CeremonyInv, ResponseOK, CredentialRecord

(* Taking a challenge: from the store into one handler's hands.            *)
LEMMA TakeKeeps ==
  ASSUME CeremonyAssumption, CeremonyInv, NEW h \in Handlers, NEW r \in responses, Take(h, r)
  PROVE  CeremonyInv'
<1>1. PICK c \in Challenges : c = r.client.challenge
  BY DEF CeremonyInv, ResponseOK
<1>2. issued \in [Challenges -> {"fresh", "create", "get", "gone"}]
  BY DEF CeremonyInv, CeremonyHolds, CeremonyTypeOK
<1> DEFINE k == [step |-> "taken", purpose |-> issued[c], challenge |-> c, response |-> r]
<1>3. /\ handling[h] = NoRequest /\ issued[c] \in {"create", "get"}
      /\ issued' = [issued EXCEPT ![c] = "gone"] /\ handling' = [handling EXCEPT ![h] = k]
      /\ counter' = counter /\ cose' = cose /\ responses' = responses /\ stored' = stored
      /\ accepted' = accepted /\ settled' = settled /\ overlapped' = overlapped
  BY <1>1 DEF Take, devices
<1>4. k \in Requests
  BY <1>3 DEF Requests
<1>5. k.step = "taken" /\ k.challenge = c
  OBVIOUS
<1> HIDE DEF k
<1>6. /\ handling' \in [Handlers -> Requests'] /\ handling'[h] = k
      /\ \A g \in Handlers \ {h} : handling'[g] = handling[g]
  BY <1>3, <1>4, RequestMoves DEF CeremonyInv
<1>7. /\ issued'[c] = "gone" /\ \A x \in Challenges \ {c} : issued'[x] = issued[x]
      /\ issued' \in [Challenges -> {"fresh", "create", "get", "gone"}]
  BY <1>2, <1>3
<1>8. accepted[c] = 0 /\ \A g \in Handlers : ~ (Holding(g) /\ handling[g].challenge = c)
  BY <1>3 DEF CeremonyInv, TakenOnce
<1>9. CeremonyHolds'
  BY <1>3, <1>5, <1>6, <1>7 DEF CeremonyInv, CeremonyHolds, CeremonyTypeOK, AcceptedOnce, CopyNoticed
<1>10. TakenOnce'
  <2>1. ASSUME NEW x \in Challenges, issued'[x] # "gone"
        PROVE  accepted[x] = 0 /\ \A g \in Handlers : ~ (Holding(g)' /\ handling'[g].challenge = x)
    BY <1>5, <1>6, <1>7, <2>1 DEF CeremonyInv, TakenOnce, Holding
  <2>2. ASSUME NEW f \in Handlers, Holding(f)'
        PROVE  /\ accepted[handling'[f].challenge] = 0
               /\ \A g \in Handlers :
                      (Holding(g)' /\ handling'[g].challenge = handling'[f].challenge) => g = f
    <3>1. CASE f = h
      BY <1>5, <1>6, <1>8, <3>1 DEF Holding
    <3>2. CASE f # h
      <4>1. handling'[f] = handling[f] /\ Holding(f)
        BY <1>6, <2>2, <3>2 DEF Holding
      <4>2. handling[f].challenge # c
        BY <1>8, <4>1
      <4> QED
        BY <1>5, <1>6, <4>1, <4>2 DEF CeremonyInv, TakenOnce, Holding
    <3> QED
      BY <3>1, <3>2
  <2> QED
    BY <1>3, <2>1, <2>2 DEF TakenOnce
<1>11. OneAtATime'
  BY <1>3, <1>5, <1>6 DEF CeremonyInv, OneAtATime
<1> QED
  BY <1>3, <1>6, <1>9, <1>10, <1>11 DEF CeremonyInv, ResponseOK, CredentialRecord

(* Whoever lets go of a challenge leaves everybody else's hold as it was.  *)
LEMMA LettingGo ==
  ASSUME TakenOnce, NEW h \in Handlers,
         ~ Holding(h)', \A g \in Handlers \ {h} : handling'[g] = handling[g],
         issued' = issued, accepted' = accepted
  PROVE  TakenOnce'
<1> QED
  BY DEF TakenOnce, Holding

(* A registration stores its count unless some login overlaps it.          *)
LEMMA RegisterKeeps ==
  ASSUME CeremonyAssumption, CeremonyInv, NEW h \in Handlers, RegisterCredential(h)
  PROVE  CeremonyInv'
<1>1. /\ handling[h].step = "taken" /\ handling' = [handling EXCEPT ![h] = NoRequest]
      /\ issued' = issued /\ counter' = counter /\ cose' = cose /\ responses' = responses
      /\ accepted' = accepted /\ overlapped' = (overlapped \/ InFlight)
  BY DEF RegisterCredential, devices
<1>2. NoRequest \in Requests /\ NoRequest.step = "idle"
  BY DEF Requests, NoRequest
<1>3. /\ handling' \in [Handlers -> Requests'] /\ handling'[h] = NoRequest
      /\ \A g \in Handlers \ {h} : handling'[g] = handling[g]
  BY <1>1, <1>2, RequestMoves DEF CeremonyInv
<1>4. PICK r \in responses : r = handling[h].response
  <2>1. handling[h] \in Requests
    BY DEF CeremonyInv
  <2> QED
    BY <1>1, <2>1, RequestShape
<1>5. r.id = "cred" /\ r.count \in 0..MaxCount /\ (~ Counting => r.count = 0)
  BY DEF CeremonyInv, ResponseOK
<1>6. \/ stored' = [id |-> r.id, sign_count |-> r.count] /\ settled' = r.count
      \/ stored' = stored /\ settled' = settled
  BY <1>4 DEF RegisterCredential
<1>7. /\ stored' \in CredentialRecord /\ settled' \in 0..MaxCount /\ stored'.sign_count \in 0..MaxCount
      /\ ~ Counting => settled' = 0
      /\ ~ overlapped => settled' = stored'.sign_count
  <2>1. CASE stored' = [id |-> r.id, sign_count |-> r.count] /\ settled' = r.count
    BY <1>5, <2>1 DEF CredentialRecord
  <2>2. CASE stored' = stored /\ settled' = settled
    BY <2>2 DEF CeremonyInv, OneAtATime, CeremonyHolds, CeremonyTypeOK
  <2> QED
    BY <1>6, <2>1, <2>2
<1>8. overlapped \in BOOLEAN /\ overlapped' \in BOOLEAN
  BY <1>1 DEF CeremonyInv
<1>9. ~ overlapped' => ~ overlapped /\ \A g \in Handlers : handling'[g].step \notin {"loaded", "verified"}
  BY <1>1, <1>2, <1>3, <1>8 DEF InFlight
<1>10. CeremonyHolds'
  BY <1>1, <1>7, <1>9 DEF CeremonyInv, CeremonyHolds, CeremonyTypeOK, AcceptedOnce, CopyNoticed
<1>11. TakenOnce'
  BY <1>1, <1>2, <1>3, LettingGo DEF CeremonyInv, Holding
<1>12. OneAtATime'
  BY <1>3, <1>7, <1>9 DEF OneAtATime
<1> QED
  BY <1>1, <1>3, <1>7, <1>8, <1>10, <1>11, <1>12 DEF CeremonyInv, ResponseOK, CredentialRecord

(* Loading: alone in flight, or noticed as an overlap.                     *)
LEMMA LoadKeeps ==
  ASSUME CeremonyAssumption, CeremonyInv, NEW h \in Handlers, Load(h)
  PROVE  CeremonyInv'
<1> DEFINE k == [step |-> "loaded", cred |-> stored, challenge |-> handling[h].challenge,
                 response |-> handling[h].response]
<1>1. /\ handling[h].step = "taken" /\ handling' = [handling EXCEPT ![h] = k]
      /\ issued' = issued /\ counter' = counter /\ cose' = cose /\ responses' = responses
      /\ accepted' = accepted /\ overlapped' = (overlapped \/ InFlight)
      /\ stored' = stored /\ settled' = settled
  BY DEF Load, devices
<1>2. k.step = "loaded" /\ k.cred = stored /\ k.challenge = handling[h].challenge
  OBVIOUS
<1>3. k \in Requests
  <2>1. handling[h].response \in responses /\ handling[h].challenge \in Challenges
    <3>1. handling[h] \in Requests
      BY DEF CeremonyInv
    <3> QED
      BY <1>1, <3>1, RequestShape
  <2>2. stored \in CredentialRecord
    BY DEF CeremonyInv
  <2> QED
    BY <2>1, <2>2 DEF Requests
<1> HIDE DEF k
<1>4. /\ handling' \in [Handlers -> Requests'] /\ handling'[h] = k
      /\ \A g \in Handlers \ {h} : handling'[g] = handling[g]
  BY <1>1, <1>3, RequestMoves DEF CeremonyInv
<1>5. overlapped \in BOOLEAN /\ overlapped' \in BOOLEAN
  BY <1>1 DEF CeremonyInv
<1>6. ~ overlapped' =>
         ~ overlapped /\ \A g \in Handlers \ {h} : handling'[g].step \notin {"loaded", "verified"}
  BY <1>1, <1>4, <1>5 DEF InFlight
<1>7. CeremonyHolds'
  <2>1. CopyNoticed'
    BY <1>2, <1>4, <1>6 DEF CopyNoticed
  <2> QED
    BY <1>1, <2>1 DEF CeremonyInv, CeremonyHolds, CeremonyTypeOK, AcceptedOnce
<1>8. TakenOnce'
  <2>1. \A g \in Handlers : (Holding(g)' <=> Holding(g)) /\ (Holding(g) => handling'[g].challenge = handling[g].challenge)
    BY <1>1, <1>2, <1>4 DEF Holding
  <2> QED
    BY <1>1, <2>1 DEF CeremonyInv, TakenOnce
<1>9. OneAtATime'
  <2> SUFFICES ASSUME ~ overlapped'
               PROVE  /\ settled = stored.sign_count
                      /\ \A f, g \in Handlers :
                             ({handling'[f].step, handling'[g].step} \subseteq {"loaded", "verified"}) => f = g
                      /\ \A g \in Handlers : handling'[g].step = "loaded" => handling'[g].cred = stored
    BY <1>1 DEF OneAtATime
  <2>1. settled = stored.sign_count
    BY <1>6 DEF CeremonyInv, OneAtATime
  <2>2. \A g \in Handlers : handling'[g].step \in {"loaded", "verified"} => g = h
    BY <1>6
  <2> QED
    BY <1>2, <1>4, <2>1, <2>2
<1> QED
  BY <1>1, <1>4, <1>5, <1>7, <1>8, <1>9 DEF CeremonyInv, ResponseOK, CredentialRecord

(* Verifying: a count the record lets through is above it, or nobody       *)
(* counts.                                                                 *)
LEMMA VerifyKeeps ==
  ASSUME CeremonyAssumption, CeremonyInv, NEW h \in Handlers, Verify(h)
  PROVE  CeremonyInv'
<1>1. /\ handling[h].step = "loaded"
      /\ issued' = issued /\ counter' = counter /\ cose' = cose /\ responses' = responses
      /\ stored' = stored /\ settled' = settled /\ overlapped' = overlapped
  BY DEF Verify, devices
<1>2. handling[h] \in Requests
  BY DEF CeremonyInv
<1>3. PICK r \in responses, c \in Challenges, cred \in CredentialRecord :
        /\ r = handling[h].response /\ c = handling[h].challenge /\ cred = handling[h].cred
        /\ [handling[h] EXCEPT !.step = "verified"] =
               [step |-> "verified", cred |-> cred, challenge |-> c, response |-> r]
  <2>1. /\ handling[h].response \in responses /\ handling[h].challenge \in Challenges
        /\ handling[h].cred \in CredentialRecord
    BY <1>1, <1>2, RequestShape
  <2>2. [handling[h] EXCEPT !.step = "verified"] =
            [step |-> "verified", cred |-> handling[h].cred, challenge |-> handling[h].challenge,
             response |-> handling[h].response]
    BY <1>1, <1>2, RequestShape
  <2> QED
    BY <2>1, <2>2, Zenon
<1>4. TakenOnce /\ accepted \in [Challenges -> Nat]
  BY DEF CeremonyInv
<1>5. Holding(h) /\ accepted[c] = 0 /\ issued[c] = "gone"
  BY <1>1, <1>3, <1>4 DEF TakenOnce, Holding
<1>6. Requests' = Requests
  BY <1>1 DEF Requests, CredentialRecord, NoRequest
<1>7. CASE ~ VerifyResponse(cred, r, c)
  <2>1. handling' = [handling EXCEPT ![h] = NoRequest] /\ accepted' = accepted
    BY <1>3, <1>7 DEF Verify
  <2>2. NoRequest \in Requests /\ NoRequest.step = "idle"
    BY DEF Requests, NoRequest
  <2>3. /\ handling' \in [Handlers -> Requests'] /\ handling'[h] = NoRequest
        /\ \A g \in Handlers \ {h} : handling'[g] = handling[g]
    BY <1>1, <2>1, <2>2, RequestMoves DEF CeremonyInv
  <2>4. TakenOnce'
    BY <1>1, <1>4, <2>1, <2>2, <2>3, LettingGo DEF Holding
  <2>5. CeremonyHolds' /\ OneAtATime'
    BY <1>1, <2>1, <2>2, <2>3 DEF CeremonyInv, CeremonyHolds, CeremonyTypeOK, AcceptedOnce, CopyNoticed, OneAtATime
  <2> QED
    BY <1>1, <2>1, <2>3, <2>4, <2>5 DEF CeremonyInv, ResponseOK, CredentialRecord
<1>8. CASE VerifyResponse(cred, r, c)
  <2> DEFINE k == [step |-> "verified", cred |-> cred, challenge |-> c, response |-> r]
  <2>1. handling' = [handling EXCEPT ![h] = k] /\ accepted' = [accepted EXCEPT ![c] = @ + 1]
    BY <1>3, <1>8 DEF Verify
  <2>2. k \in Requests /\ k.step = "verified" /\ k.response = r
    BY <1>3 DEF Requests
  <2> HIDE DEF k
  <2>3. /\ handling' \in [Handlers -> Requests'] /\ handling'[h] = k
        /\ \A g \in Handlers \ {h} : handling'[g] = handling[g]
    BY <1>1, <2>1, <2>2, RequestMoves DEF CeremonyInv
  <2>4. /\ accepted' \in [Challenges -> Nat] /\ accepted'[c] = 1
        /\ \A x \in Challenges \ {c} : accepted'[x] = accepted[x]
    BY <1>4, <1>5, <2>1
  <2>5. TakenOnce'
    <3>1. ASSUME NEW x \in Challenges, issued[x] # "gone"
          PROVE  accepted'[x] = 0 /\ \A g \in Handlers : ~ (Holding(g)' /\ handling'[g].challenge = x)
      BY <1>4, <1>5, <2>2, <2>3, <2>4, <3>1 DEF TakenOnce, Holding
    <3>2. ASSUME NEW f \in Handlers, Holding(f)'
          PROVE  /\ accepted'[handling'[f].challenge] = 0
                 /\ \A g \in Handlers :
                        (Holding(g)' /\ handling'[g].challenge = handling'[f].challenge) => g = f
      <4>1. f # h /\ handling'[f] = handling[f] /\ Holding(f)
        BY <2>2, <2>3, <3>2 DEF Holding
      <4>2. handling[f].challenge # c
        BY <1>3, <1>4, <1>5, <4>1 DEF TakenOnce
      <4>3. handling[f].challenge \in Challenges
        <5>1. handling[f] \in Requests /\ handling[f].step # "idle"
          BY <4>1 DEF CeremonyInv, Holding
        <5> QED
          BY <5>1, RequestShape
      <4> QED
        BY <1>4, <2>2, <2>3, <2>4, <4>1, <4>2, <4>3 DEF TakenOnce, Holding
    <3> QED
      BY <1>1, <3>1, <3>2 DEF TakenOnce
  <2>6. ASSUME ~ overlapped, Counting
        PROVE  r.count > settled
    <3>1. cred = stored /\ settled = stored.sign_count
      BY <1>1, <1>3, <2>6 DEF CeremonyInv, OneAtATime
    <3>2. r.count \in Nat /\ r.count > 0 /\ settled \in Nat
      BY <2>6 DEF CeremonyInv, ResponseOK, CeremonyAssumption
    <3>3. CountOk(r.count, cred.sign_count)
      BY <1>8 DEF VerifyResponse, VerifyAssertion, VerifyLegacy
    <3>4. CountOk(r.count, settled)
      BY <3>1, <3>3
    <3> QED
      BY <3>2, <3>4 DEF CountOk
  <2>7. CopyNoticed'
    BY <1>1, <2>2, <2>3, <2>6 DEF CeremonyInv, CeremonyHolds, CopyNoticed
  <2>8. AcceptedOnce'
    BY <2>4 DEF CeremonyInv, CeremonyHolds, AcceptedOnce
  <2>9. CeremonyTypeOK'
    BY <1>1 DEF CeremonyInv, CeremonyHolds, CeremonyTypeOK
  <2>10. OneAtATime'
    BY <1>1, <2>2, <2>3 DEF CeremonyInv, OneAtATime
  <2> QED
    BY <1>1, <2>3, <2>4, <2>5, <2>7, <2>8, <2>9, <2>10 DEF CeremonyInv, CeremonyHolds, ResponseOK, CredentialRecord
<1> QED
  BY <1>7, <1>8

(* Writing back: without overlap the count is the highest settled.         *)
LEMMA PersistKeeps ==
  ASSUME CeremonyAssumption, CeremonyInv, NEW h \in Handlers, Persist(h)
  PROVE  CeremonyInv'
<1>1. /\ handling[h].step = "verified" /\ handling' = [handling EXCEPT ![h] = NoRequest]
      /\ issued' = issued /\ counter' = counter /\ cose' = cose /\ responses' = responses
      /\ accepted' = accepted /\ overlapped' = overlapped
  BY DEF Persist, devices
<1>2. NoRequest \in Requests /\ NoRequest.step = "idle"
  BY DEF Requests, NoRequest
<1>3. /\ handling' \in [Handlers -> Requests'] /\ handling'[h] = NoRequest
      /\ \A g \in Handlers \ {h} : handling'[g] = handling[g]
  BY <1>1, <1>2, RequestMoves DEF CeremonyInv
<1>4. PICK r \in responses : r = handling[h].response
  <2>1. handling[h] \in Requests
    BY DEF CeremonyInv
  <2> QED
    BY <1>1, <2>1, RequestShape
<1>5. r.count \in 0..MaxCount /\ r.count \in Nat /\ (~ Counting => r.count = 0) /\ settled \in 0..MaxCount
  BY DEF CeremonyInv, ResponseOK, CeremonyAssumption
<1>6. stored' = [stored EXCEPT !.sign_count = r.count]
      /\ settled' = IF r.count > settled THEN r.count ELSE settled
  BY <1>4 DEF Persist
<1>7. /\ stored' \in CredentialRecord /\ stored'.sign_count = r.count
      /\ settled' \in 0..MaxCount /\ (~ Counting => settled' = 0)
  BY <1>5, <1>6 DEF CeremonyInv, CredentialRecord
<1>8. ASSUME ~ overlapped
      PROVE  settled' = stored'.sign_count /\ \A g \in Handlers : handling'[g].step \notin {"loaded", "verified"}
  <2>1. r.count > settled \/ ~ Counting
    BY <1>1, <1>4, <1>8 DEF CeremonyInv, CeremonyHolds, CopyNoticed
  <2>2. settled' = r.count
    BY <1>5, <1>6, <1>7, <2>1
  <2>3. \A g \in Handlers \ {h} : handling[g].step \notin {"loaded", "verified"}
    BY <1>1, <1>8 DEF CeremonyInv, OneAtATime
  <2> QED
    BY <1>2, <1>3, <1>7, <2>2, <2>3
<1>9. TakenOnce'
  BY <1>1, <1>2, <1>3, LettingGo DEF CeremonyInv, Holding
<1>10. OneAtATime' /\ CopyNoticed'
  BY <1>1, <1>8 DEF OneAtATime, CopyNoticed
<1>11. CeremonyTypeOK' /\ AcceptedOnce'
  BY <1>1, <1>5, <1>7 DEF CeremonyInv, CeremonyHolds, CeremonyTypeOK, AcceptedOnce
<1> QED
  <2>1. (stored \in CredentialRecord)' /\ (\A r2 \in responses : ResponseOK(r2))'
    BY <1>1, <1>7 DEF CeremonyInv, ResponseOK
  <2> QED
    BY <1>1, <1>3, <1>7, <1>9, <1>10, <1>11, <2>1 DEF CeremonyInv, CeremonyHolds

(* What is on record stays well formed as long as it stays.                *)
LEMMA RecordsStand ==
  ASSUME CeremonyInv, UNCHANGED <<counter, responses, stored, accepted, settled, overlapped>>
  PROVE  /\ accepted' \in [Challenges -> Nat] /\ settled' \in 0..MaxCount /\ overlapped' \in BOOLEAN
         /\ (stored \in CredentialRecord)' /\ (\A r \in responses : ResponseOK(r))'
         /\ ~ Counting => settled' = 0 /\ \A d \in Devices : counter'[d] = 0
<1>1. (stored \in CredentialRecord)'
  BY DEF CeremonyInv
<1>2. (\A r \in responses : ResponseOK(r))'
  BY DEF CeremonyInv, ResponseOK
<1> QED
  BY <1>1, <1>2 DEF CeremonyInv

(* After a crash no challenge is in anybody's hands.                       *)
LEMMA CrashKeeps ==
  ASSUME CeremonyAssumption, CeremonyInv, CeremonyCrash
  PROVE  CeremonyInv'
<1>1. /\ issued' = [c \in Challenges |-> IF issued[c] = "fresh" THEN "fresh" ELSE "gone"]
      /\ handling' = [h \in Handlers |-> NoRequest]
      /\ counter' = counter /\ cose' = cose /\ responses' = responses /\ stored' = stored
      /\ accepted' = accepted /\ settled' = settled /\ overlapped' = overlapped
  BY DEF CeremonyCrash, devices
<1>2. NoRequest \in Requests' /\ NoRequest.step = "idle"
  BY DEF Requests, NoRequest
<1>3. \A h \in Handlers : handling'[h].step = "idle"
  BY <1>1, <1>2
<1>4. handling' \in [Handlers -> Requests']
  BY <1>1, <1>2
<1>5. CeremonyHolds'
  BY <1>1, <1>3 DEF CeremonyInv, CeremonyHolds, CeremonyTypeOK, AcceptedOnce, CopyNoticed
<1>6. TakenOnce' /\ OneAtATime'
  BY <1>1, <1>3 DEF CeremonyInv, TakenOnce, OneAtATime, Holding
<1> QED
  BY <1>1, <1>4, <1>5, <1>6, RecordsStand DEF CeremonyInv

(* The invariant of the ceremony is inductive.                             *)
LEMMA CeremonyInvariance == CeremonySpec => []CeremonyInv
<1> USE CeremonyAssumption
<1>1. CeremonyInit => CeremonyInv
  BY CeremonyStarts
<1>2. CeremonyInv /\ [CeremonyNext]_nvars => CeremonyInv'
  <2> SUFFICES ASSUME CeremonyInv, [CeremonyNext]_nvars PROVE CeremonyInv'
    OBVIOUS
  <2>1. CASE UNCHANGED nvars
    <3>1. /\ issued' = issued /\ counter' = counter /\ cose' = cose /\ verifier' = verifier
          /\ responses' = responses /\ stored' = stored /\ handling' = handling
          /\ accepted' = accepted /\ settled' = settled /\ overlapped' = overlapped
      BY <2>1 DEF nvars, devices
    <3>2. CeremonyHolds'
      BY <3>1 DEF CeremonyInv, CeremonyHolds, CeremonyTypeOK, AcceptedOnce, CopyNoticed
    <3>3. TakenOnce' /\ OneAtATime'
      BY <3>1 DEF CeremonyInv, TakenOnce, OneAtATime, Holding
    <3>4. Requests' = Requests
      BY <3>1 DEF Requests
    <3> QED
      BY <3>1, <3>2, <3>3, <3>4, RecordsStand DEF CeremonyInv
  <2>2. CASE CeremonyNext
    BY <2>2, BeginKeeps, RespondKeeps, TakeKeeps, RegisterKeeps, LoadKeeps, VerifyKeeps, PersistKeeps,
       CrashKeeps DEF CeremonyNext
  <2> QED
    BY <2>1, <2>2
<1> QED
  BY <1>1, <1>2, PTL DEF CeremonySpec

(* WebAuthn logins, for every set of challenges, handlers and origins and  *)
(* both verifiers: a challenge signs in at most once, races, repeated      *)
(* responses and restarts included, and without overlapping requests the   *)
(* signature count gives a copied authenticator away.                      *)
THEOREM CeremonyAlwaysHolds == CeremonySpec => []CeremonyHolds
<1>1. CeremonyInv => CeremonyHolds
  BY DEF CeremonyInv
<1> QED
  BY <1>1, CeremonyInvariance, PTL

-----------------------------------------------------------------------------
(* TokenProfiles *)

(* What a configuration of the rotation resolves to.                       *)
LEMMA RotationKeys ==
  ASSUME ProfilesAssumption, profile \in {"ed25519", "mldsa65"}, feature \in BOOLEAN,
         (profile = "mldsa65") => feature, NEW s \in 0..3
  PROVE  /\ Resolve(ConfigAt(s), feature) =
              [profile |-> profile, signing |-> SigningAt(s), verifying |-> VerifyingAt(s)]
         /\ ConfigAt(s).issuer = "kirino" /\ ConfigAt(s).audience = "clients"
         /\ ConfigAt(s).kid = KidOf(SigningAt(s))
<1> DEFINE keys == [signing |-> SigningAt(s), verifying |-> VerifyingAt(s)]
           kid == KidOf(SigningAt(s))
<1>1. SigningAt(s) \in {Old, New} /\ VerifyingAt(s) # {} /\ VerifyingAt(s) \subseteq {Old, New}
  BY DEF SigningAt, VerifyingAt
<1>2. SigningAt(s) # NoKey /\ SigningAt(s) # Bad /\ Bad \notin VerifyingAt(s)
  BY <1>1 DEF ProfilesAssumption
<1>3. keys.signing = SigningAt(s) /\ keys.verifying = VerifyingAt(s)
  OBVIOUS
<1>4. Configured(keys) /\ ~ Configured(Unset)
  BY <1>2, <1>3 DEF Configured, Unset
<1> HIDE DEF kid
<1>5. CASE profile = "ed25519"
  <2>1. ConfigAt(s) = [ed25519 |-> keys, mldsa65 |-> Unset, issuer |-> "kirino",
                       audience |-> "clients", kid |-> kid]
    <3>1. WithKeys(FromSecret, profile, SigningAt(s), VerifyingAt(s)) =
             [ed25519 |-> keys, mldsa65 |-> Unset, issuer |-> "kirino", audience |-> NoAudience, kid |-> NoKid]
      BY <1>5 DEF WithKeys, FromSecret
    <3>2. WithKid([ed25519 |-> keys, mldsa65 |-> Unset, issuer |-> "kirino", audience |-> NoAudience,
                   kid |-> NoKid], kid) =
             [ed25519 |-> keys, mldsa65 |-> Unset, issuer |-> "kirino", audience |-> NoAudience, kid |-> kid]
      BY DEF WithKid
    <3>3. WithAudience([ed25519 |-> keys, mldsa65 |-> Unset, issuer |-> "kirino", audience |-> NoAudience,
                        kid |-> kid], "clients") =
             [ed25519 |-> keys, mldsa65 |-> Unset, issuer |-> "kirino", audience |-> "clients", kid |-> kid]
      BY DEF WithAudience
    <3> QED
      BY <3>1, <3>2, <3>3, Zenon DEF ConfigAt, kid
  <2> HIDE DEF keys
  <2>2. /\ ConfigAt(s).ed25519 = keys /\ ConfigAt(s).mldsa65 = Unset
        /\ ConfigAt(s).issuer = "kirino" /\ ConfigAt(s).audience = "clients" /\ ConfigAt(s).kid = kid
    BY <2>1
  <2> QED
    BY <1>1, <1>2, <1>3, <1>4, <1>5, <2>2 DEF Resolve, kid
<1>6. CASE profile = "mldsa65"
  <2>1. ConfigAt(s) = [ed25519 |-> Unset, mldsa65 |-> keys, issuer |-> "kirino",
                       audience |-> "clients", kid |-> kid]
    <3>1. WithKeys(FromSecret, profile, SigningAt(s), VerifyingAt(s)) =
             [ed25519 |-> Unset, mldsa65 |-> keys, issuer |-> "kirino", audience |-> NoAudience, kid |-> NoKid]
      BY <1>6 DEF WithKeys, FromSecret
    <3>2. WithKid([ed25519 |-> Unset, mldsa65 |-> keys, issuer |-> "kirino", audience |-> NoAudience,
                   kid |-> NoKid], kid) =
             [ed25519 |-> Unset, mldsa65 |-> keys, issuer |-> "kirino", audience |-> NoAudience, kid |-> kid]
      BY DEF WithKid
    <3>3. WithAudience([ed25519 |-> Unset, mldsa65 |-> keys, issuer |-> "kirino", audience |-> NoAudience,
                        kid |-> kid], "clients") =
             [ed25519 |-> Unset, mldsa65 |-> keys, issuer |-> "kirino", audience |-> "clients", kid |-> kid]
      BY DEF WithAudience
    <3> QED
      BY <3>1, <3>2, <3>3, Zenon DEF ConfigAt, kid
  <2> HIDE DEF keys
  <2>2. /\ ConfigAt(s).ed25519 = Unset /\ ConfigAt(s).mldsa65 = keys
        /\ ConfigAt(s).issuer = "kirino" /\ ConfigAt(s).audience = "clients" /\ ConfigAt(s).kid = kid
    BY <2>1
  <2> QED
    BY <1>1, <1>2, <1>3, <1>4, <1>6, <2>2 DEF Resolve, kid
<1> QED
  BY <1>5, <1>6

(* The token a node of the rotation signs.                                 *)
LEMMA RotationSigns ==
  ASSUME ProfilesAssumption, profile \in {"ed25519", "mldsa65"}, feature \in BOOLEAN,
         profile = "mldsa65" => feature, NEW n \in Nodes, stage[n] \in 0..3
  PROVE  Sign(Config(n), KeySetOf(n), Claims(Config(n), clock)) =
             TokenOf(SigningAt(stage[n]), clock + Ttl)
<1> DEFINE cfg == ConfigAt(stage[n])
           ks == [profile |-> profile, signing |-> SigningAt(stage[n]), verifying |-> VerifyingAt(stage[n])]
<1>1. /\ KeySetOf(n) = ks /\ cfg.issuer = "kirino" /\ cfg.audience = "clients"
      /\ cfg.kid = KidOf(SigningAt(stage[n]))
  BY RotationKeys DEF KeySetOf, Config
<1>2. ks.profile = profile /\ ks.signing = SigningAt(stage[n])
  OBVIOUS
<1> HIDE DEF ks
<1>3. Algorithm(ks) = IF profile = "ed25519" THEN "EdDSA" ELSE "ML-DSA-65"
  BY <1>2 DEF Algorithm
<1>4. Claims(cfg, clock) = [iss |-> "kirino", aud |-> "clients", exp |-> clock + Ttl]
  BY <1>1, Zenon DEF Claims
<1>5. profile # "secret"
  OBVIOUS
<1> HIDE DEF cfg
<1>6. Sign(cfg, ks, Claims(cfg, clock)) = TokenOf(SigningAt(stage[n]), clock + Ttl)
  BY <1>1, <1>2, <1>3, <1>4, <1>5, Zenon DEF Sign, TokenOf
<1> QED
  BY <1>1, <1>6, Zenon DEF cfg, Config

(* No stage is skipped and no good token loses its key.                    *)
LEMMA ProfilesInvariance == ProfilesSpec => []ProfilesInv
<1> USE ProfilesAssumption
<1>1. ProfilesInit => ProfilesInv
  <2> SUFFICES ASSUME ProfilesInit PROVE ProfilesInv
    OBVIOUS
  <2>1. stage = [n \in Nodes |-> 0] /\ signed = {} /\ clock = 0
    BY DEF ProfilesInit
  <2>2. /\ profile \in {"ed25519", "mldsa65"} /\ feature \in BOOLEAN /\ (profile = "mldsa65" => feature)
        /\ kidding \in {"none", "fixed", "per_key"}
    BY DEF ProfilesInit, ProfilesAssumption
  <2>3. ProfilesTypeOK
    BY <2>1 DEF ProfilesTypeOK, ProfilesAssumption
  <2> QED
    BY <2>1, <2>2, <2>3 DEF ProfilesInv
<1>2. ProfilesInv /\ [ProfilesNext]_kvars => ProfilesInv'
  <2> SUFFICES ASSUME ProfilesInv, [ProfilesNext]_kvars PROVE ProfilesInv'
    OBVIOUS
  <2>1. /\ profile \in {"ed25519", "mldsa65"} /\ feature \in BOOLEAN /\ (profile = "mldsa65" => feature)
        /\ kidding \in {"none", "fixed", "per_key"}
        /\ stage \in [Nodes -> 0..3] /\ clock \in 0..MaxKeyTime /\ clock \in Nat
        /\ Ttl \in Nat /\ Leeway \in Nat /\ MaxKeyTime \in Nat
    BY DEF ProfilesInv, ProfilesTypeOK, ProfilesAssumption
  <2>2. \A tok \in signed :
           /\ tok.key \in {Old, New} /\ tok.claims.exp \in Nat
           /\ tok = TokenOf(tok.key, tok.claims.exp)
           /\ tok.key = New => \A n \in Nodes : stage[n] >= 1
           /\ (tok.key = Old /\ \E n \in Nodes : stage[n] = 3) => Spent(tok)
    BY DEF ProfilesInv, ProfilesTypeOK
  <2>3. CASE UNCHANGED kvars
    BY <2>3 DEF kvars, ProfilesInv, ProfilesTypeOK, TokenOf, KidOf, Spent
  <2>4. CASE ProfilesTick
    <3>1. /\ feature' = feature /\ profile' = profile /\ kidding' = kidding /\ stage' = stage
          /\ signed' = signed /\ clock' = clock + 1 /\ clock' \in 0..MaxKeyTime
      BY <2>1, <2>4 DEF ProfilesTick
    <3>2. ASSUME NEW tok \in signed, Spent(tok)
          PROVE  Spent(tok)'
      BY <2>1, <2>2, <3>1, <3>2 DEF Spent
    <3>3. ASSUME NEW tok \in signed
          PROVE  TokenOf(tok.key, tok.claims.exp)' = TokenOf(tok.key, tok.claims.exp)
      BY <3>1 DEF TokenOf, KidOf
    <3> QED
      BY <2>1, <2>2, <3>1, <3>2, <3>3 DEF ProfilesInv, ProfilesTypeOK
  <2>5. ASSUME NEW n \in Nodes, Issue(n)
        PROVE  ProfilesInv'
    <3>1. PICK key, exp : key = SigningAt(stage[n]) /\ exp = clock + Ttl
      OBVIOUS
    <3>2. signed' = signed \cup {TokenOf(key, exp)}
      BY <2>1, <2>5, <3>1, RotationSigns DEF Issue
    <3>3. /\ feature' = feature /\ profile' = profile /\ kidding' = kidding /\ stage' = stage
          /\ clock' = clock
      BY <2>5 DEF Issue
    <3>4. stage[n] \in 0..3 /\ exp \in Nat
      BY <2>1, <3>1
    <3>5. key \in {Old, New} /\ (key = New <=> stage[n] >= 2)
      BY <3>1, <3>4 DEF SigningAt, ProfilesAssumption
    <3>6. TokenOf(key, exp).key = key /\ TokenOf(key, exp).claims.exp = exp
      BY DEF TokenOf
    <3>7. ASSUME NEW m \in Nodes
          PROVE  stage[n] <= stage[m] + 1 /\ stage[m] <= stage[n] + 1 /\ stage[m] \in 0..3
      BY <2>1 DEF ProfilesInv
    <3>8. key = New => \A m \in Nodes : stage[m] >= 1
      BY <3>4, <3>5, <3>7
    <3>9. ~ (key = Old /\ \E m \in Nodes : stage[m] = 3)
      BY <3>4, <3>5, <3>7 DEF ProfilesAssumption
    <3>10. ASSUME NEW tok \in signed'
           PROVE  /\ tok.key \in {Old, New} /\ tok.claims.exp \in Nat
                  /\ tok = TokenOf(tok.key, tok.claims.exp)
                  /\ tok.key = New => \A m \in Nodes : stage[m] >= 1
                  /\ (tok.key = Old /\ \E m \in Nodes : stage[m] = 3) => Spent(tok)
      <4>1. CASE tok \in signed
        BY <2>2, <4>1
      <4>2. CASE tok = TokenOf(key, exp)
        BY <3>4, <3>5, <3>6, <3>8, <3>9, <4>2, Zenon
      <4> QED
        BY <3>2, <3>10, <4>1, <4>2
    <3>11. ASSUME NEW tok \in signed'
           PROVE  TokenOf(tok.key, tok.claims.exp)' = TokenOf(tok.key, tok.claims.exp) /\ Spent(tok)' = Spent(tok)
      BY <3>3 DEF TokenOf, KidOf, Spent
    <3> QED
      BY <2>1, <3>3, <3>10, <3>11 DEF ProfilesInv, ProfilesTypeOK
  <2>6. ASSUME NEW n \in Nodes, Redeploy(n)
        PROVE  ProfilesInv'
    <3>1. /\ feature' = feature /\ profile' = profile /\ kidding' = kidding /\ signed' = signed
          /\ clock' = clock /\ stage' = [stage EXCEPT ![n] = stage[n] + 1] /\ stage[n] < 3
          /\ \A m \in Nodes : stage[m] >= stage[n]
      BY <2>6 DEF Redeploy
    <3>2. /\ stage' \in [Nodes -> 0..3] /\ stage'[n] = stage[n] + 1
          /\ \A m \in Nodes \ {n} : stage'[m] = stage[m]
      BY <2>1, <3>1
    <3>3. ASSUME NEW l \in Nodes, NEW m \in Nodes
          PROVE  stage'[m] <= stage'[l] + 1
      <4>1. /\ stage[m] \in 0..3 /\ stage[l] \in 0..3 /\ stage[n] \in 0..3
            /\ stage[m] <= stage[l] + 1 /\ stage[l] >= stage[n]
        BY <2>1, <3>1 DEF ProfilesInv
      <4> QED
        BY <3>2, <4>1
    <3>4. ASSUME NEW m \in Nodes
          PROVE  stage'[m] >= stage[m] /\ (stage'[m] = 3 => (stage[m] = 3 \/ (m = n /\ stage[n] = 2)))
      BY <2>1, <3>1, <3>2
    <3>5. ASSUME NEW tok \in signed
          PROVE  /\ tok.key = New => \A m \in Nodes : stage'[m] >= 1
                 /\ (tok.key = Old /\ \E m \in Nodes : stage'[m] = 3) => Spent(tok)
      <4>1. ASSUME tok.key = New, NEW m \in Nodes
            PROVE  stage'[m] >= 1
        <5>1. stage[m] >= 1 /\ stage[m] \in 0..3 /\ stage'[m] \in 0..3
          BY <2>1, <2>2, <3>2, <4>1
        <5> QED
          BY <3>4, <5>1
      <4>2. ASSUME tok.key = Old, NEW m \in Nodes, stage'[m] = 3
            PROVE  Spent(tok)
        <5>1. stage[m] = 3 \/ stage[n] = 2
          BY <3>4, <4>2
        <5>2. stage[n] = 2 => Spent(tok)
          BY <2>6, <4>2 DEF Redeploy
        <5> QED
          BY <2>2, <4>2, <5>1, <5>2
      <4> QED
        BY <4>1, <4>2
    <3>6. ASSUME NEW tok \in signed
          PROVE  TokenOf(tok.key, tok.claims.exp)' = TokenOf(tok.key, tok.claims.exp) /\ Spent(tok)' = Spent(tok)
      BY <3>1 DEF TokenOf, KidOf, Spent
    <3> QED
      BY <2>1, <2>2, <3>1, <3>2, <3>3, <3>5, <3>6 DEF ProfilesInv, ProfilesTypeOK
  <2> QED
    BY <2>3, <2>4, <2>5, <2>6 DEF ProfilesNext
<1> QED
  BY <1>1, <1>2, PTL DEF ProfilesSpec

(* A key is forgotten only at the last stage and known from the first on.  *)
LEMMA KeyStillVerifies ==
  ASSUME NEW s \in 0..3, NEW key \in {Old, New}, key = New => s >= 1, key = Old => s # 3
  PROVE  key \in VerifyingAt(s)
<1> QED
  BY DEF VerifyingAt

(* A token that is not spent passes the expiry check.                      *)
LEMMA GoodInTime ==
  ASSUME ProfilesAssumption, ProfilesTypeOK, NEW tok, tok.claims.exp \in Nat, ~ Spent(tok)
  PROVE  clock <= tok.claims.exp + Leeway
<1>1. PICK exp \in Nat : exp = tok.claims.exp
  OBVIOUS
<1>2. clock \in Nat /\ Leeway \in Nat
  BY DEF ProfilesTypeOK, ProfilesAssumption
<1>3. ~ (clock > exp + Leeway)
  BY <1>1, Zenon DEF Spent
<1>4. clock <= exp + Leeway
  BY <1>2, <1>3
<1> QED
  BY <1>1, <1>4

(* A token of the rotation that is still good is accepted at every node,   *)
(* unless an ML-DSA manager looks for another kid.                         *)
LEMMA RotationIsSeamless ==
  ASSUME ProfilesAssumption, ProfilesInv
  PROVE  SeamlessUnlessKidTargets
<1> SUFFICES ASSUME ~ (profile = "mldsa65" /\ kidding = "per_key"),
                    NEW n \in Nodes, NEW tok \in signed, ~ Spent(tok)
             PROVE  Accepts(n, tok)
  BY DEF SeamlessUnlessKidTargets, RotationSeamless
<1>1. /\ profile \in {"ed25519", "mldsa65"} /\ feature \in BOOLEAN /\ (profile = "mldsa65" => feature)
      /\ stage[n] \in 0..3 /\ (kidding \in {"none", "fixed"} \/ profile = "ed25519")
  BY DEF ProfilesInv, ProfilesTypeOK
<1>2. PICK key \in {Old, New}, exp \in Nat : key = tok.key /\ exp = tok.claims.exp
  BY DEF ProfilesInv, ProfilesTypeOK
<1>3. /\ tok.alg = IF profile = "ed25519" THEN "EdDSA" ELSE "ML-DSA-65"
      /\ tok.claims.iss = "kirino" /\ tok.claims.aud = "clients" /\ tok.kid = KidOf(key)
  <2>1. tok = TokenOf(tok.key, tok.claims.exp)
    BY DEF ProfilesInv
  <2>2. tok = TokenOf(key, exp)
    BY <1>2, <2>1, Zenon
  <2> QED
    BY <2>2 DEF TokenOf
<1>4. (key = New => stage[n] >= 1) /\ (key = Old => stage[n] # 3)
  BY <1>2 DEF ProfilesInv
<1> DEFINE ks == [profile |-> profile, signing |-> SigningAt(stage[n]), verifying |-> VerifyingAt(stage[n])]
           cfg == ConfigAt(stage[n])
<1>5. /\ KeySetOf(n) = ks /\ cfg.issuer = "kirino" /\ cfg.audience = "clients"
      /\ cfg.kid = KidOf(SigningAt(stage[n]))
  BY <1>1, RotationKeys DEF KeySetOf, Config
<1>6. ks.profile = profile /\ ks.verifying = VerifyingAt(stage[n])
  OBVIOUS
<1> HIDE DEF ks
<1>7. tok.key \in VerifyingAt(stage[n])
  <2>1. key \in VerifyingAt(stage[n])
    BY <1>1, <1>4, KeyStillVerifies
  <2> QED
    BY <1>2, <2>1
<1> HIDE DEF cfg
<1>8. clock <= tok.claims.exp + Leeway
  <2>1. tok.claims.exp \in Nat
    BY <1>2
  <2> QED
    BY <2>1, GoodInTime DEF ProfilesInv
<1>9. ClaimsOk(cfg, tok.claims, clock, TRUE)
  BY <1>3, <1>5, <1>8 DEF ClaimsOk
<1>10. CASE profile = "ed25519"
  <2>1. VerifyJsonwebtoken(cfg, ks, tok, clock, TRUE)
    BY <1>3, <1>5, <1>6, <1>7, <1>9, <1>10 DEF VerifyJsonwebtoken, Algorithm
  <2>2. VerifyWith(cfg, ks, tok, clock, TRUE)
    BY <1>6, <1>10, <2>1 DEF VerifyWith
  <2> QED
    BY <1>5, <2>2 DEF Accepts, Config, cfg
<1>11. CASE profile = "mldsa65"
  <2>1. KidOf(key) = KidOf(SigningAt(stage[n]))
    BY <1>1, <1>11 DEF KidOf
  <2>2. VerifyMldsa65(cfg, ks, tok, clock, TRUE)
    BY <1>3, <1>5, <1>6, <1>7, <1>9, <1>11, <2>1 DEF VerifyMldsa65
  <2>3. VerifyWith(cfg, ks, tok, clock, TRUE)
    BY <1>6, <1>11, <2>2 DEF VerifyWith
  <2> QED
    BY <1>5, <2>3 DEF Accepts, Config, cfg
<1> QED
  BY <1>1, <1>10, <1>11

(* What KeySet::resolve can come to.                                       *)
LEMMA ResolveIsClear ==
  ASSUME NEW cfg, NEW mldsa \in BOOLEAN, Configured(cfg.ed25519) \/ Configured(cfg.mldsa65)
  PROVE  /\ Resolve(cfg, mldsa) = Broken \/ Resolve(cfg, mldsa).profile \in {"ed25519", "mldsa65"}
         /\ (Configured(cfg.ed25519) /\ Configured(cfg.mldsa65)) => Resolve(cfg, mldsa) = Broken
<1> DEFINE ed == cfg.ed25519
           ml == cfg.mldsa65
           withMl == [profile |-> "mldsa65", signing |-> ml.signing, verifying |-> ml.verifying]
           withEd == [profile |-> "ed25519", signing |-> ed.signing, verifying |-> ed.verifying]
<1>1. withMl.profile = "mldsa65" /\ withEd.profile = "ed25519"
  OBVIOUS
<1>2. Resolve(cfg, mldsa) \in {Broken, withMl, withEd}
  BY Zenon DEF Resolve
<1>3. (Configured(ed) /\ Configured(ml)) => Resolve(cfg, mldsa) = Broken
  BY Zenon DEF Resolve
<1> HIDE DEF withMl, withEd
<1> QED
  BY <1>1, <1>2, <1>3

(* Whatever is configured, asymmetric material never works with the shared *)
(* secret, and what jwks publishes is what verifies.                       *)
LEMMA NeverFallsBack == ASSUME ProfilesAssumption PROVE NoFallback
<1> SUFFICES ASSUME NEW cfg \in Configs, NEW mldsa \in BOOLEAN, NEW t \in 0..MaxKeyTime
             PROVE  LET ks == Resolve(cfg, mldsa)
                        secretToken == Sign(FromSecret, SharedSecret, Claims(FromSecret, t))
                        asymmetric == Configured(cfg.ed25519) \/ Configured(cfg.mldsa65) IN
        /\ asymmetric => ~ VerifyWith(cfg, ks, secretToken, t, TRUE)
        /\ (asymmetric /\ CanSign(ks)) => Sign(cfg, ks, Claims(cfg, t)).alg # "HS256"
        /\ (Configured(cfg.ed25519) /\ Configured(cfg.mldsa65)) => ~ CanSign(ks)
        /\ \A key \in {Old, "secret"} :
              (\E j \in Jwks(cfg, ks) : j.key = key) <=>
              (asymmetric /\ VerifyWith(cfg, ks, [alg |-> Algorithm(ks), key |-> key,
                                  claims |-> Claims(cfg, t), kid |-> cfg.kid], t, TRUE))
  BY DEF NoFallback
<1>1. PICK ks : ks = Resolve(cfg, mldsa)
  OBVIOUS
<1>2. PICK secretToken : secretToken = Sign(FromSecret, SharedSecret, Claims(FromSecret, t))
  OBVIOUS
<1>3. PICK asymmetric \in BOOLEAN : asymmetric = (Configured(cfg.ed25519) \/ Configured(cfg.mldsa65))
  OBVIOUS
<1>4. secretToken.alg = "HS256"
  BY <1>2 DEF Sign, SharedSecret, Algorithm
<1>5. asymmetric => (ks = Broken \/ ks.profile \in {"ed25519", "mldsa65"})
  BY <1>1, <1>3, ResolveIsClear
<1>6. (Configured(cfg.ed25519) /\ Configured(cfg.mldsa65)) => ks = Broken
  BY <1>1, ResolveIsClear
<1>7. ~ asymmetric => ks = SharedSecret
  BY <1>1, <1>3, Zenon DEF Resolve
<1>8. Broken.profile = "broken" /\ SharedSecret.profile = "secret"
  BY DEF Broken, SharedSecret
<1>9. asymmetric => ~ VerifyWith(cfg, ks, secretToken, t, TRUE)
  BY <1>4, <1>5, <1>8 DEF VerifyWith, VerifyMldsa65, VerifyJsonwebtoken, Algorithm
<1>10. (asymmetric /\ CanSign(ks)) => Sign(cfg, ks, Claims(cfg, t)).alg # "HS256"
  BY <1>5, <1>8 DEF Sign, CanSign, Algorithm
<1>11. (Configured(cfg.ed25519) /\ Configured(cfg.mldsa65)) => ~ CanSign(ks)
  BY <1>6, <1>8 DEF CanSign
<1>12. ASSUME NEW key \in {Old, "secret"}
       PROVE  (\E j \in Jwks(cfg, ks) : j.key = key) <=>
              (asymmetric /\ VerifyWith(cfg, ks, [alg |-> Algorithm(ks), key |-> key,
                                  claims |-> Claims(cfg, t), kid |-> cfg.kid], t, TRUE))
  <2> DEFINE tok == [alg |-> Algorithm(ks), key |-> key, claims |-> Claims(cfg, t), kid |-> cfg.kid]
  <2>1. /\ tok.alg = Algorithm(ks) /\ tok.key = key /\ tok.claims = Claims(cfg, t) /\ tok.kid = cfg.kid
    OBVIOUS
  <2> HIDE DEF tok
  <2>2. CASE ~ asymmetric
    BY <1>7, <1>8, <2>2 DEF Jwks
  <2>3. CASE asymmetric /\ ks = Broken
    BY <1>8, <2>3 DEF Jwks, VerifyWith
  <2>4. CASE asymmetric /\ ks.profile \in {"ed25519", "mldsa65"}
    <3>1. (\E j \in Jwks(cfg, ks) : j.key = key) <=> key \in ks.verifying
      <4>1. Jwks(cfg, ks) = [alg : {Algorithm(ks)}, key : ks.verifying, kid : {cfg.kid}]
        BY <2>4 DEF Jwks
      <4>2. ASSUME key \in ks.verifying
            PROVE  \E j \in Jwks(cfg, ks) : j.key = key
        <5>1. [alg |-> Algorithm(ks), key |-> key, kid |-> cfg.kid] \in Jwks(cfg, ks)
          BY <4>1, <4>2
        <5>2. [alg |-> Algorithm(ks), key |-> key, kid |-> cfg.kid].key = key
          OBVIOUS
        <5> QED
          BY <5>1, <5>2
      <4> QED
        BY <4>1, <4>2
    <3>2. ClaimsOk(cfg, tok.claims, t, TRUE)
      <4>1. /\ Claims(cfg, t).iss = cfg.issuer /\ Claims(cfg, t).aud = cfg.audience
            /\ Claims(cfg, t).exp = t + Ttl
        BY DEF Claims
      <4>2. t <= t + Ttl + Leeway
        BY DEF ProfilesAssumption
      <4> QED
        BY <2>1, <4>1, <4>2, Zenon DEF ClaimsOk
    <3>3. cfg.audience = NoAudience => tok.claims.aud = NoAudience
      BY <2>1 DEF Claims
    <3>4. VerifyWith(cfg, ks, tok, t, TRUE) <=> key \in ks.verifying
      BY <2>1, <2>4, <3>2, <3>3 DEF VerifyWith, VerifyMldsa65, VerifyJsonwebtoken, Algorithm
    <3> QED
      BY <2>4, <3>1, <3>4 DEF tok
  <2> QED
    BY <1>5, <2>2, <2>3, <2>4
<1> QED
  BY <1>1, <1>2, <1>3, <1>9, <1>10, <1>11, <1>12, Zenon

(* Key rotation, for any number of nodes, lifetimes and leeway: no node    *)
(* turns a good token away unless ML-DSA targets the kid, and no           *)
(* configuration of asymmetric keys ever falls back to the shared secret.  *)
THEOREM KeysRotateSafelyAlways == ProfilesSpec => []KeysRotateSafely
<1>1. ProfilesInv => KeysRotateSafely
  BY ProfilesAssumption, RotationIsSeamless, NeverFallsBack DEF ProfilesInv, KeysRotateSafely
<1> QED
  BY <1>1, ProfilesInvariance, PTL

-----------------------------------------------------------------------------
(* TemporaryWhitelist *)

(* Noting what would be right at t keeps the shape of the calls.            *)
LEMMA NotedKeepsShape ==
  ASSUME asking \in [Asking -> WhitelistCall \cup {NotAsking}],
         NEW intent \in [Sources -> Nat], NEW t \in Nat, NEW notes, notes = Noted(intent, t)
  PROVE  /\ notes \in [Asking -> WhitelistCall \cup {NotAsking}]
         /\ \A c \in Asking :
              /\ notes[c].step = asking[c].step
              /\ notes[c].answer = asking[c].answer
              /\ notes[c].source = asking[c].source
              /\ notes[c].sampled = asking[c].sampled
              /\ asking[c].step # "asked" => notes[c] = asking[c]
              /\ asking[c].step = "asked" =>
                   /\ notes[c].yes = (asking[c].yes \/ t < intent[asking[c].source])
                   /\ notes[c].no = (asking[c].no \/ t >= intent[asking[c].source])
<1>1. ASSUME NEW c \in Asking, asking[c].step = "asked"
      PROVE  /\ asking[c] \in WhitelistCall
             /\ Noted(intent, t)[c] = [asking[c] EXCEPT !.yes = asking[c].yes \/ t < intent[asking[c].source],
                                                        !.no = asking[c].no \/ t >= intent[asking[c].source]]
  <2>1. asking[c] \in WhitelistCall \cup {NotAsking}
    OBVIOUS
  <2>2. asking[c] # NotAsking
    BY <1>1 DEF NotAsking
  <2>3. asking[c] \in WhitelistCall
    BY <2>1, <2>2
  <2>4. Noted(intent, t)[c] = [asking[c] EXCEPT !.yes = asking[c].yes \/ t < intent[asking[c].source],
                                                !.no = asking[c].no \/ t >= intent[asking[c].source]]
    BY <1>1 DEF Noted
  <2> QED
    BY <2>3, <2>4
<1>2. ASSUME NEW c \in Asking, asking[c].step = "asked"
      PROVE  /\ Noted(intent, t)[c] \in WhitelistCall
             /\ Noted(intent, t)[c].step = asking[c].step
             /\ Noted(intent, t)[c].answer = asking[c].answer
             /\ Noted(intent, t)[c].source = asking[c].source
             /\ Noted(intent, t)[c].sampled = asking[c].sampled
             /\ Noted(intent, t)[c].yes = (asking[c].yes \/ t < intent[asking[c].source])
             /\ Noted(intent, t)[c].no = (asking[c].no \/ t >= intent[asking[c].source])
  <2>1. PICK y \in BOOLEAN : y = (asking[c].yes \/ t < intent[asking[c].source])
    OBVIOUS
  <2>2. PICK n \in BOOLEAN : n = (asking[c].no \/ t >= intent[asking[c].source])
    OBVIOUS
  <2>3. Noted(intent, t)[c] = [asking[c] EXCEPT !.yes = y, !.no = n]
    BY <1>1, <1>2, <2>1, <2>2, Zenon
  <2>4. asking[c] \in WhitelistCall
    BY <1>1, <1>2
  <2>5. /\ Noted(intent, t)[c] \in WhitelistCall
        /\ Noted(intent, t)[c].step = asking[c].step
        /\ Noted(intent, t)[c].answer = asking[c].answer
        /\ Noted(intent, t)[c].source = asking[c].source
        /\ Noted(intent, t)[c].sampled = asking[c].sampled
        /\ Noted(intent, t)[c].yes = y
        /\ Noted(intent, t)[c].no = n
    BY <2>3, <2>4 DEF WhitelistCall
  <2> QED
    BY <2>1, <2>2, <2>5, Zenon
<1>3. ASSUME NEW c \in Asking, asking[c].step # "asked"
      PROVE  Noted(intent, t)[c] = asking[c]
  BY <1>3 DEF Noted
<1>4. Noted(intent, t) \in [Asking -> WhitelistCall \cup {NotAsking}]
  <2>1. ASSUME NEW c \in Asking
        PROVE  Noted(intent, t)[c] \in WhitelistCall \cup {NotAsking}
    BY <1>2, <1>3
  <2>2. Noted(intent, t) = [c \in Asking |-> Noted(intent, t)[c]]
    BY DEF Noted
  <2> QED
    BY <2>1, <2>2, Zenon
<1> QED
  BY <1>2, <1>3, <1>4, Zenon

(* Who is asking has sampled the clock and names a source.                  *)
LEMMA AskedHasShape ==
  ASSUME asking \in [Asking -> WhitelistCall \cup {NotAsking}], NEW c \in Asking, asking[c].step = "asked"
  PROVE  asking[c] \in WhitelistCall
<1>1. asking[c] \in WhitelistCall \cup {NotAsking}
  OBVIOUS
<1>2. asking[c] # NotAsking
  BY DEF NotAsking
<1> QED
  BY <1>1, <1>2

(* Initially the table is empty and nobody asks.                           *)
LEMMA WhitelistStarts ==
  ASSUME WhitelistAssumption, WhitelistInit
  PROVE  WhitelistInv
<1>1. whitelist = {} /\ moment = 0 /\ meant = [s \in Sources |-> 0] /\ asking = [c \in Asking |-> NotAsking]
  BY DEF WhitelistInit
<1>2. \A c \in Asking : asking[c].step = "idle" /\ asking[c].answer = FALSE
  BY <1>1 DEF NotAsking
<1>3. AnswersHonest /\ NotesKept
  <2>1. moment \in 0..MaxMoment /\ whitelist \subseteq WhitelistEntry
    BY <1>1 DEF WhitelistAssumption
  <2> QED
    BY <1>2, <2>1 DEF AnswersHonest, WhitelistTypeOK, AnswersRight, NotesKept
<1>4. TableAsMeant
  BY <1>1 DEF TableAsMeant
<1>5. meant \in [Sources -> Nat] /\ asking \in [Asking -> WhitelistCall \cup {NotAsking}]
  BY <1>1
<1> QED
  BY <1>3, <1>4, <1>5 DEF WhitelistInv

(* Whatever replaces one source's entry by what is now meant for it keeps  *)
(* the table and the notes: adding and removing are the two ways.          *)
LEMMA ReplacesEntry ==
  ASSUME WhitelistAssumption, WhitelistInv, NEW s \in Sources, NEW until \in Nat,
         until = 0 \/ moment < until,
         meant' = [meant EXCEPT ![s] = until],
         asking' = Noted(meant', moment), moment' = moment,
         \A e \in whitelist' : e \in Others(s) \/ e = [source |-> s, expires |-> until],
         Others(s) \subseteq whitelist',
         until # 0 => [source |-> s, expires |-> until] \in whitelist'
  PROVE  WhitelistInv'
<1>1. moment \in Nat /\ moment <= MaxMoment /\ MaxMoment \in Nat
  BY DEF WhitelistInv, AnswersHonest, WhitelistTypeOK, WhitelistAssumption
<1>2. meant' \in [Sources -> Nat] /\ meant \in [Sources -> Nat]
  BY DEF WhitelistInv
<1>3. /\ asking' \in [Asking -> WhitelistCall \cup {NotAsking}]
      /\ \A c \in Asking :
           /\ asking'[c].step = asking[c].step
           /\ asking'[c].answer = asking[c].answer
           /\ asking'[c].source = asking[c].source
           /\ asking'[c].sampled = asking[c].sampled
           /\ asking[c].step # "asked" => asking'[c] = asking[c]
           /\ asking[c].step = "asked" =>
                /\ asking'[c].yes = (asking[c].yes \/ moment < meant'[asking[c].source])
                /\ asking'[c].no = (asking[c].no \/ moment >= meant'[asking[c].source])
  <2>1. asking \in [Asking -> WhitelistCall \cup {NotAsking}]
    BY DEF WhitelistInv
  <2>2. PICK intent \in [Sources -> Nat] : intent = meant'
    BY <1>2
  <2>3. PICK notes : notes = asking'
    OBVIOUS
  <2>4. notes = Noted(intent, moment) /\ moment \in Nat
    BY <1>1, <2>2, <2>3
  <2>5. /\ notes \in [Asking -> WhitelistCall \cup {NotAsking}]
        /\ \A c \in Asking :
             /\ notes[c].step = asking[c].step
             /\ notes[c].answer = asking[c].answer
             /\ notes[c].source = asking[c].source
             /\ notes[c].sampled = asking[c].sampled
             /\ asking[c].step # "asked" => notes[c] = asking[c]
             /\ asking[c].step = "asked" =>
                  /\ notes[c].yes = (asking[c].yes \/ moment < intent[asking[c].source])
                  /\ notes[c].no = (asking[c].no \/ moment >= intent[asking[c].source])
    BY <2>1, <2>4, NotedKeepsShape
  <2> QED
    BY <2>2, <2>3, <2>5, Zenon
<1>4. WhitelistTypeOK'
  <2>1. Others(s) \subseteq whitelist /\ whitelist \subseteq WhitelistEntry
    BY DEF Others, WhitelistInv, AnswersHonest, WhitelistTypeOK
  <2>2. [source |-> s, expires |-> until] \in WhitelistEntry
    BY DEF WhitelistEntry
  <2>3. whitelist' \subseteq WhitelistEntry
    BY <2>1, <2>2
  <2> QED
    BY <1>1, <1>3, <2>3 DEF WhitelistInv, AnswersHonest, WhitelistTypeOK
<1>5. AnswersRight'
  <2> SUFFICES ASSUME NEW c \in Asking, asking'[c].step = "answered"
               PROVE  IF asking'[c].answer THEN asking'[c].yes ELSE asking'[c].no
    BY DEF AnswersRight
  <2> QED
    BY <1>3 DEF WhitelistInv, AnswersHonest, AnswersRight
<1>6. TableAsMeant'
  <2>1. ASSUME NEW e \in whitelist'
        PROVE  e.expires = meant'[e.source]
    <3>1. CASE e = [source |-> s, expires |-> until]
      BY <1>2, <3>1
    <3>2. CASE e \in Others(s)
      BY <1>2, <3>2 DEF Others, WhitelistInv, TableAsMeant, AnswersHonest, WhitelistTypeOK, WhitelistEntry
    <3> QED
      BY <2>1, <3>1, <3>2
  <2>2. ASSUME NEW x \in Sources, moment < meant'[x]
        PROVE  \E e \in whitelist' : e.source = x
    <3>1. CASE x = s
      <4>1. meant'[x] = until
        BY <1>2, <3>1
      <4>2. until # 0
        BY <1>1, <2>2, <4>1
      <4> QED
        BY <3>1, <4>2
    <3>2. CASE x # s
      <4>1. moment < meant[x]
        BY <1>2, <2>2, <3>2
      <4>2. PICK e \in whitelist : e.source = x
        BY <4>1 DEF WhitelistInv, TableAsMeant
      <4>3. e \in Others(s)
        BY <3>2, <4>2 DEF Others
      <4> QED
        BY <4>2, <4>3
    <3> QED
      BY <3>1, <3>2
  <2> QED
    BY <2>1, <2>2 DEF TableAsMeant
<1>7. NotesKept'
  <2> SUFFICES ASSUME NEW c \in Asking, asking'[c].step = "asked"
               PROVE  /\ asking'[c].sampled <= moment
                      /\ asking'[c].sampled < meant'[asking'[c].source] => asking'[c].yes
                      /\ ~ asking'[c].no => moment < meant'[asking'[c].source]
    BY DEF NotesKept
  <2>1. asking[c].step = "asked" /\ asking[c] \in WhitelistCall
    BY <1>3, AskedHasShape DEF WhitelistInv
  <2>2. PICK x \in Sources : x = asking[c].source
    BY <2>1 DEF WhitelistCall
  <2>3. PICK sampled \in Nat : sampled = asking[c].sampled
    BY <2>1 DEF WhitelistCall
  <2>4. sampled <= moment /\ (sampled < meant[x] => asking[c].yes)
    BY <2>1, <2>2, <2>3 DEF WhitelistInv, NotesKept
  <2>5. asking'[c].yes = (asking[c].yes \/ moment < meant'[x])
    BY <1>3, <2>1, <2>2
  <2>6. asking'[c].no = (asking[c].no \/ moment >= meant'[x])
    BY <1>3, <2>1, <2>2
  <2>7. sampled < meant'[x] => (sampled < meant[x] \/ moment < meant'[x])
    BY <1>1, <1>2, <2>4
  <2>8. moment >= meant'[x] \/ moment < meant'[x]
    BY <1>1, <1>2
  <2> QED
    BY <1>3, <2>2, <2>3, <2>4, <2>5, <2>6, <2>7, <2>8
<1> QED
  BY <1>2, <1>3, <1>4, <1>5, <1>6, <1>7 DEF WhitelistInv, AnswersHonest

(* Adding, for any positive lifetime.                                      *)
LEMMA AddKeeps ==
  ASSUME WhitelistAssumption, WhitelistInv, NEW s \in Sources, NEW ttl \in Ttls \cup {Forever}, Add(s, ttl)
  PROVE  WhitelistInv'
<1>1. moment \in Nat /\ moment <= MaxMoment /\ MaxMoment \in Nat
  BY DEF WhitelistInv, AnswersHonest, WhitelistTypeOK, WhitelistAssumption
<1>2. PICK until \in Nat : until = Expires(ttl) /\ moment < until
  BY <1>1, SMT DEF Expires, WhitelistAssumption
<1>3. whitelist' = Others(s) \cup {[source |-> s, expires |-> until]}
  BY <1>2 DEF Add
<1>4. meant' = [meant EXCEPT ![s] = until] /\ asking' = Noted(meant', moment) /\ moment' = moment
  BY <1>2 DEF Add
<1> QED
  BY <1>2, <1>3, <1>4, ReplacesEntry

(* Removing.                                                               *)
LEMMA RemoveKeeps ==
  ASSUME WhitelistAssumption, WhitelistInv, NEW s \in Sources, RemoveSource(s)
  PROVE  WhitelistInv'
<1>1. whitelist' = Others(s)
  BY DEF RemoveSource
<1>2. meant' = [meant EXCEPT ![s] = 0] /\ asking' = Noted(meant', moment) /\ moment' = moment
  BY DEF RemoveSource
<1> QED
  BY <1>1, <1>2, ReplacesEntry

(* A cleanup drops only what nobody is meant to be let in by.              *)
LEMMA CleanupKeeps ==
  ASSUME WhitelistAssumption, WhitelistInv, CleanupExpired
  PROVE  WhitelistInv'
<1>1. whitelist' = {e \in whitelist : Lives(e, moment)} /\ meant' = meant /\ asking' = asking /\ moment' = moment
  BY DEF CleanupExpired
<1>2. ASSUME NEW s \in Sources, moment < meant[s]
      PROVE  \E e \in whitelist' : e.source = s
  <2>1. PICK e \in whitelist : e.source = s
    BY <1>2 DEF WhitelistInv, TableAsMeant
  <2>2. e.expires = meant[s]
    BY <2>1 DEF WhitelistInv, TableAsMeant
  <2> QED
    BY <1>1, <1>2, <2>1, <2>2 DEF Lives
<1> QED
  BY <1>1, <1>2 DEF WhitelistInv, AnswersHonest, WhitelistTypeOK, AnswersRight, TableAsMeant, NotesKept

(* Time passes: a call that is still asking notes it.                      *)
LEMMA MomentPasses ==
  ASSUME WhitelistAssumption, WhitelistInv, WhitelistTick
  PROVE  WhitelistInv'
<1>1. moment \in Nat /\ moment < MaxMoment /\ MaxMoment \in Nat /\ moment' = moment + 1
  BY DEF WhitelistInv, AnswersHonest, WhitelistTypeOK, WhitelistAssumption, WhitelistTick
<1>2. meant' = meant /\ whitelist' = whitelist /\ meant \in [Sources -> Nat]
  BY DEF WhitelistInv, WhitelistTick
<1>3. /\ asking' \in [Asking -> WhitelistCall \cup {NotAsking}]
      /\ \A c \in Asking :
           /\ asking'[c].step = asking[c].step
           /\ asking'[c].answer = asking[c].answer
           /\ asking'[c].source = asking[c].source
           /\ asking'[c].sampled = asking[c].sampled
           /\ asking[c].step # "asked" => asking'[c] = asking[c]
           /\ asking[c].step = "asked" =>
                /\ asking'[c].yes = (asking[c].yes \/ moment + 1 < meant[asking[c].source])
                /\ asking'[c].no = (asking[c].no \/ moment + 1 >= meant[asking[c].source])
  <2>1. asking \in [Asking -> WhitelistCall \cup {NotAsking}]
    BY DEF WhitelistInv
  <2>2. moment + 1 \in Nat
    BY <1>1
  <2>3. asking' = Noted(meant, moment + 1)
    BY DEF WhitelistTick
  <2> QED
    BY <1>2, <2>1, <2>2, <2>3, NotedKeepsShape
<1>4. WhitelistTypeOK'
  BY <1>1, <1>2, <1>3 DEF WhitelistInv, AnswersHonest, WhitelistTypeOK
<1>5. AnswersRight'
  <2> SUFFICES ASSUME NEW c \in Asking, asking'[c].step = "answered"
               PROVE  IF asking'[c].answer THEN asking'[c].yes ELSE asking'[c].no
    BY DEF AnswersRight
  <2> QED
    BY <1>3 DEF WhitelistInv, AnswersHonest, AnswersRight
<1>6. TableAsMeant'
  <2>1. \A e \in whitelist' : e.expires = meant'[e.source]
    BY <1>2 DEF WhitelistInv, TableAsMeant
  <2>2. ASSUME NEW s \in Sources, moment' < meant'[s]
        PROVE  \E e \in whitelist' : e.source = s
    <3>1. moment < meant[s]
      BY <1>1, <1>2, <2>2
    <3> QED
      BY <1>2, <3>1 DEF WhitelistInv, TableAsMeant
  <2> QED
    BY <2>1, <2>2 DEF TableAsMeant
<1>7. NotesKept'
  <2> SUFFICES ASSUME NEW c \in Asking, asking'[c].step = "asked"
               PROVE  /\ asking'[c].sampled <= moment'
                      /\ asking'[c].sampled < meant'[asking'[c].source] => asking'[c].yes
                      /\ ~ asking'[c].no => moment' < meant'[asking'[c].source]
    BY DEF NotesKept
  <2>1. asking[c].step = "asked" /\ asking[c] \in WhitelistCall
    BY <1>3, AskedHasShape DEF WhitelistInv
  <2>2. PICK x \in Sources : x = asking[c].source
    BY <2>1 DEF WhitelistCall
  <2>3. PICK sampled \in Nat : sampled = asking[c].sampled
    BY <2>1 DEF WhitelistCall
  <2>4. sampled <= moment /\ (sampled < meant[x] => asking[c].yes)
    BY <2>1, <2>2, <2>3 DEF WhitelistInv, NotesKept
  <2>5. asking'[c].yes = (asking[c].yes \/ moment + 1 < meant[x])
    BY <1>3, <2>1, <2>2
  <2>6. asking'[c].no = (asking[c].no \/ moment + 1 >= meant[x])
    BY <1>3, <2>1, <2>2
  <2>7. moment + 1 >= meant[x] \/ moment + 1 < meant[x]
    BY <1>1, <1>2
  <2>8. sampled <= moment + 1
    BY <1>1, <2>4
  <2> QED
    BY <1>1, <1>2, <1>3, <2>2, <2>3, <2>4, <2>5, <2>6, <2>7, <2>8
<1> QED
  BY <1>2, <1>3, <1>4, <1>5, <1>6, <1>7 DEF WhitelistInv, AnswersHonest

(* A call begins: it notes what is right as it samples the clock.          *)
LEMMA AskBeginKeeps ==
  ASSUME WhitelistAssumption, WhitelistInv, NEW c \in Asking, NEW s \in Sources, AskBegin(c, s)
  PROVE  WhitelistInv'
<1>1. moment \in Nat /\ meant \in [Sources -> Nat] /\ meant[s] \in Nat
  BY DEF WhitelistInv, AnswersHonest, WhitelistTypeOK, WhitelistAssumption
<1>2. (moment < meant[s]) \in BOOLEAN /\ (moment >= meant[s]) \in BOOLEAN
  BY <1>1, SMT
<1>3. PICK y \in BOOLEAN : y = (moment < meant[s])
  BY <1>2, Zenon
<1>4. PICK n \in BOOLEAN : n = (moment >= meant[s])
  BY <1>2, Zenon
<1>5. (moment < meant[s] => y) /\ (moment >= meant[s] => n)
  BY <1>3, <1>4, Zenon
<1> DEFINE asked == [step |-> "asked", source |-> s, sampled |-> moment, answer |-> FALSE, yes |-> y, no |-> n]
<1>6. asking' = [asking EXCEPT ![c] = asked]
  BY <1>3, <1>4, Zenon DEF AskBegin
<1>7. whitelist' = whitelist /\ meant' = meant /\ moment' = moment
  BY DEF AskBegin
<1>8. asked \in WhitelistCall
  BY <1>1 DEF WhitelistCall
<1>9. asking' \in [Asking -> WhitelistCall \cup {NotAsking}] /\ asking'[c] = asked
      /\ \A d \in Asking \ {c} : asking'[d] = asking[d]
  BY <1>6, <1>8 DEF WhitelistInv
<1>10. /\ asked.step = "asked" /\ asked.source = s /\ asked.sampled = moment /\ asked.answer = FALSE
      /\ asked.yes = y /\ asked.no = n
  OBVIOUS
<1> HIDE DEF asked
<1>11. n \/ moment < meant[s]
  BY <1>1, <1>5
<1>12. NotesKept'
  <2> SUFFICES ASSUME NEW d \in Asking, asking'[d].step = "asked"
               PROVE  /\ asking'[d].sampled <= moment
                      /\ asking'[d].sampled < meant[asking'[d].source] => asking'[d].yes
                      /\ ~ asking'[d].no => moment < meant[asking'[d].source]
    BY <1>7 DEF NotesKept
  <2>1. CASE d = c
    <3>1. moment <= moment
      BY <1>1
    <3> QED
      BY <1>5, <1>9, <1>10, <1>11, <2>1, <3>1
  <2>2. CASE d # c
    BY <1>9, <2>2 DEF WhitelistInv, NotesKept
  <2> QED
    BY <2>1, <2>2
<1>13. WhitelistTypeOK' /\ AnswersRight'
  BY <1>7, <1>9, <1>10 DEF WhitelistInv, AnswersHonest, WhitelistTypeOK, AnswersRight
<1>14. TableAsMeant'
  BY <1>7 DEF WhitelistInv, TableAsMeant
<1> QED
  BY <1>1, <1>7, <1>9, <1>12, <1>13, <1>14 DEF WhitelistInv, AnswersHonest

(* A call reads the table: the answer it gives is one it has noted.        *)
LEMMA AskReadKeeps ==
  ASSUME WhitelistAssumption, WhitelistInv, NEW c \in Asking, AskRead(c)
  PROVE  WhitelistInv'
<1>1. /\ moment \in Nat /\ moment <= MaxMoment /\ MaxMoment \in Nat /\ Forever \in Nat /\ MaxMoment < Forever
      /\ meant \in [Sources -> Nat]
  BY DEF WhitelistInv, AnswersHonest, WhitelistTypeOK, WhitelistAssumption
<1>2. asking[c].step = "asked" /\ asking[c] \in WhitelistCall
  BY AskedHasShape DEF AskRead, WhitelistInv
<1>3. PICK s \in Sources, sampled \in Nat : s = asking[c].source /\ sampled = asking[c].sampled
  BY <1>2 DEF WhitelistCall
<1>4. PICK a \in BOOLEAN : a = IsWhitelisted(s, sampled)
  BY DEF IsWhitelisted
<1>5. asking' = [asking EXCEPT ![c] = [asking[c] EXCEPT !.step = "answered", !.answer = a]]
  BY <1>3, <1>4, Zenon DEF AskRead
<1>6. whitelist' = whitelist /\ meant' = meant /\ moment' = moment
  BY DEF AskRead
<1> DEFINE asked == [asking[c] EXCEPT !.step = "answered", !.answer = a]
<1>7. /\ asked \in WhitelistCall /\ asked.step = "answered" /\ asked.answer = a
      /\ asked.yes = asking[c].yes /\ asked.no = asking[c].no
  BY <1>2 DEF WhitelistCall
<1>8. asking' \in [Asking -> WhitelistCall \cup {NotAsking}] /\ asking'[c] = asked
      /\ \A d \in Asking \ {c} : asking'[d] = asking[d]
  BY <1>5, <1>7 DEF WhitelistInv
<1> HIDE DEF asked
<1>9. /\ sampled <= moment /\ (sampled < meant[s] => asking[c].yes)
      /\ ~ asking[c].no => moment < meant[s]
  BY <1>2, <1>3 DEF WhitelistInv, NotesKept
<1>10. a => asking[c].yes
  <2> SUFFICES ASSUME a PROVE asking[c].yes
    OBVIOUS
  <2>1. PICK e \in whitelist : e.source = s /\ Lives(e, sampled)
    BY <1>4 DEF IsWhitelisted
  <2>2. e.expires = meant[s]
    BY <2>1 DEF WhitelistInv, TableAsMeant
  <2>3. sampled < meant[s]
    BY <1>1, <1>9, <2>1, <2>2 DEF Lives
  <2> QED
    BY <1>9, <2>3
<1>11. ~ a => asking[c].no
  <2> SUFFICES ASSUME ~ a, ~ asking[c].no PROVE FALSE
    OBVIOUS
  <2>1. moment < meant[s]
    BY <1>9
  <2>2. PICK e \in whitelist : e.source = s
    BY <2>1 DEF WhitelistInv, TableAsMeant
  <2>3. e.expires = meant[s]
    BY <2>2 DEF WhitelistInv, TableAsMeant
  <2>4. Lives(e, sampled)
    BY <1>1, <1>9, <2>1, <2>3 DEF Lives
  <2> QED
    BY <1>4, <2>2, <2>4 DEF IsWhitelisted
<1>12. AnswersRight'
  <2> SUFFICES ASSUME NEW d \in Asking, asking'[d].step = "answered"
               PROVE  IF asking'[d].answer THEN asking'[d].yes ELSE asking'[d].no
    BY DEF AnswersRight
  <2>1. CASE d = c
    BY <1>7, <1>8, <1>10, <1>11, <2>1
  <2>2. CASE d # c
    BY <1>8, <2>2 DEF WhitelistInv, AnswersHonest, AnswersRight
  <2> QED
    BY <2>1, <2>2
<1>13. WhitelistTypeOK' /\ NotesKept' /\ TableAsMeant'
  BY <1>6, <1>7, <1>8 DEF WhitelistInv, AnswersHonest, WhitelistTypeOK, NotesKept, TableAsMeant
<1> QED
  BY <1>1, <1>6, <1>8, <1>12, <1>13 DEF WhitelistInv, AnswersHonest

(* The whitelist's invariant is inductive.                                 *)
LEMMA WhitelistInvariance == WhitelistSpec => []WhitelistInv
<1> USE WhitelistAssumption
<1>1. WhitelistInit => WhitelistInv
  BY WhitelistStarts
<1>2. WhitelistInv /\ [WhitelistNext]_wvars => WhitelistInv'
  <2> SUFFICES ASSUME WhitelistInv, [WhitelistNext]_wvars PROVE WhitelistInv'
    OBVIOUS
  <2>1. CASE UNCHANGED wvars
    BY <2>1 DEF wvars, WhitelistInv, AnswersHonest, WhitelistTypeOK, AnswersRight, TableAsMeant, NotesKept
  <2>2. CASE WhitelistNext
    BY <2>2, AddKeeps, RemoveKeeps, CleanupKeeps, MomentPasses, AskBeginKeeps, AskReadKeeps DEF WhitelistNext
  <2> QED
    BY <2>1, <2>2
<1> QED
  BY <1>1, <1>2, PTL DEF WhitelistSpec

(* is_whitelisted, for every set of sources and lifetimes and any number   *)
(* of concurrent calls: every answer was right at some instant of the call.*)
THEOREM WhitelistAnswersHonestly == WhitelistSpec => []AnswersHonest
<1>1. WhitelistInv => AnswersHonest
  BY DEF WhitelistInv
<1> QED
  BY <1>1, WhitelistInvariance, PTL
=============================================================================
