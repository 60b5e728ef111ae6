-------------------------- MODULE SingleUseStores --------------------------
(* The in-memory stores behind challenges, codes and one-shot tokens: one-time
   tokens (one_time.rs), captchas (captcha.rs), proof-of-work seeds (pow.rs),
   WebAuthn challenges (webauthn/challenge.rs), verification codes (code_store.rs),
   one-shot JTIs (one_shot.rs) and the HOTP counter (dynamic_password.rs).

   `store` says which of them the behaviour is about; it never changes.  A ticket
   is the random token, challenge, seed or code the store hands out: a fresh number
   each time.  One lock section is one step, so an issue that prunes under one lock
   and inserts under the next is two.  Time is in ticks. *)
EXTENDS Integers, FiniteSets

CONSTANTS
    Stores,            \* implementations under study
    Clients,           \* concurrent callers of issue (pow, webauthn) and of HOTP verify
    MaxIssued,         \* bound: tickets ever handed out
    MaxStoreTime,      \* bound: clock
    Ttl,               \* lifetime of a ticket
    Cap,               \* capacity of the seed, challenge and JTI tables
    MaxAttempts,       \* answers a captcha or a code tolerates (at least 1)
    CleanupThreshold,  \* CAPTCHA_CLEANUP_THRESHOLD
    PruneInterval,     \* PRUNE_INTERVAL_SECS of the one-shot store
    CodeKeys,          \* recipients of verification codes
    BoundUsers,        \* user bindings of WebAuthn challenges
    HotpCode           \* the six-digit code of each counter value; values may collide

(* A cap of zero is left out: challenge.rs would still keep the challenge it inserts. *)
ASSUME StoresAssumption ==
    /\ MaxIssued \in Nat /\ MaxStoreTime \in Nat /\ Ttl \in Nat /\ Cap \in Nat \ {0}
    /\ MaxAttempts \in Nat \ {0} /\ CleanupThreshold \in Nat /\ PruneInterval \in Nat

VARIABLES store, table, storeNow, serial, lastPrune, counter, inflight, uses, tries, minted

svars == <<store, table, storeNow, serial, lastPrune, counter, inflight, uses, tries, minted>>

Tickets == 1..MaxIssued
Purposes == {"Register", "Authenticate"}
Unbound == "None"
Bindings == BoundUsers \cup {Unbound}

(* PendingToken, ChallengeEntry, SeedEntry, Entry and PendingCode; a field a store
   does not keep has its default. *)
TicketEntry == [ticket : Tickets, at : Nat, expires : Nat, attempts : Nat,
          purpose : Purposes, user : Bindings]

NewEntry(t, ttl) ==
    [ticket |-> t, at |-> storeNow, expires |-> storeNow + ttl, attempts |-> 0,
     purpose |-> "Register", user |-> Unbound]

Put(f, k, e) == [x \in DOMAIN f \cup {k} |-> IF x = k THEN e ELSE f[x]]
Keep(S) == [k \in S |-> table[k]]
Without(k) == Keep(DOMAIN table \ {k})

(* tokens.retain(now < expires_at) of the one-time and the code store. *)
UnexpiredKeys == {k \in DOMAIN table : storeNow < table[k].expires}

(* retain(elapsed <= ttl) of the captcha, seed and WebAuthn tables. *)
WithinTtl == {k \in DOMAIN table : storeNow - table[k].at <= Ttl}

NotCalling == [op |-> "idle", code |-> 0, seen |-> 0, retries |-> 0]

(* The HOTP verifier starts at counter 0; nothing else has state. *)
StoresInit ==
    /\ store \in Stores
    /\ table = [k \in {} |-> 0]
    /\ storeNow = PruneInterval
    /\ serial = 0
    /\ lastPrune = 0
    /\ counter = 0
    /\ inflight = [c \in Clients |-> NotCalling]
    /\ uses = [t \in Tickets |-> 0]
    /\ tries = [t \in Tickets |-> 0]
    /\ minted = [t \in Tickets |-> 0]

AcceptTicket(t) == uses' = [uses EXCEPT ![t] = @ + 1]
Try(t) == tries' = [tries EXCEPT ![t] = @ + 1]
MintTicket(t) == serial' = t /\ minted' = [minted EXCEPT ![t] = storeNow]

StoresTick ==
    /\ storeNow < MaxStoreTime
    /\ storeNow' = storeNow + 1
    /\ UNCHANGED <<store, table, serial, lastPrune, counter, inflight, uses, tries, minted>>

-----------------------------------------------------------------------------
(* InMemoryOneTimeStore *)

(* issue: expired tokens are dropped, the hash of the new one is inserted. *)
OneTimeIssue ==
    LET t == serial + 1 IN
    /\ store = "one_time" /\ serial < MaxIssued
    /\ MintTicket(t)
    /\ table' = Put(Keep(UnexpiredKeys), t, NewEntry(t, Ttl))
    /\ UNCHANGED <<store, storeNow, lastPrune, counter, inflight, uses, tries>>

(* claim: the token leaves the table whatever the answer. *)
OneTimeClaim(t) ==
    /\ store = "one_time" /\ t <= serial
    /\ table' = Without(t)
    /\ IF t \in DOMAIN table THEN Try(t) ELSE UNCHANGED tries
    /\ IF t \in UnexpiredKeys THEN AcceptTicket(t) ELSE UNCHANGED uses
    /\ UNCHANGED <<store, storeNow, serial, lastPrune, counter, inflight, minted>>

OneTimeCleanup ==
    /\ store = "one_time"
    /\ table' = Keep(UnexpiredKeys)
    /\ UNCHANGED <<store, storeNow, serial, lastPrune, counter, inflight, uses, tries, minted>>

(* OneTimeCredential: the token is compared before the used flag is taken with a
   compare-exchange; an entry is a credential whose flag is still false. *)
CredentialGenerate ==
    LET t == serial + 1 IN
    /\ store = "credential" /\ serial < MaxIssued
    /\ MintTicket(t)
    /\ table' = Put(table, t, NewEntry(t, Ttl))
    /\ UNCHANGED <<store, storeNow, lastPrune, counter, inflight, uses, tries>>

CredentialVerify(t, right) ==
    /\ store = "credential" /\ t <= serial
    /\ IF right /\ t \in DOMAIN table
       THEN table' = Without(t) /\ AcceptTicket(t)
       ELSE UNCHANGED <<table, uses>>
    /\ UNCHANGED <<store, storeNow, serial, lastPrune, counter, inflight, tries, minted>>

-----------------------------------------------------------------------------
(* CaptchaVerifier *)

CaptchaGenerate ==
    LET t == serial + 1 IN
    /\ store = "captcha" /\ serial < MaxIssued
    /\ MintTicket(t)
    /\ table' = Put(Keep(WithinTtl), t, NewEntry(t, Ttl))
    /\ UNCHANGED <<store, storeNow, lastPrune, counter, inflight, uses, tries>>

(* Mutant: one attempt too many. *)
WornOutLate(e) == e.attempts > MaxAttempts

WornOut(e) == e.attempts >= MaxAttempts

(* verify: an unknown id is an error, an expired one or one out of attempts is
   removed, and only then is the answer compared; above the threshold every verify
   that compared an answer also sweeps. *)
CaptchaVerify(t, right) ==
    /\ store = "captcha" /\ t \in DOMAIN table
    /\ IF t \notin WithinTtl \/ WornOut(table[t])
       THEN table' = Without(t) /\ UNCHANGED <<uses, tries>>
       ELSE LET rest == IF right THEN Without(t) ELSE [table EXCEPT ![t].attempts = @ + 1] IN
            /\ table' = IF Cardinality(DOMAIN rest) > CleanupThreshold
                          THEN [k \in DOMAIN rest \cap WithinTtl |-> rest[k]] ELSE rest
            /\ Try(t)
            /\ IF right THEN AcceptTicket(t) ELSE UNCHANGED uses
    /\ UNCHANGED <<store, storeNow, serial, lastPrune, counter, inflight, minted>>

(* cleanup_expired, and each pass of the background task. *)
CaptchaCleanup ==
    /\ store = "captcha"
    /\ table' = Keep(WithinTtl)
    /\ UNCHANGED <<store, storeNow, serial, lastPrune, counter, inflight, uses, tries, minted>>

-----------------------------------------------------------------------------
(* PowChallenge and WebAuthnChallengeStore: issue prunes under one lock, then makes
   room and inserts under the next. *)

Capped == {"pow", "webauthn"}

IssuePrune(c) ==
    /\ store \in Capped /\ inflight[c] = NotCalling
    /\ table' = Keep(WithinTtl)
    /\ inflight' = [inflight EXCEPT ![c].op = "insert"]
    /\ UNCHANGED <<store, storeNow, serial, lastPrune, counter, uses, tries, minted>>

(* Mutant: the newest entries are dropped. *)
Newest(n, S) ==
    /\ S \subseteq DOMAIN table /\ Cardinality(S) = n
    /\ \A k \in S, j \in DOMAIN table \ S : table[k].at >= table[j].at

(* A set of n entries none of which is younger than an entry outside it: what sorting
   by issued_at and cutting leaves, equal instants in any order. *)
Oldest(n, S) ==
    /\ S \subseteq DOMAIN table /\ Cardinality(S) = n
    /\ \A k \in S, j \in DOMAIN table \ S : table[k].at <= table[j].at

(* pow.rs keeps the newest `cap` seeds and then inserts one more; challenge.rs makes
   room for the one it inserts. *)
PowEvicts == IF Cardinality(DOMAIN table) >= Cap THEN Cardinality(DOMAIN table) - Cap ELSE 0

(* Mutant: no room made for the challenge about to be inserted. *)
WebAuthnEvictsLate == PowEvicts

WebAuthnEvicts ==
    IF Cardinality(DOMAIN table) >= Cap THEN Cardinality(DOMAIN table) - (Cap - 1) ELSE 0

Insert(c, evicted, e) ==
    /\ inflight[c].op = "insert" /\ serial < MaxIssued
    /\ MintTicket(e.ticket)
    /\ table' = Put(Keep(DOMAIN table \ evicted), e.ticket, e)
    /\ inflight' = [inflight EXCEPT ![c] = NotCalling]
    /\ UNCHANGED <<store, storeNow, lastPrune, counter, uses, tries>>

PowInsert(c) ==
    /\ store = "pow"
    /\ \E S \in SUBSET DOMAIN table :
           Oldest(PowEvicts, S) /\ Insert(c, S, NewEntry(serial + 1, Ttl))

(* verify: the seed is consumed by the first attempt, good or bad. *)
PowVerify(t, enough) ==
    /\ store = "pow" /\ t \in DOMAIN table
    /\ table' = Without(t)
    /\ Try(t)
    /\ IF t \in WithinTtl /\ enough THEN AcceptTicket(t) ELSE UNCHANGED uses
    /\ UNCHANGED <<store, storeNow, serial, lastPrune, counter, inflight, minted>>

WebAuthnInsert(c, p, u) ==
    /\ store = "webauthn"
    /\ \E S \in SUBSET DOMAIN table :
           /\ Oldest(WebAuthnEvicts, S)
           /\ Insert(c, S, [NewEntry(serial + 1, Ttl) EXCEPT !.purpose = p, !.user = u])

(* verify: the challenge is consumed whatever the outcome; lifetime, purpose and user
   binding are checked in that order, and a binding must be present on both sides or
   on neither. *)
WebAuthnVerify(t, p, u) ==
    /\ store = "webauthn" /\ t \in DOMAIN table
    /\ table' = Without(t)
    /\ Try(t)
    /\ IF t \in WithinTtl /\ table[t].purpose = p /\ table[t].user = u
       THEN AcceptTicket(t) ELSE UNCHANGED uses
    /\ UNCHANGED <<store, storeNow, serial, lastPrune, counter, inflight, minted>>

-----------------------------------------------------------------------------
(* VerificationCodeStore: one pending code per recipient. *)

(* store_with_attempts: a newer code replaces the recipient's pending one and starts
   its attempts again. *)
StoreCode(k) ==
    LET t == serial + 1 IN
    /\ store = "code" /\ serial < MaxIssued
    /\ MintTicket(t)
    /\ table' = Put(Keep(UnexpiredKeys), k, NewEntry(t, Ttl))
    /\ UNCHANGED <<store, storeNow, lastPrune, counter, inflight, uses, tries>>

(* verify(k, code of ticket t): expired and worn-out codes are removed unread; a
   mismatch leaves the code with one attempt fewer. *)
VerifyCode(k, t) ==
    /\ store = "code" /\ k \in DOMAIN table /\ t <= serial
    /\ LET e == table[k] IN
       IF k \notin UnexpiredKeys \/ e.attempts + 1 > MaxAttempts
       THEN table' = Without(k) /\ UNCHANGED <<uses, tries>>
       ELSE /\ Try(e.ticket)
            /\ IF e.ticket = t
               THEN table' = Without(k) /\ AcceptTicket(t)
               ELSE table' = [table EXCEPT ![k].attempts = @ + 1] /\ UNCHANGED uses
    /\ UNCHANGED <<store, storeNow, serial, lastPrune, counter, inflight, minted>>

-----------------------------------------------------------------------------
(* OneShotStore: here an entry is a JTI already seen. *)

JtiMint ==
    /\ store = "one_shot" /\ serial < MaxIssued
    /\ MintTicket(serial + 1)
    /\ UNCHANGED <<store, table, storeNow, lastPrune, counter, inflight, uses, tries>>

Expiry(t) == minted[t] + Ttl

(* check_and_mark(jti, exp): a sweep at most once per interval, a sweep when full,
   "replay" while still full, else the JTI is recorded and was fresh if absent.  The
   mutex spans the call, so maybe_prune's compare-exchange cannot lose. *)
OneShotMark(t) ==
    LET due == storeNow - lastPrune >= PruneInterval
        swept == IF due THEN UnexpiredKeys ELSE DOMAIN table
        kept == IF Cardinality(swept) >= Cap THEN swept \cap UnexpiredKeys ELSE swept IN
    /\ store = "one_shot" /\ t <= serial
    /\ lastPrune' = IF due THEN storeNow ELSE lastPrune
    /\ IF Cardinality(kept) >= Cap
       THEN table' = Keep(kept) /\ UNCHANGED uses
       ELSE /\ table' = Put(Keep(kept), t, [NewEntry(t, 0) EXCEPT !.expires = Expiry(t)])
            /\ IF t \notin kept /\ storeNow < Expiry(t) THEN AcceptTicket(t) ELSE UNCHANGED uses
    /\ UNCHANGED <<store, storeNow, serial, counter, inflight, tries, minted>>

-----------------------------------------------------------------------------
(* HotpVerifier: load, compare, compare-exchange, at most three times. *)

MaxVerifyRetries == 3
HotpTickets == {t \in Tickets : t > counter}

HotpStart(c, code) ==
    /\ store = "hotp" /\ inflight[c] = NotCalling
    /\ counter < MaxIssued
    /\ inflight' = [inflight EXCEPT ![c] = [op |-> "load", code |-> code, seen |-> 0, retries |-> 0]]
    /\ UNCHANGED <<store, table, storeNow, serial, lastPrune, counter, uses, tries, minted>>

(* The load and the comparison: a mismatch ends the call. *)
HotpLoad(c) ==
    /\ inflight[c].op = "load"
    /\ inflight' = [inflight EXCEPT ![c] =
           IF counter < MaxIssued /\ HotpCode[counter + 1] = @.code
           THEN [@ EXCEPT !.op = "cas", !.seen = counter] ELSE NotCalling]
    /\ UNCHANGED <<store, table, storeNow, serial, lastPrune, counter, uses, tries, minted>>

(* Mutant: the counter is stored without the compare. *)
HotpStore(c) ==
    /\ inflight[c].op = "cas"
    /\ counter' = inflight[c].seen + 1
    /\ AcceptTicket(inflight[c].seen + 1)
    /\ inflight' = [inflight EXCEPT ![c] = NotCalling]
    /\ UNCHANGED <<store, table, storeNow, serial, lastPrune, tries, minted>>

HotpCas(c) ==
    /\ inflight[c].op = "cas"
    /\ IF counter = inflight[c].seen
       THEN /\ counter' = counter + 1
            /\ AcceptTicket(inflight[c].seen + 1)
            /\ inflight' = [inflight EXCEPT ![c] = NotCalling]
       ELSE /\ inflight' = [inflight EXCEPT ![c] =
                   IF @.retries + 1 >= MaxVerifyRetries THEN NotCalling
                   ELSE [@ EXCEPT !.op = "load", !.retries = inflight[c].retries + 1]]
            /\ UNCHANGED <<counter, uses>>
    /\ UNCHANGED <<store, table, storeNow, serial, lastPrune, tries, minted>>

-----------------------------------------------------------------------------
StoresNext ==
    \/ StoresTick
    \/ OneTimeIssue \/ OneTimeCleanup \/ CredentialGenerate
    \/ CaptchaGenerate \/ CaptchaCleanup \/ JtiMint
    \/ \E t \in Tickets :
           \/ OneTimeClaim(t) \/ OneShotMark(t)
           \/ \E ok \in BOOLEAN :
                  CredentialVerify(t, ok) \/ CaptchaVerify(t, ok) \/ PowVerify(t, ok)
           \/ \E p \in Purposes, u \in Bindings : WebAuthnVerify(t, p, u)
           \/ \E k \in CodeKeys : VerifyCode(k, t)
    \/ \E k \in CodeKeys : StoreCode(k)
    \/ \E c \in Clients :
           \/ IssuePrune(c) \/ PowInsert(c) \/ HotpLoad(c) \/ HotpCas(c)
           \/ \E p \in Purposes, u \in Bindings : WebAuthnInsert(c, p, u)
           \/ \E code \in {HotpCode[t] : t \in Tickets} : HotpStart(c, code)

StoresSpec == StoresInit /\ [][StoresNext]_svars

-----------------------------------------------------------------------------
StoresTypeOK ==
    /\ \A k \in DOMAIN table : table[k] \in TicketEntry
    /\ serial \in 0..MaxIssued /\ counter \in 0..MaxIssued
    /\ storeNow \in Nat /\ lastPrune \in 0..storeNow

(* What the tables still hold, as uses left of each ticket. *)
Live(t) ==
    IF store = "hotp" THEN t \in HotpTickets
    ELSE IF store = "one_shot" THEN t <= serial /\ storeNow < Expiry(t) /\ t \notin DOMAIN table
    ELSE \E k \in DOMAIN table : table[k].ticket = t

TicketsLeft == [t \in Tickets |-> IF Live(t) THEN 1 ELSE 0]

TicketPromise == INSTANCE LimitedUse WITH left <- TicketsLeft, spent <- uses

(* Every store, whatever the order of issues, verifications, sweeps and evictions,
   hands out single-use tickets: an acceptance always spends a ticket that was handed
   out and not voided, so none is accepted twice and none after its removal. *)
SingleUse == TicketPromise!Spec

(* Answers a ticket was compared with: a captcha or code tolerates MaxAttempts of
   them, a token, seed or challenge one. *)
Tolerated == IF store \in {"captcha", "code"} THEN MaxAttempts ELSE 1

TriesBounded == \A t \in Tickets : tries[t] <= Tolerated

(* The tables that a caller can fill without authenticating stay bounded: JTIs and
   WebAuthn challenges by the cap, seeds by one more than it (issue makes no room for
   the seed it inserts). *)
TableBounded ==
    store \in {"pow", "webauthn", "one_shot"} =>
        Cardinality(DOMAIN table) <= (IF store = "pow" THEN Cap + 1 ELSE Cap)

(* The other tickets issued no earlier than t. *)
NoEarlier(t) == {o \in 1..serial : o # t /\ minted[o] >= minted[t]}

(* Nobody loses a ticket to somebody else: while it is within its lifetime and was
   neither answered in vain nor accepted, a token, captcha, seed or challenge is still
   in its table unless Cap others were issued no earlier. *)
NotDisplaced ==
    \A t \in 1..serial :
        (/\ store \in {"one_time", "captcha", "pow", "webauthn"}
         /\ uses[t] = 0 /\ tries[t] < Tolerated
         /\ storeNow - minted[t] < Ttl
         /\ Cardinality(NoEarlier(t)) < Cap)
            => t \in DOMAIN table

(* No ticket is compared with more answers than its store tolerates, tables an
   unauthenticated caller fills stay within their capacity, and nobody's unused ticket is
   lost to another caller before the capacity forces it. *)
StoresBounded == StoresTypeOK /\ TriesBounded /\ TableBounded /\ NotDisplaced

-----------------------------------------------------------------------------
(* The parts of the inductive strengthening: every entry is found under its own ticket, or
   under a recipient no other entry of the ticket shares; it is dated by its issue; it has
   counted every answer; nothing has happened to a ticket not yet issued; and a call is of
   its store's kind. *)
Keyed ==
    /\ \A k \in DOMAIN table : table[k].ticket <= serial
    /\ store # "code" => \A k \in DOMAIN table : table[k].ticket = k
    /\ store = "code" => /\ DOMAIN table \subseteq CodeKeys
                         /\ \A j, k \in DOMAIN table : table[j].ticket = table[k].ticket => j = k

Dated ==
    \A k \in DOMAIN table :
        /\ table[k].expires = minted[table[k].ticket] + Ttl
        /\ store # "one_shot" => table[k].at = minted[table[k].ticket]

Counted ==
    \A k \in DOMAIN table :
        IF store \in {"captcha", "code"}
        THEN tries[table[k].ticket] = table[k].attempts
        ELSE store # "one_shot" => tries[table[k].ticket] = 0

Fresh ==
    \A t \in Tickets :
        /\ minted[t] <= storeNow
        /\ t > serial => tries[t] = 0 /\ (store # "hotp" => uses[t] = 0)

StoreCall == [op : {"idle", "insert", "load", "cas"}, code : {0} \cup {HotpCode[t] : t \in Tickets},
              seen : Nat, retries : Nat]

CallsFit ==
    /\ inflight \in [Clients -> StoreCall]
    /\ \A c \in Clients :
           /\ inflight[c].op \in {"load", "cas"} => store = "hotp"
           /\ inflight[c].op = "cas" => inflight[c].seen < MaxIssued

StoresInv ==
    /\ StoresBounded
    /\ uses \in [Tickets -> Nat] /\ tries \in [Tickets -> Nat] /\ minted \in [Tickets -> Nat]
    /\ Keyed /\ Dated /\ Counted /\ Fresh /\ CallsFit
=============================================================================
