--------------------------- MODULE VisitorTickets ---------------------------
(* Visitor tickets (auth/visitor.rs over local.rs): a temporary principal with a fixed
   end, presentation tokens minted for it, and one gate, admit, that both verify and
   renew go through.  The gate awaits the store twice, so other calls, revocations
   and the clock run between its steps.  The reference store is in memory: a crash
   loses principals and revocations together, while tokens live on with visitors. *)
EXTENDS Naturals, FiniteSets

CONSTANTS
    Ids,          \* ticket ids; a fresh UUID each
    Calls,        \* concurrent verify and renew calls
    AccessTtl,    \* access_ttl
    InactivityWindow, \* inactivity_window
    JwtLeeway,    \* LocalJwt::verify's leeway (60 s)
    MaxVisitTime  \* bound: clock

ASSUME VisitorsAssumption ==
    AccessTtl \in Nat /\ InactivityWindow \in Nat /\ JwtLeeway \in Nat /\ MaxVisitTime \in Nat \ {0}

VARIABLES
    identities,   \* id -> expires_at of the principals the store holds
    revoked,      \* ids flagged in the store
    tokens,       \* signed tokens that visitors may present
    admissions,   \* verify and renew calls in progress
    born,         \* when each id was issued; ids are never reused
    retired,      \* ghost: issued ids a call of revoke has returned for; no restart forgets it
    outcome,      \* the last call to succeed
    visitNow

vvars == <<identities, revoked, tokens, admissions, born, retired, outcome, visitNow>>

Unissued == MaxVisitTime + 1
VisitorToken == [id : Ids, exp : Nat]
NoOutcome == [kind |-> "none", id |-> 0, at |-> 0, doomed |-> FALSE]
Admission == [kind : {"none", "verify", "renew"}, step : {"idle", "get", "check"},
              id : Ids \cup {0}, doomed : BOOLEAN]
NoAdmission == [kind |-> "none", step |-> "idle", id |-> 0, doomed |-> FALSE]

VisitorsInit ==
    /\ identities = [i \in {} |-> 0]
    /\ revoked = {}
    /\ tokens = {}
    /\ admissions = [c \in Calls |-> NoAdmission]
    /\ born = [i \in Ids |-> Unissued]
    /\ retired = {}
    /\ outcome = NoOutcome
    /\ visitNow = 1

VisitorsTick ==
    /\ visitNow < MaxVisitTime
    /\ visitNow' = visitNow + 1
    /\ UNCHANGED <<identities, revoked, tokens, admissions, born, retired, outcome>>

(* LocalJwt::sign refuses claims without a positive exp. *)
Sign(claims) == IF claims.exp <= 0 THEN {} ELSE {claims}

(* LocalJwt::verify: signature, and exp with the leeway; verify_lenient: signature. *)
JwtVerify(claims) == visitNow <= claims.exp + JwtLeeway
JwtVerifyLenient(claims) == claims \in tokens

(* mint: a presentation token for the principal, from the current time. *)
MintToken(i) == tokens' = tokens \cup Sign([id |-> i, exp |-> visitNow + AccessTtl])

(* issue and create_anonymous: the principal, then its first token. *)
IssueTicket(i) ==
    /\ born[i] = Unissued
    /\ born' = [born EXCEPT ![i] = visitNow]
    /\ identities' = [j \in DOMAIN identities \cup {i} |->
                         IF j = i THEN visitNow + InactivityWindow ELSE identities[j]]
    /\ MintToken(i)
    /\ UNCHANGED <<revoked, admissions, retired, outcome, visitNow>>

(* verify decodes strictly, renew leniently; the type and the subject of a token we
   signed are well formed.  `doomed` notes whether the id had been revoked by then. *)
StartVerify(c, tok) ==
    /\ admissions[c] = NoAdmission /\ JwtVerify(tok)
    /\ admissions' = [admissions EXCEPT ![c] =
           [kind |-> "verify", step |-> "get", id |-> tok.id, doomed |-> tok.id \in retired]]
    /\ UNCHANGED <<identities, revoked, tokens, born, retired, outcome, visitNow>>

StartRenew(c, tok) ==
    /\ admissions[c] = NoAdmission /\ JwtVerifyLenient(tok)
    /\ admissions' = [admissions EXCEPT ![c] =
           [kind |-> "renew", step |-> "get", id |-> tok.id, doomed |-> tok.id \in retired]]
    /\ UNCHANGED <<identities, revoked, tokens, born, retired, outcome, visitNow>>

(* admit, first await: an id the store does not hold is rejected, never downgraded. *)
AdmitGet(c) ==
    /\ admissions[c].step = "get"
    /\ admissions' = [admissions EXCEPT ![c] =
           IF @.id \in DOMAIN identities THEN [@ EXCEPT !.step = "check"] ELSE NoAdmission]
    /\ UNCHANGED <<identities, revoked, tokens, born, retired, outcome, visitNow>>

(* Mutant: the gate trusts the principal's existence. *)
GateOpen(i) == i \in DOMAIN identities

Gate(i) == i \notin revoked

(* Mutant: the token's leeway granted to the principal. *)
PrincipalAliveLeeway(i) == visitNow <= identities[i] + JwtLeeway

PrincipalAlive(i) == visitNow <= identities[i]

(* admit, second await, then the principal's expiry; renew mints at once. *)
AdmitCheck(c) ==
    LET k == admissions[c] IN
    /\ k.step = "check"
    /\ IF Gate(k.id) /\ PrincipalAlive(k.id)
       THEN /\ outcome' = [kind |-> k.kind, id |-> k.id, at |-> visitNow, doomed |-> k.doomed]
            /\ IF k.kind = "renew" THEN MintToken(k.id) ELSE UNCHANGED tokens
       ELSE UNCHANGED <<outcome, tokens>>
    /\ admissions' = [admissions EXCEPT ![c] = NoAdmission]
    /\ UNCHANGED <<identities, revoked, born, retired, visitNow>>

(* The store reports an error at either await: the call fails with it. *)
AdmitFails(c) ==
    /\ admissions[c].step # "idle"
    /\ admissions' = [admissions EXCEPT ![c] = NoAdmission]
    /\ UNCHANGED <<identities, revoked, tokens, born, retired, outcome, visitNow>>

(* revoke: the flag is set whether or not the id was issued, and never cleared.  A store
   that fails says so (`?`), and revoke has not returned. *)
RevokeTicket(i) ==
    /\ revoked' = revoked \cup {i}
    /\ retired' = IF born[i] = Unissued THEN retired ELSE retired \cup {i}
    /\ UNCHANGED <<identities, tokens, admissions, born, outcome, visitNow>>

(* Mutant: a restart keeps the principals and loses their flags. *)
MutStoreCrash ==
    /\ revoked' = {}
    /\ admissions' = [c \in Calls |-> NoAdmission]
    /\ UNCHANGED <<identities, tokens, born, retired, outcome, visitNow>>

(* A restart of the process that holds the in-memory store: principals, flags and calls are
   gone, tokens and what was promised about them are not. *)
StoreCrash ==
    /\ identities' = [i \in {} |-> 0]
    /\ revoked' = {}
    /\ admissions' = [c \in Calls |-> NoAdmission]
    /\ UNCHANGED <<tokens, born, retired, outcome, visitNow>>

VisitorsNext ==
    \/ VisitorsTick \/ StoreCrash
    \/ \E i \in Ids : IssueTicket(i) \/ RevokeTicket(i)
    \/ \E c \in Calls :
           \/ AdmitGet(c) \/ AdmitCheck(c) \/ AdmitFails(c)
           \/ \E tok \in tokens : StartVerify(c, tok) \/ StartRenew(c, tok)

VisitorsSpec == VisitorsInit /\ [][VisitorsNext]_vvars

-----------------------------------------------------------------------------
VisitorsTypeOK ==
    /\ DOMAIN identities \subseteq {i \in Ids : born[i] # Unissued}
    /\ revoked \subseteq Ids
    /\ tokens \subseteq VisitorToken

(* A call that starts after a revocation returned never succeeds, whichever token of
   the chain it presents: one minted by a renewal that raced the revocation and
   finished after it, or one that outlived, with its visitor, a restart of the store that
   forgot the revocation. *)
RevokedStaysOut == ~ outcome.doomed

(* Renewal rolls the token, never the principal: no call succeeds later than the
   window counted from the principal's own issue, however often it was renewed. *)
ChainEnds == outcome.kind # "none" => outcome.at <= born[outcome.id] + InactivityWindow

(* A visitor call that starts after a revocation never succeeds, and no renewal prolongs a
   visitor's principal. *)
VisitsEnd == VisitorsTypeOK /\ RevokedStaysOut /\ ChainEnds

-----------------------------------------------------------------------------
(* The inductive strengthening: the end of every principal was fixed at its issue, a call
   names an issued id, and a revoked principal is flagged as long as the store holds it;
   after a restart it holds neither, and no id is issued twice. *)
VisitorsInv ==
    /\ VisitsEnd
    /\ visitNow \in Nat /\ born \in [Ids -> Nat]
    /\ visitNow <= MaxVisitTime
    /\ \A i \in DOMAIN identities : identities[i] = born[i] + InactivityWindow
    /\ admissions \in [Calls -> Admission]
    /\ \A c \in Calls :
           /\ admissions[c].step # "idle" => admissions[c].id \in Ids
           /\ admissions[c].step = "check" => admissions[c].id \in DOMAIN identities
           /\ (admissions[c].step # "idle" /\ admissions[c].doomed) => admissions[c].id \in retired
    /\ \A i \in retired :
           /\ i \in Ids /\ born[i] # Unissued
           /\ i \in revoked \/ i \notin DOMAIN identities
    /\ outcome.kind # "none" => outcome.id \in Ids /\ born[outcome.id] # Unissued
=============================================================================
