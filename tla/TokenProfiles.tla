--------------------------- MODULE TokenProfiles ---------------------------
(* Key profiles of kirino-session (packages/session: config.rs, manager.rs) and a rolling
   key rotation across the nodes of a deployment.  A manager is built from a SessionConfig;
   KeySet::resolve picks its one profile, or a Broken one.  The operator moves each node
   through the stages of a rotation, no node more than one stage ahead of another; the
   retiring key is dropped once the tokens it signed have run out.

   A private key and its public half carry one name, `Bad` is material that does not
   parse and NoKey, NoKid, NoAudience are None. *)
EXTENDS Naturals, FiniteSets

CONSTANTS
    Nodes,
    Old, New,             \* the keys of the rotation
    Bad, NoKey, NoKid, NoAudience,
    Features,             \* builds under study: does the `mldsa` feature exist
    Profiles,             \* profiles the operator rotates: "ed25519", "mldsa65"
    Kids,                 \* what the operator does with kid: "none", "fixed", "per_key"
    Ttl, Leeway,          \* token lifetime; VERIFY_LEEWAY_SECS and jsonwebtoken's default
    MaxKeyTime, MaxSigned \* bounds: clock, tokens issued

ASSUME ProfilesAssumption ==
    /\ Old # New /\ {Bad, NoKey} \cap {Old, New} = {}
    /\ Profiles \subseteq {"ed25519", "mldsa65"} /\ Features \subseteq BOOLEAN
    /\ Kids \subseteq {"none", "fixed", "per_key"}
    /\ Ttl \in Nat /\ Leeway \in Nat /\ MaxKeyTime \in Nat

VARIABLES feature, profile, kidding, stage, signed, clock

kvars == <<feature, profile, kidding, stage, signed, clock>>

-----------------------------------------------------------------------------
(* SessionConfig: from_secret's defaults and the builder calls on top of them. *)
Unset == [signing |-> NoKey, verifying |-> {}]
FromSecret == [ed25519 |-> Unset, mldsa65 |-> Unset, issuer |-> "kirino",
               audience |-> NoAudience, kid |-> NoKid]
WithKeys(cfg, kind, signing, verifying) ==
    LET keys == [signing |-> signing, verifying |-> verifying] IN
    IF kind = "ed25519" THEN [cfg EXCEPT !.ed25519 = keys] ELSE [cfg EXCEPT !.mldsa65 = keys]
WithKid(cfg, k) == [cfg EXCEPT !.kid = k]
WithAudience(cfg, aud) == [cfg EXCEPT !.audience = aud]

(* KeySet *)
Broken == [profile |-> "broken", signing |-> NoKey, verifying |-> {}]
SharedSecret == [profile |-> "secret", signing |-> "secret", verifying |-> {"secret"}]

Configured(keys) == keys.signing # NoKey \/ keys.verifying # {}

(* Mutant: a build without the feature ignores the ML-DSA keys. *)
MutResolve(cfg, mldsa) ==
    LET ed == cfg.ed25519
        ml == cfg.mldsa65 IN
    IF Configured(ml) /\ mldsa
    THEN IF Configured(ed) \/ ml.verifying = {} THEN Broken
         ELSE [profile |-> "mldsa65", signing |-> ml.signing, verifying |-> ml.verifying]
    ELSE IF Configured(ed)
    THEN IF ed.verifying = {} \/ Bad \in ed.verifying \/ ed.signing = Bad THEN Broken
         ELSE [profile |-> "ed25519", signing |-> ed.signing, verifying |-> ed.verifying]
    ELSE SharedSecret

(* KeySet::resolve.  Any asymmetric material rules the shared secret out; what cannot
   stand as configured breaks the manager.  The bytes of an ML-DSA key always parse. *)
Resolve(cfg, mldsa) ==
    LET ed == cfg.ed25519
        ml == cfg.mldsa65 IN
    IF Configured(ed) /\ Configured(ml) THEN Broken
    ELSE IF Configured(ml)
    THEN IF ~ mldsa \/ ml.verifying = {} THEN Broken
         ELSE [profile |-> "mldsa65", signing |-> ml.signing, verifying |-> ml.verifying]
    ELSE IF Configured(ed)
    THEN IF ed.verifying = {} \/ Bad \in ed.verifying \/ ed.signing = Bad THEN Broken
         ELSE [profile |-> "ed25519", signing |-> ed.signing, verifying |-> ed.verifying]
    ELSE SharedSecret

Algorithm(ks) ==
    IF ks.profile = "secret" THEN "HS256" ELSE IF ks.profile = "ed25519" THEN "EdDSA" ELSE "ML-DSA-65"

(* TokenClaims::new and issue_pair's stamp. *)
Claims(cfg, t) == [iss |-> cfg.issuer, aud |-> cfg.audience, exp |-> t + Ttl]

(* sign: a broken manager and a verify-only one refuse; HS256 stamps no kid. *)
CanSign(ks) == ks.profile # "broken" /\ ks.signing # NoKey
Sign(cfg, ks, claims) ==
    [alg |-> Algorithm(ks), key |-> ks.signing, claims |-> claims,
     kid |-> IF ks.profile = "secret" THEN NoKid ELSE cfg.kid]

(* The registered claims: issuer, the audience as a required claim, expiry. *)
ClaimsOk(cfg, c, t, check_exp) ==
    /\ c.iss = cfg.issuer
    /\ cfg.audience # NoAudience => c.aud = cfg.audience
    /\ check_exp => t <= c.exp + Leeway

(* Mutant: the kid is targeted here as well. *)
MutVerifyJsonwebtoken(cfg, ks, tok, t, check_exp) ==
    /\ tok.alg = Algorithm(ks) /\ tok.key \in ks.verifying /\ tok.kid = cfg.kid
    /\ ClaimsOk(cfg, tok.claims, t, check_exp)

(* verify_jsonwebtoken: one algorithm, every key in turn; kid is not looked at.  With no
   audience configured the library refuses a token that names one. *)
VerifyJsonwebtoken(cfg, ks, tok, t, check_exp) ==
    /\ tok.alg = Algorithm(ks) /\ tok.key \in ks.verifying
    /\ ClaimsOk(cfg, tok.claims, t, check_exp)
    /\ cfg.audience = NoAudience => tok.claims.aud = NoAudience

(* verify_mldsa65: the algorithm, then kid targeting, claims and the keys in turn. *)
VerifyMldsa65(cfg, ks, tok, t, check_exp) ==
    /\ tok.alg = "ML-DSA-65"
    /\ (cfg.kid # NoKid /\ tok.kid # NoKid) => tok.kid = cfg.kid
    /\ ClaimsOk(cfg, tok.claims, t, check_exp)
    /\ tok.key \in ks.verifying

VerifyWith(cfg, ks, tok, t, check_exp) ==
    /\ ks.profile # "broken"
    /\ IF ks.profile = "mldsa65" THEN VerifyMldsa65(cfg, ks, tok, t, check_exp)
       ELSE VerifyJsonwebtoken(cfg, ks, tok, t, check_exp)

(* jwks: every verifying key of an asymmetric profile, each under the configured kid. *)
Jwks(cfg, ks) ==
    IF ks.profile \in {"secret", "broken"} THEN {}
    ELSE [alg : {Algorithm(ks)}, key : ks.verifying, kid : {cfg.kid}]

-----------------------------------------------------------------------------
(* The operator's rotation: announce the new key, sign with it, retire the old one. *)
KidOf(key) ==
    IF kidding = "none" THEN NoKid ELSE IF kidding = "fixed" THEN Old ELSE key

SigningAt(s) == IF s < 2 THEN Old ELSE New
VerifyingAt(s) == IF s = 0 THEN {Old} ELSE IF s = 3 THEN {New} ELSE {Old, New}

ConfigAt(s) ==
    LET keyed == WithKeys(FromSecret, profile, SigningAt(s), VerifyingAt(s))
    IN  WithAudience(WithKid(keyed, KidOf(SigningAt(s))), "clients")

Config(n) == ConfigAt(stage[n])
KeySetOf(n) == Resolve(Config(n), feature)

ProfilesInit ==
    /\ feature \in Features /\ profile \in Profiles /\ kidding \in Kids
    /\ profile = "mldsa65" => feature
    /\ stage = [n \in Nodes |-> 0]
    /\ signed = {} /\ clock = 0

(* A login at n. *)
Issue(n) ==
    /\ CanSign(KeySetOf(n)) /\ Cardinality(signed) < MaxSigned
    /\ LET tok == Sign(Config(n), KeySetOf(n), Claims(Config(n), clock)) IN
       signed' = signed \cup {tok}
    /\ UNCHANGED <<feature, profile, kidding, stage, clock>>

Spent(tok) == clock > tok.claims.exp + Leeway

(* One node is redeployed; the old key goes when no token of its still counts. *)
Redeploy(n) ==
    /\ stage[n] < 3
    /\ \A m \in Nodes : stage[m] >= stage[n]
    /\ stage[n] = 2 => \A tok \in signed : tok.key = Old => Spent(tok)
    /\ stage' = [stage EXCEPT ![n] = @ + 1]
    /\ UNCHANGED <<feature, profile, kidding, signed, clock>>

ProfilesTick ==
    /\ clock < MaxKeyTime
    /\ clock' = clock + 1
    /\ UNCHANGED <<feature, profile, kidding, stage, signed>>

ProfilesNext == ProfilesTick \/ \E n \in Nodes : Issue(n) \/ Redeploy(n)

ProfilesSpec == ProfilesInit /\ [][ProfilesNext]_kvars

-----------------------------------------------------------------------------
ProfilesTypeOK ==
    /\ stage \in [Nodes -> 0..3] /\ clock \in 0..MaxKeyTime
    /\ \A tok \in signed : tok.key \in {Old, New} /\ tok.claims.exp \in Nat

Accepts(n, tok) == VerifyWith(Config(n), KeySetOf(n), tok, clock, TRUE)

(* "tokens signed by any listed public key verify, so a new key can be rolled out before
   the old one retires": in the middle of a rolling redeployment, whichever node signed
   and whichever node is asked, no token that is still good is turned away. *)
RotationSeamless ==
    \A n \in Nodes, tok \in signed : ~ Spent(tok) => Accepts(n, tok)

(* The same where the code keeps it: ML-DSA-65 managers target the kid, so a kid that
   follows the key is left out for them. *)
SeamlessUnlessKidTargets ==
    (profile = "mldsa65" /\ kidding = "per_key") \/ RotationSeamless

(* All configurations of one key slot per profile. *)
Slots == [signing : {Old, Bad, NoKey}, verifying : SUBSET {Old, Bad}]
Configs == {[FromSecret EXCEPT !.ed25519 = e, !.mldsa65 = m] : e \in Slots, m \in Slots}

(* No configuration with asymmetric material ever works with the shared secret, in
   either direction and on either build; two profiles at once work with nothing; and what
   a manager publishes is exactly what it accepts. *)
NoFallback ==
    \A cfg \in Configs, mldsa \in BOOLEAN, t \in 0..MaxKeyTime :
        LET ks == Resolve(cfg, mldsa)
            secretToken == Sign(FromSecret, SharedSecret, Claims(FromSecret, t))
            asymmetric == Configured(cfg.ed25519) \/ Configured(cfg.mldsa65) IN
        /\ asymmetric => ~ VerifyWith(cfg, ks, secretToken, t, TRUE)
        /\ (asymmetric /\ CanSign(ks)) => Sign(cfg, ks, Claims(cfg, t)).alg # "HS256"
        /\ (Configured(cfg.ed25519) /\ Configured(cfg.mldsa65)) => ~ CanSign(ks)
        /\ \A key \in {Old, "secret"} :
              (\E j \in Jwks(cfg, ks) : j.key = key) <=>
              (asymmetric /\ VerifyWith(cfg, ks, [alg |-> Algorithm(ks), key |-> key,
                                  claims |-> Claims(cfg, t), kid |-> cfg.kid], t, TRUE))

(* A rolling key rotation turns no good token away, except where ML-DSA targets the kid;
   asymmetric material never falls back to the shared secret, and jwks publishes what
   verifies. *)
KeysRotateSafely == ProfilesTypeOK /\ SeamlessUnlessKidTargets /\ NoFallback

-----------------------------------------------------------------------------
(* The inductive strengthening: nodes are at most one stage apart; a token is as some node
   in the rotation signs it, dated in the past; the new key signs only once every node
   verifies it, and an old token has run out before the first node forgets the old key. *)
TokenOf(key, exp) ==
    [alg |-> IF profile = "ed25519" THEN "EdDSA" ELSE "ML-DSA-65", key |-> key,
     claims |-> [iss |-> "kirino", aud |-> "clients", exp |-> exp], kid |-> KidOf(key)]

ProfilesInv ==
    /\ ProfilesTypeOK
    /\ profile \in {"ed25519", "mldsa65"} /\ feature \in BOOLEAN /\ (profile = "mldsa65" => feature)
    /\ kidding \in {"none", "fixed", "per_key"}
    /\ \A m, n \in Nodes : stage[n] <= stage[m] + 1
    /\ \A tok \in signed :
           /\ tok = TokenOf(tok.key, tok.claims.exp)
           /\ tok.key = New => \A n \in Nodes : stage[n] >= 1
           /\ (tok.key = Old /\ \E n \in Nodes : stage[n] = 3) => Spent(tok)
=============================================================================
