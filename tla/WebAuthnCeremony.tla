-------------------------- MODULE WebAuthnCeremony --------------------------
(* WebAuthn registration and login at one relying party (auth/passport/webauthn): the
   clientData and authenticatorData checks, verify_attestation_none_with_policy,
   verify_assertion and the older WebAuthnVerifier, called the way the module documents:
   the handler takes the one-shot challenge out of its store, reads the stored
   credential, verifies and writes the new signature count back.  Handlers run
   concurrently; nothing is locked between the read and the write.

   Two devices hold the credential's private key, the second a copy with a counter of its
   own; a signature is genuine, so a response says which key made it.  Parsing is in
   CborLengths. *)
EXTENDS Naturals, FiniteSets

CONSTANTS
    Challenges,      \* fresh challenges
    Handlers,        \* concurrent requests
    Allowed,         \* the origin allowlist
    Shapes,          \* what a client may present: [origin, cross, rp, uv]
    Lower,           \* to_ascii_lowercase on origins
    CoseKeys,        \* COSE keys devices may hold: [kty, alg, crv, coords]
    RequireUv,       \* require_user_verification
    Counting,        \* does the authenticator count signatures
    Verifiers,       \* verifiers in use: "full" and "legacy"
    MaxGap,          \* MAX_SIGN_COUNT_GAP
    MaxCount, MaxResponses    \* bounds

ASSUME CeremonyAssumption == Counting \in BOOLEAN /\ MaxCount \in Nat

Devices == {"original", "copy"}

VARIABLES
    issued,        \* challenges in the store: challenge -> "create" or "get" or "gone"
    counter,       \* each device's own signature counter
    cose,          \* the COSE key the devices share
    verifier,      \* verify_assertion or the older WebAuthnVerifier
    responses,     \* what clients have sent, with repetition possible
    stored,        \* the relying party's credential record
    handling,      \* requests in progress
    accepted,      \* ghost: accepted assertions, as <<response, times>>
    settled,       \* ghost: highest count written back
    overlapped     \* ghost: two requests were between read and write at once

devices == <<cose, verifier>>
nvars == <<issued, counter, devices, responses, stored, handling, accepted, settled, overlapped>>

NoCredential == [id |-> "", sign_count |-> 0]
NoRequest == [step |-> "idle"]

-----------------------------------------------------------------------------
(* ClientData::verify_expectations.  Challenges compare as decoded bytes. *)
VerifyExpectations(cd, type, challenge) ==
    /\ cd.typ = type
    /\ cd.challenge = challenge
    /\ ~ cd.cross_origin
    /\ \E o \in Allowed : Lower[o] = Lower[cd.origin]

(* Mutant: the same count again is let through. *)
MutCountOk(auth_count, stored_count) ==
    (auth_count = 0 /\ stored_count = 0)
    \/ (auth_count >= stored_count /\ auth_count - stored_count <= MaxGap)

(* The sign-count rule, the same in both verifiers: skipped only while both sides are
   zero, otherwise strictly increasing by at most the gap. *)
CountOk(auth_count, stored_count) ==
    (auth_count = 0 /\ stored_count = 0)
    \/ (auth_count > stored_count /\ auth_count - stored_count <= MaxGap)

(* cose_to_verifying_key_impl: EC2, ES256, P-256 and both coordinates. *)
KeyFromCose(key) == key.kty = "EC2" /\ key.alg = "ES256" /\ key.crv = "P-256" /\ key.coords

(* validate_supported_key, the check at registration. *)
ValidateSupportedKey(key) == key.alg = "ES256"

(* verify_assertion, in its order; the signature is made by the key the response names. *)
VerifyAssertion(cred, r, challenge) ==
    /\ VerifyExpectations(r.client, "get", challenge)
    /\ r.up /\ (RequireUv => r.uv)
    /\ r.rp = "ours"
    /\ cred.id # "" /\ r.id = cred.id
    /\ KeyFromCose(cose)
    /\ CountOk(r.count, cred.sign_count)

(* WebAuthnVerifier::verify: id, count and signature; no client data, no flags. *)
VerifyLegacy(cred, r) ==
    /\ r.id = cred.id /\ CountOk(r.count, cred.sign_count) /\ KeyFromCose(cose)

VerifyResponse(cred, r, challenge) ==
    IF verifier = "full" THEN VerifyAssertion(cred, r, challenge) ELSE VerifyLegacy(cred, r)

(* verify_attestation_none_with_policy: origins are checked when an allowlist is given,
   and the challenge only against itself. *)
VerifyAttestation(r) ==
    /\ Allowed # {} => VerifyExpectations(r.client, "create", r.client.challenge)
    /\ r.fmt = "none" /\ r.up /\ r.rp = "ours" /\ r.at
    /\ ValidateSupportedKey(cose)
    /\ RequireUv => r.uv

-----------------------------------------------------------------------------
CeremonyInit ==
    /\ issued = [c \in Challenges |-> "fresh"]
    /\ counter = [d \in Devices |-> 0]
    /\ cose \in CoseKeys /\ verifier \in Verifiers
    /\ responses = {} /\ stored = NoCredential
    /\ handling = [h \in Handlers |-> NoRequest]
    /\ accepted = [c \in Challenges |-> 0] /\ settled = 0 /\ overlapped = FALSE

(* The relying party begins a ceremony. *)
Begin(c, type) ==
    /\ issued[c] = "fresh"
    /\ issued' = [issued EXCEPT ![c] = type]
    /\ UNCHANGED <<counter, devices, responses, stored, handling, accepted, settled, overlapped>>

(* A client signs a challenge it was given on one of the devices. *)
Respond(d, c, type, shape) ==
    /\ issued[c] \in {"create", "get"} /\ Cardinality(responses) < MaxResponses
    /\ ~ Counting \/ counter[d] < MaxCount
    /\ counter' = IF Counting THEN [counter EXCEPT ![d] = @ + 1] ELSE counter
    /\ responses' = responses \cup {[
           client |-> [typ |-> type, challenge |-> c, origin |-> shape.origin,
                      cross_origin |-> shape.cross],
           fmt |-> "none", at |-> type = "create", rp |-> shape.rp, up |-> TRUE, uv |-> shape.uv,
           id |-> "cred", count |-> counter'[d]]}
    /\ UNCHANGED <<issued, devices, stored, handling, accepted, settled, overlapped>>

(* Mutant: the challenge is looked up and left in the store. *)
MutTake(h, r) ==
    /\ handling[h] = NoRequest
    /\ LET c == r.client.challenge IN
       /\ issued[c] \in {"create", "get"}
       /\ handling' = [handling EXCEPT ![h] =
              [step |-> "taken", purpose |-> issued[c], challenge |-> c, response |-> r]]
    /\ UNCHANGED <<issued, counter, devices, responses, stored, accepted, settled, overlapped>>

(* The handler takes the challenge out of the store, in one step. *)
Take(h, r) ==
    /\ handling[h] = NoRequest
    /\ LET c == r.client.challenge IN
       /\ issued[c] \in {"create", "get"}
       /\ issued' = [issued EXCEPT ![c] = "gone"]
       /\ handling' = [handling EXCEPT ![h] =
              [step |-> "taken", purpose |-> issued[c], challenge |-> c, response |-> r]]
    /\ UNCHANGED <<counter, devices, responses, stored, accepted, settled, overlapped>>

(* Some login is between its read and its write. *)
InFlight == \E g \in Handlers : handling[g].step \in {"loaded", "verified"}

(* Registration: verify and store the credential. *)
RegisterCredential(h) ==
    LET k == handling[h] IN
    /\ k.step = "taken" /\ k.purpose = "create"
    /\ stored' = IF VerifyAttestation(k.response)
                 THEN [id |-> k.response.id, sign_count |-> k.response.count] ELSE stored
    /\ settled' = IF VerifyAttestation(k.response) THEN k.response.count ELSE settled
    /\ handling' = [handling EXCEPT ![h] = NoRequest]
    /\ overlapped' = (overlapped \/ InFlight)
    /\ UNCHANGED <<issued, counter, devices, responses, accepted>>

(* Login: read the credential ... *)
Load(h) ==
    LET k == handling[h] IN
    /\ k.step = "taken" /\ k.purpose = "get"
    /\ handling' = [handling EXCEPT ![h] =
           [step |-> "loaded", cred |-> stored, challenge |-> k.challenge, response |-> k.response]]
    /\ overlapped' = (overlapped \/ InFlight)
    /\ UNCHANGED <<issued, counter, devices, responses, stored, accepted, settled>>

(* ... verify ... *)
Verify(h) ==
    LET k == handling[h]
        ok == VerifyResponse(k.cred, k.response, k.challenge) IN
    /\ k.step = "loaded"
    /\ handling' = [handling EXCEPT ![h] = IF ok THEN [k EXCEPT !.step = "verified"] ELSE NoRequest]
    /\ accepted' = IF ok THEN [accepted EXCEPT ![k.challenge] = @ + 1] ELSE accepted
    /\ UNCHANGED <<issued, counter, devices, responses, stored, settled, overlapped>>

(* ... and write the count of the outcome back. *)
Persist(h) ==
    LET k == handling[h] IN
    /\ k.step = "verified"
    /\ stored' = [stored EXCEPT !.sign_count = k.response.count]
    /\ settled' = IF k.response.count > settled THEN k.response.count ELSE settled
    /\ handling' = [handling EXCEPT ![h] = NoRequest]
    /\ UNCHANGED <<issued, counter, devices, responses, accepted, overlapped>>

(* The process stops: requests and the challenge store are gone, the credential is not. *)
CeremonyCrash ==
    /\ issued' = [c \in Challenges |-> IF issued[c] = "fresh" THEN "fresh" ELSE "gone"]
    /\ handling' = [h \in Handlers |-> NoRequest]
    /\ UNCHANGED <<counter, devices, responses, stored, accepted, settled, overlapped>>

CeremonyNext ==
    \/ \E c \in Challenges, type \in {"create", "get"} :
           \/ Begin(c, type)
           \/ \E d \in Devices, shape \in Shapes : Respond(d, c, type, shape)
    \/ \E h \in Handlers :
           RegisterCredential(h) \/ Load(h) \/ Verify(h) \/ Persist(h) \/ \E r \in responses : Take(h, r)
    \/ CeremonyCrash

CeremonySpec == CeremonyInit /\ [][CeremonyNext]_nvars

-----------------------------------------------------------------------------
CeremonyTypeOK ==
    /\ issued \in [Challenges -> {"fresh", "create", "get", "gone"}]
    /\ counter \in [Devices -> 0..MaxCount] /\ stored.sign_count \in 0..MaxCount
    /\ cose \in CoseKeys

(* A challenge signs in at most once, whatever handlers race, responses are repeated or
   processes restart, even for an authenticator that does not count. *)
AcceptedOnce == \A c \in Challenges : accepted[c] <= 1

(* A copied authenticator is noticed: a request that did not overlap another is accepted
   only with a count above every count written back before, so the two devices cannot
   both keep signing in. *)
CopyNoticed ==
    \A h \in Handlers :
        (handling[h].step = "verified" /\ ~ overlapped) =>
            \/ handling[h].response.count > settled
            \/ ~ Counting

(* "Called at registration time so bad keys never get stored": a stored credential can
   be verified by a later assertion. *)
StoredKeyUsable == stored # NoCredential => KeyFromCose(cose)

(* A WebAuthn challenge signs in at most once, races and restarts included, and without
   overlapping requests the signature count gives a copied authenticator away. *)
CeremonyHolds == CeremonyTypeOK /\ AcceptedOnce /\ CopyNoticed

-----------------------------------------------------------------------------
(* The inductive strengthening.  A challenge still in the store is in nobody's hands and
   accepted nobody; one that was taken is in one handler's hands at most until it has
   signed in.  Without overlap there is one handler between read and write, it has read
   the record as it still is, and that record is the last one settled. *)
Holding(h) == handling[h].step \in {"taken", "loaded"}

TakenOnce ==
    /\ \A c \in Challenges : issued[c] # "gone" =>
           accepted[c] = 0 /\ \A h \in Handlers : ~ (Holding(h) /\ handling[h].challenge = c)
    /\ \A h \in Handlers : Holding(h) =>
           /\ accepted[handling[h].challenge] = 0
           /\ \A g \in Handlers :
                  (Holding(g) /\ handling[g].challenge = handling[h].challenge) => g = h

OneAtATime ==
    ~ overlapped =>
        /\ settled = stored.sign_count
        /\ \A g, h \in Handlers :
               ({handling[g].step, handling[h].step} \subseteq {"loaded", "verified"}) => g = h
        /\ \A h \in Handlers : handling[h].step = "loaded" => handling[h].cred = stored

CredentialRecord == [id : {"", "cred"}, sign_count : 0..MaxCount]

(* The fields of a response that outlive its verification. *)
ResponseOK(r) ==
    /\ r.client.challenge \in Challenges /\ r.count \in 0..MaxCount /\ r.id = "cred"
    /\ IF Counting THEN r.count > 0 ELSE r.count = 0

Requests ==
    {NoRequest}
    \cup [step : {"taken"}, purpose : {"create", "get"}, challenge : Challenges, response : responses]
    \cup [step : {"loaded", "verified"}, cred : CredentialRecord, challenge : Challenges,
          response : responses]

CeremonyInv ==
    /\ CeremonyHolds /\ TakenOnce /\ OneAtATime
    /\ accepted \in [Challenges -> Nat] /\ settled \in 0..MaxCount /\ overlapped \in BOOLEAN
    /\ stored \in CredentialRecord
    /\ \A r \in responses : ResponseOK(r)
    /\ handling \in [Handlers -> Requests]
    /\ ~ Counting => settled = 0 /\ \A d \in Devices : counter[d] = 0
=============================================================================
