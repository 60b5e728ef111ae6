------------------------------ MODULE MCLogins ------------------------------
(* Small instances of what a login is made of: key profiles and their rotation, the
   WebAuthn ceremony, AuthService's login flow, the temporary whitelist, and the inputs a
   caller sends: authenticatorData, invitation codes and network addresses.  They do not
   share state, so each behaviour is about one of them: `scenario` is chosen in the initial
   state and the others never leave theirs. *)
EXTENDS TokenProfiles, WebAuthnCeremony, LoginFlow, TemporaryWhitelist, Sequences, TLC

VARIABLES scenario, sample

vars == <<scenario, sample, kvars, nvars, fvars, wvars>>

MCProfiles == {"ed25519", "mldsa65"}
MCKids == {"none", "fixed", "per_key"}
MCAllowed == {"Home"}
MCLower == [o \in {"Home", "home", "away"} |-> IF o = "away" THEN "away" ELSE "home"]
MCShapes == [origin : {"home", "away"}, cross : {FALSE}, rp : {"ours"}, uv : {TRUE}]
MCCoseKeys == {[kty |-> "EC2", alg |-> "ES256", crv |-> "P-256", coords |-> TRUE]}
(* In place of MCCoseKeys: also keys that registration takes and no verifier can use, which
   is how StoredKeyUsable fails. *)
MCAllCoseKeys == MCCoseKeys \cup [kty : {"EC2", "OKP"}, alg : {"ES256"}, crv : {"P-256", "P-384"}, coords : BOOLEAN]
MCVerifiers == {"full", "legacy"}

MCPassword(text, len) ==
    [text |-> text, len |-> len, upper |-> TRUE, lower |-> TRUE, digit |-> TRUE, special |-> FALSE]
MCFirstPassword == MCPassword("first", 8)
MCPasswords == {MCFirstPassword, MCPassword("second", 9), MCPassword("short", 2)}
MCRawPolicies == {"on", "false", ""}
MCBackends == {"memory", "table"}

CborLengths == INSTANCE CborLengths WITH
    HashLen <- 1, AaguidLen <- 1, MaxCredentialIdLen <- 2, MaxCborDepth <- 3

InviteCodes == INSTANCE InviteCodes WITH
    Alphabet <- {"0", "1", "A", "V", "Z"}, Blank <- {"-", " "},
    Lower <- ("A" :> "a") @@ ("V" :> "v") @@ ("Z" :> "z")

SourceFilters == INSTANCE SourceFilters WITH Width <- [v4 |-> 2, v6 |-> 3]

(* Configured networks, well-formed or not, and the addresses that may ask. *)
Text(form, family, addr, prefix) == [form |-> form, family |-> family, addr |-> addr, prefix |-> prefix]
Texts ==
    {Text("junk", "v4", 0, 0)} \cup {Text(f, "v4", a, p) : f \in {"bare", "cidr"}, a \in 0..3, p \in 0..3}
    \cup {Text(f, "v6", a, p) : f \in {"bare", "cidr"}, a \in {0, 5}, p \in 0..4}
Addresses == [family : {"v4"}, addr : 0..3] \cup [family : {"v6"}, addr : 0..7]

(* Inputs of the authenticatorData walk: items, noise and whole records. *)
Noise == UNION {[1..n -> {0, 24, 27, 65, 95, 129, 161, 193, 255}] : n \in 0..4}
Ids == {<<>>, <<8>>, <<8, 130>>, <<8, 8, 8>>}
Exts == {<<>>, <<160>>, <<161, 97, 130, 5>>}

Machines == {"keys", "webauthn", "flow", "whitelist"}

Init ==
    /\ \/ scenario \in Machines /\ sample = "unused"
       \/ scenario = "item" /\ sample \in CborLengths!Items(2)
       \/ scenario = "noise" /\ sample \in Noise
       \/ scenario = "record" /\ sample \in [at : BOOLEAN, id : Ids, key : CborLengths!Items(1), ext : Exts]
       \/ scenario = "code" /\ sample \in InviteCodes!GenerateCode(2)
       \/ scenario = "networks" /\ sample \in Texts \X Texts
    /\ ProfilesInit /\ (scenario # "keys" => ~ feature /\ profile = "ed25519" /\ kidding = "none")
    /\ CeremonyInit /\ (scenario # "webauthn" => verifier = "full")
    /\ FlowInit /\ (scenario # "flow" => login_policy = "enabled" /\ revocations = "table" /\ account.is_active)
    (* Where nobody logs in there are no tokens: one start of each kind will do. *)
    /\ login_policy = "disabled" => account.is_active /\ revocations = "table"
    /\ ~ account.is_active => login_policy = "enabled" /\ revocations = "memory"
    /\ WhitelistInit

Next ==
    /\ UNCHANGED <<scenario, sample>>
    /\ \/ scenario = "keys" /\ ProfilesNext /\ UNCHANGED <<nvars, fvars, wvars>>
       \/ scenario = "webauthn" /\ CeremonyNext /\ UNCHANGED <<kvars, fvars, wvars>>
       \/ scenario = "flow" /\ FlowNext /\ UNCHANGED <<kvars, nvars, wvars>>
       \/ scenario = "whitelist" /\ WhitelistNext /\ UNCHANGED <<kvars, nvars, fvars>>

(* Challenges, handlers and the calls of AuthService are interchangeable. *)
Symmetry == Permutations(Challenges) \cup Permutations(Handlers) \cup Permutations(LoginCalls)

Spec == Init /\ [][Next]_vars

-----------------------------------------------------------------------------
(* cbor_item_len stays within its input, looks no further than the item, follows the
   nesting limit, and finds every item by its construction. *)
ItemsDelimited ==
    /\ scenario = "item" => CborLengths!FindsItem(sample) /\ CborLengths!SelfDelimiting(sample)
    /\ scenario = "noise" => CborLengths!SelfDelimiting(sample)
    /\ scenario = "item" => \A n \in 0..5 : (CborLengths!CborItemLen(CborLengths!Nested(n)) # CborLengths!None) <=> n <= 3

(* AuthenticatorData::parse accepts exactly the well laid out records. *)
RecordsParsed ==
    scenario = "record" => CborLengths!ParsesExactly(sample.at, sample.id, sample.key, sample.ext)

(* A typed invitation code verifies in every spelling and as no other code. *)
CodesReadable == scenario = "code" => InviteCodes!CodesReadable(sample, 2)

(* The network list admits exactly the addresses under its well-formed entries. *)
NetworksExact == scenario = "networks" => SourceFilters!NetworksExact(sample, Addresses)

(* What a caller sends is read exactly: items, records, typed codes and networks. *)
InputsRead == ItemsDelimited /\ RecordsParsed /\ CodesReadable /\ NetworksExact
=============================================================================
