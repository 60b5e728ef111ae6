------------------------ MODULE JwtRevocationProofs ------------------------
(***************************************************************************)
(* A completed revocation lasts until its token's expiry, and no           *)
(* verification that began after it accepts the token: proofs for every    *)
(* number of users, tokens and calls, every lifetime, window and cap.      *)
(***************************************************************************)
EXTENDS JwtRevocation, TLAPS

(* An idle call is a call. *)
LEMMA NoCallTyped == NoCall \in Call /\ NoCall.at = "idle"
<1>1. PICK u \in Users : TRUE
  BY JwtAssumption
<1>2. PICK j \in Jtis : TRUE
  BY JwtAssumption
<1>3. (CHOOSE v \in Users : TRUE) \in Users
  BY <1>1
<1>4. (CHOOSE i \in Jtis : TRUE) \in Jtis
  BY <1>2
<1>5. <<"user", CHOOSE v \in Users : TRUE>> \in Keys
  BY <1>3 DEF Keys
<1>6. 0 \in 0 .. (MaxTime + 1)
  BY JwtAssumption
<1> QED
  BY <1>3, <1>4, <1>5, <1>6 DEF NoCall, Call

(* The key of an issued token. *)
LEMMA KeyTyped ==
  ASSUME TypeOK, NEW kind \in KeyKinds, NEW j \in DOMAIN token
  PROVE  /\ Key(kind, j) \in Keys
         /\ Key(kind, j)[1] = kind
         /\ kind # "user" => Key(kind, j)[2] = j
  BY DEF TypeOK, Key, Keys, KeyKinds, Claims

(* An issued token's claims and its expiry. *)
LEMMA ClaimsTyped ==
  ASSUME TypeOK, NEW j \in DOMAIN token
  PROVE  /\ token[j].iat \in Nat /\ token[j].session \in BOOLEAN /\ token[j].user \in Users
         /\ Expiry(j) \in Nat /\ Expiry(j) = token[j].iat + Lifetime
  BY JwtAssumption DEF TypeOK, Claims, Times, Expiry

-----------------------------------------------------------------------------
(* The parts of the invariant that speak of tokens and backend only.       *)
(* A step that leaves both, the clock and the ghost of revocations alone,  *)
(* and parks one call or lets it go on, is judged by that call.            *)
LEMMA CallMoves ==
  ASSUME IndInv, NEW c \in Calls, NEW rec \in Call,
         call' = [call EXCEPT ![c] = rec],
         UNCHANGED <<backend, token, notBefore, dead, now>>, account' \subseteq Users,
         rec.at \in KeyKinds \cup {"accepted"} =>
           /\ rec.jti \in DOMAIN token
           /\ \A kind \in rec.doomed : <<kind, rec.jti>> \in dead
           /\ ~rec.blind => \A kind \in rec.doomed \cap Lasting \cap Passed(rec.at) :
                              now >= Expiry(rec.jti),
         rec.at = "write" =>
           /\ rec.stamp <= now + 1
           /\ rec.key[1] # "user" => /\ rec.key[2] \in DOMAIN token
                                     /\ token[rec.key[2]].iat <= rec.stamp
           /\ rec.key[1] = "session" => token[rec.key[2]].session
  PROVE  IndInv'
<1>1. /\ call'[c] = rec /\ \A d \in Calls \ {c} : call'[d] = call[d]
      /\ call' \in [Calls -> Call]
  BY DEF IndInv, TypeOK
<1>2. TypeOK'
  BY <1>1 DEF IndInv, TypeOK, KeyKinds
<1>3. IssuedInPast' /\ SessionsDie'
  BY DEF IndInv, IssuedInPast, SessionsDie
<1>4. StampsInOrder'
  BY <1>1 DEF IndInv, StampsInOrder
<1>5. DoomedIsDead'
  BY <1>1 DEF IndInv, DoomedIsDead, Looking
<1>6. RevocationLasts'
  BY DEF IndInv, RevocationLasts, Lasting, Expiry, RevokedUnder, Key
<1>7. PassedIsOver'
  BY <1>1 DEF IndInv, PassedIsOver, Looking, Lasting, Expiry
<1> QED
  BY <1>2, <1>3, <1>4, <1>5, <1>6, <1>7 DEF IndInv

(* In particular a call that returns, or waits for something else than the *)
(* backend, disturbs nothing.                                              *)
LEMMA CallParks ==
  ASSUME IndInv, NEW c \in Calls, NEW rec \in Call,
         rec.at \in {"idle", "issue", "remove"},
         call' = [call EXCEPT ![c] = rec],
         UNCHANGED <<backend, token, notBefore, dead, now>>, account' \subseteq Users
  PROVE  IndInv'
  BY CallMoves DEF KeyKinds

(* The invariant holds of the initial states. *)
LEMMA IndInit == Init => IndInv
<1> SUFFICES ASSUME Init PROVE IndInv
  OBVIOUS
<1>1. \A c \in Calls : call[c] = NoCall
  BY DEF Init
<1>2. \A c \in Calls : call[c].at = "idle"
  BY <1>1, NoCallTyped
<1>3. DOMAIN token = {} /\ DOMAIN notBefore = {} /\ dead = {}
  BY DEF Init
<1>4. TypeOK
  BY <1>1, <1>2, <1>3, NoCallTyped, JwtAssumption DEF Init, TypeOK, Times
<1> QED
  BY <1>2, <1>3, <1>4
     DEF IndInv, IssuedInPast, StampsInOrder, SessionsDie, DoomedIsDead, Looking,
         RevocationLasts, PassedIsOver, KeyKinds

-----------------------------------------------------------------------------
(* login: issue_with_options adds a token stamped now under a fresh jti.   *)
LEMMA IssueStep ==
  ASSUME IndInv, NEW c \in Calls, NEW j \in Jtis, IssueWithOptions(c, j), UNCHANGED backend
  PROVE  IndInv'
<1> DEFINE claims == [user |-> call[c].user, session |-> call[c].session, iat |-> now]
<1>1. /\ call' = [call EXCEPT ![c] = NoCall]
      /\ UNCHANGED <<account, notBefore, dead, now, backend>>
      /\ j \notin DOMAIN token /\ token' = With(token, j, claims)
  BY DEF IssueWithOptions, Return
<1>2. /\ DOMAIN token' = DOMAIN token \cup {j} /\ token'[j] = claims
      /\ \A i \in DOMAIN token : i # j /\ token'[i] = token[i]
  BY <1>1 DEF With
<1>3. claims \in Claims /\ claims.iat = now
  BY DEF IndInv, TypeOK, Call, Claims
<1>4. /\ call'[c] = NoCall /\ \A d \in Calls \ {c} : call'[d] = call[d]
      /\ call' \in [Calls -> Call] /\ call'[c].at = "idle"
  BY <1>1, NoCallTyped DEF IndInv, TypeOK
<1> HIDE DEF claims
<1>5. TypeOK'
  BY <1>1, <1>2, <1>3, <1>4 DEF IndInv, TypeOK
<1>6. IssuedInPast'
  BY <1>1, <1>2, <1>3 DEF IndInv, IssuedInPast, TypeOK, Times
<1>7. StampsInOrder'
  BY <1>1, <1>2, <1>4 DEF IndInv, StampsInOrder
<1>8. \A x \in dead : x[2] \in DOMAIN token
  BY DEF IndInv, TypeOK
<1>9. SessionsDie'
  BY <1>1, <1>2, <1>8 DEF IndInv, SessionsDie
<1>10. DoomedIsDead'
  BY <1>1, <1>4 DEF IndInv, DoomedIsDead, Looking, KeyKinds
<1>11. \A kind \in KeyKinds, i \in DOMAIN token :
         /\ Key(kind, i)' = Key(kind, i)
         /\ RevokedUnder(kind, i)' <=> RevokedUnder(kind, i)
         /\ Expiry(i)' = Expiry(i)
  BY <1>1, <1>2 DEF Key, RevokedUnder, Expiry
<1>12. RevocationLasts'
  <2>1. \A kind : <<kind, j>> \notin dead
    BY <1>1, <1>8
  <2>2. Lasting' = Lasting /\ Lasting \subseteq KeyKinds
    BY <1>1 DEF Lasting, KeyKinds
  <2> QED
    BY <1>1, <1>2, <1>11, <2>1, <2>2 DEF IndInv, RevocationLasts
<1>13. PassedIsOver'
  <2>1. \A d \in Calls \ {c} : Looking(d) => call[d].jti \in DOMAIN token
    BY DEF IndInv, TypeOK, Looking, KeyKinds
  <2> QED
    BY <1>1, <1>2, <1>4, <1>11, <2>1 DEF IndInv, PassedIsOver, Looking, Lasting, KeyKinds, Expiry
<1> QED
  BY <1>5, <1>6, <1>7, <1>9, <1>10, <1>12, <1>13 DEF IndInv

(* change_password, delete_user, revoke_token and logout sample the clock. *)
LEMMA SampledStep ==
  ASSUME IndInv, NEW c \in Calls, NEW key \in Keys, NEW stamp \in {now, now + 1},
         NEW delete \in BOOLEAN, Sampled(c, key, stamp, delete), UNCHANGED backend,
         key[1] # "user" => key[2] \in DOMAIN token,
         key[1] = "session" => token[key[2]].session
  PROVE  IndInv'
<1> DEFINE rec == [NoCall EXCEPT !.at = "write", !.key = key, !.stamp = stamp, !.delete = delete]
<1>1. stamp \in 0 .. (MaxTime + 1) /\ stamp <= now + 1 /\ now <= stamp
  BY JwtAssumption DEF IndInv, TypeOK, Times
<1>2. rec \in Call /\ rec.at = "write" /\ rec.key = key /\ rec.stamp = stamp
  BY <1>1, NoCallTyped DEF Call
<1>3. /\ call' = [call EXCEPT ![c] = rec]
      /\ UNCHANGED <<backend, token, notBefore, dead, now, account>>
  BY DEF Sampled
<1>4. key[1] # "user" => token[key[2]].iat <= stamp
  BY <1>1, ClaimsTyped DEF IndInv, IssuedInPast, TypeOK, Times
<1>5. account' \subseteq Users
  BY <1>3 DEF IndInv, TypeOK
<1> HIDE DEF rec
<1> QED
  BY <1>1, <1>2, <1>3, <1>4, <1>5, CallMoves DEF KeyKinds

-----------------------------------------------------------------------------
(* RevocationBackend::revoke: whatever was revoked and still matters stays *)
(* revoked, through overwriting, the greatest-wins upsert and the prune.   *)
LEMMA RecordedKeeps ==
  ASSUME IndInv, NEW c \in Calls, call[c].at = "write",
         NEW kind \in Lasting, NEW j \in DOMAIN token, RevokedUnder(kind, j), now < Expiry(j)
  PROVE  LET m == Recorded(call[c].key, call[c].stamp)
         IN  Key(kind, j) \in DOMAIN m /\ token[j].iat <= m[Key(kind, j)]
<1> DEFINE key == call[c].key
           stamp == call[c].stamp
           k == Key(kind, j)
           w == With(notBefore, key, stamp)
           kept == {l \in DOMAIN w : w[l] >= stamp - AutoWindow}
<1>1. /\ kind \in KeyKinds /\ key \in Keys /\ stamp \in Nat /\ stamp <= now + 1 /\ now \in Nat
  BY DEF IndInv, TypeOK, Call, StampsInOrder, Lasting, KeyKinds, Times
<1>2. /\ k \in Keys /\ k[1] = kind
      /\ kind # "user" => k[2] = j
  BY <1>1, KeyTyped DEF IndInv
<1>3. k \in DOMAIN notBefore /\ token[j].iat <= notBefore[k] /\ notBefore[k] \in Nat
  BY <1>2 DEF RevokedUnder, IndInv, TypeOK
<1>4. token[j].iat \in Nat /\ now < token[j].iat + Lifetime
  BY ClaimsTyped DEF IndInv
<1>5. /\ DOMAIN w = DOMAIN notBefore \cup {key} /\ w[key] = stamp
      /\ k # key => w[k] = notBefore[k]
  BY <1>3 DEF With
<1> HIDE DEF w
<1>6. CASE backend = "db"
  <2>1. Recorded(key, stamp) = IF key \in DOMAIN notBefore /\ notBefore[key] > stamp THEN notBefore ELSE w
    BY <1>6 DEF Recorded, w
  <2> HIDE DEF key, stamp, k
  <2> QED
    BY <1>1, <1>3, <1>4, <1>5, <2>1 DEF key, stamp, k
<1>7. CASE backend # "db"
  <2>1. Recorded(key, stamp) \in {w, [l \in kept |-> w[l]]}
    BY <1>7 DEF Recorded, w
  <2>2. k = key => token[j].iat <= stamp
    <3>1. kind # "user"
      BY <1>7 DEF Lasting
    <3>2. key[1] # "user" => token[key[2]].iat <= stamp
      BY DEF IndInv, StampsInOrder
    <3> SUFFICES ASSUME k = key PROVE token[j].iat <= stamp
      OBVIOUS
    <3>3. key[1] = kind /\ key[2] = j
      BY <1>2, <3>1
    <3> HIDE DEF k, key, stamp
    <3> QED
      BY <3>1, <3>2, <3>3
  <2>3. k \in DOMAIN w /\ token[j].iat <= w[k] /\ w[k] \in Nat
    BY <1>1, <1>3, <1>5, <2>2
  <2>4. k \in kept
    <3>1. w[k] >= stamp - AutoWindow
      BY <1>1, <1>4, <2>3, JwtAssumption
    <3> QED
      BY <2>3, <3>1
  <2> QED
    BY <2>1, <2>3, <2>4
<1> QED
  BY <1>6, <1>7

(* What the write itself revokes is revoked afterwards. *)
LEMMA RecordedHits ==
  ASSUME IndInv, NEW c \in Calls, call[c].at = "write",
         NEW kind \in Lasting, NEW j \in DOMAIN token, Key(kind, j) = call[c].key,
         token[j].iat <= call[c].stamp
  PROVE  LET m == Recorded(call[c].key, call[c].stamp)
         IN  Key(kind, j) \in DOMAIN m /\ token[j].iat <= m[Key(kind, j)]
<1> DEFINE key == call[c].key
           stamp == call[c].stamp
           w == With(notBefore, key, stamp)
           kept == {l \in DOMAIN w : w[l] >= stamp - AutoWindow}
<1>1. key \in Keys /\ stamp \in Nat /\ token[j].iat \in Nat
  BY ClaimsTyped DEF IndInv, TypeOK, Call
<1>2. DOMAIN w = DOMAIN notBefore \cup {key} /\ w[key] = stamp
  BY DEF With
<1>3. key \in DOMAIN notBefore => notBefore[key] \in Nat
  BY <1>1 DEF IndInv, TypeOK
<1> HIDE DEF w
<1>4. key \in kept
  BY <1>1, <1>2, JwtAssumption
<1>5. Recorded(key, stamp) \in {w, [l \in kept |-> w[l]]}
        \/ (Recorded(key, stamp) = notBefore /\ key \in DOMAIN notBefore /\ notBefore[key] > stamp)
  BY DEF Recorded, w
<1> QED
  BY <1>1, <1>2, <1>3, <1>4, <1>5

(* The backend's table keeps its type. *)
LEMMA RecordedTyped ==
  ASSUME IndInv, NEW c \in Calls
  PROVE  LET m == Recorded(call[c].key, call[c].stamp)
         IN  DOMAIN m \subseteq Keys /\ \A k \in DOMAIN m : m[k] \in 0 .. (MaxTime + 1)
<1> DEFINE key == call[c].key
           stamp == call[c].stamp
           w == With(notBefore, key, stamp)
           kept == {l \in DOMAIN w : w[l] >= stamp - AutoWindow}
<1>1. key \in Keys /\ stamp \in 0 .. (MaxTime + 1)
  BY DEF IndInv, TypeOK, Call
<1>2. /\ DOMAIN w = DOMAIN notBefore \cup {key} /\ w[key] = stamp
      /\ \A l \in DOMAIN notBefore : l # key => w[l] = notBefore[l]
  BY DEF With
<1>3. Recorded(key, stamp) \in {notBefore, w, [l \in kept |-> w[l]]}
  BY DEF Recorded
<1> HIDE DEF w
<1>4. DOMAIN w \subseteq Keys /\ \A l \in DOMAIN w : w[l] \in 0 .. (MaxTime + 1)
  BY <1>1, <1>2 DEF IndInv, TypeOK
<1> QED
  BY <1>3, <1>4 DEF IndInv, TypeOK

(* RevocationBackend::revoke and the return of the call that made it. *)
LEMMA RevokeStep ==
  ASSUME IndInv, NEW c \in Calls, BackendRevoke(c), UNCHANGED backend
  PROVE  IndInv'
<1> DEFINE m == Recorded(call[c].key, call[c].stamp)
           hit == {x \in KeyKinds \X DOMAIN token :
                     Key(x[1], x[2]) = call[c].key /\ token[x[2]].iat <= call[c].stamp}
<1>1. /\ call[c].at = "write" /\ notBefore' = m /\ dead' = dead \cup hit
      /\ UNCHANGED <<account, token, now, backend>> /\ Written(c)
  BY DEF BackendRevoke
<1>2. PICK rec \in Call : rec.at \in {"idle", "remove"} /\ call' = [call EXCEPT ![c] = rec]
  <2>1. call[c].key \in Keys
    BY DEF IndInv, TypeOK, Call
  <2>2. [NoCall EXCEPT !.at = "remove", !.key = call[c].key] \in Call
    BY <2>1, NoCallTyped DEF Call
  <2>3. [NoCall EXCEPT !.at = "remove", !.key = call[c].key].at = "remove"
    BY NoCallTyped DEF Call
  <2> QED
    BY <1>1, <2>2, <2>3, NoCallTyped DEF Written, Return
<1>3. /\ call'[c] = rec /\ \A d \in Calls \ {c} : call'[d] = call[d]
      /\ call' \in [Calls -> Call]
  BY <1>2 DEF IndInv, TypeOK
<1>4. DOMAIN m \subseteq Keys /\ \A k \in DOMAIN m : m[k] \in 0 .. (MaxTime + 1)
  BY RecordedTyped
<1>5. \A x \in hit : x[1] \in KeyKinds /\ x[2] \in DOMAIN token /\ x = <<x[1], x[2]>>
  OBVIOUS
<1>6. \A x \in hit : x[1] = "session" => token[x[2]].session
  <2> SUFFICES ASSUME NEW x \in hit, x[1] = "session" PROVE token[x[2]].session
    OBVIOUS
  <2>1. Key(x[1], x[2]) = call[c].key
    OBVIOUS
  <2>2. Key(x[1], x[2])[1] = "session" /\ Key(x[1], x[2])[2] = x[2]
    BY <1>5, KeyTyped DEF IndInv
  <2>3. call[c].key[1] = "session" => token[call[c].key[2]].session
    BY <1>1 DEF IndInv, StampsInOrder
  <2> HIDE DEF hit
  <2> QED
    BY <2>1, <2>2, <2>3
<1>7. \A kind, j : <<kind, j>> \in hit =>
        /\ kind \in KeyKinds /\ j \in DOMAIN token
        /\ Key(kind, j) = call[c].key /\ token[j].iat <= call[c].stamp
  OBVIOUS
<1>8. TypeOK'
  <2>1. hit \subseteq KeyKinds \X DOMAIN token
    OBVIOUS
  <2> HIDE DEF m, hit
  <2> QED
    BY <1>1, <1>2, <1>3, <1>4, <2>1 DEF IndInv, TypeOK, KeyKinds
<1> HIDE DEF m, hit
<1>9. IssuedInPast' /\ SessionsDie'
  BY <1>1, <1>6 DEF IndInv, IssuedInPast, SessionsDie
<1>10. StampsInOrder'
  BY <1>1, <1>2, <1>3 DEF IndInv, StampsInOrder
<1>11. DoomedIsDead'
  BY <1>1, <1>2, <1>3 DEF IndInv, DoomedIsDead, Looking, KeyKinds
<1>12. RevocationLasts'
  <2> SUFFICES ASSUME NEW kind \in Lasting, NEW j \in DOMAIN token, <<kind, j>> \in dead',
                      now < Expiry(j)
               PROVE  Key(kind, j) \in DOMAIN m /\ token[j].iat <= m[Key(kind, j)]
    BY <1>1 DEF RevocationLasts, Lasting, Expiry, RevokedUnder, Key
  <2>1. CASE <<kind, j>> \in dead
    <3>1. RevokedUnder(kind, j)
      BY <2>1 DEF IndInv, RevocationLasts
    <3> QED
      BY <1>1, <3>1, RecordedKeeps DEF m
  <2>2. CASE <<kind, j>> \in hit
    BY <1>1, <1>7, <2>2, RecordedHits DEF m
  <2> QED
    BY <1>1, <2>1, <2>2
<1>13. PassedIsOver'
  BY <1>1, <1>2, <1>3 DEF IndInv, PassedIsOver, Looking, Lasting, KeyKinds, Expiry
<1> QED
  BY <1>8, <1>9, <1>10, <1>11, <1>12, <1>13 DEF IndInv

(* cleanup_revocation with a window of one lifetime drops nothing that     *)
(* still matters.                                                          *)
LEMMA CleanupStep ==
  ASSUME IndInv, CleanupRevocation, UNCHANGED backend
  PROVE  IndInv'
<1> DEFINE kept == {l \in DOMAIN notBefore : notBefore[l] >= now - Lifetime}
<1>1. notBefore' = [k \in kept |-> notBefore[k]] /\ UNCHANGED <<backend, account, token, call, dead, now>>
  BY DEF CleanupRevocation
<1>2. TypeOK'
  BY <1>1 DEF IndInv, TypeOK
<1>3. RevocationLasts'
  <2> SUFFICES ASSUME NEW kind \in Lasting, NEW j \in DOMAIN token, <<kind, j>> \in dead,
                      now < Expiry(j)
               PROVE  Key(kind, j) \in DOMAIN notBefore' /\ token[j].iat <= notBefore'[Key(kind, j)]
    BY <1>1 DEF RevocationLasts, Lasting, Expiry, RevokedUnder, Key
  <2>1. Key(kind, j) \in DOMAIN notBefore /\ token[j].iat <= notBefore[Key(kind, j)]
    BY DEF IndInv, RevocationLasts, RevokedUnder
  <2>2. notBefore[Key(kind, j)] \in Nat /\ now \in Nat
    BY <2>1 DEF IndInv, TypeOK, Times
  <2>3. Key(kind, j) \in kept
    BY <2>1, <2>2, ClaimsTyped, JwtAssumption DEF IndInv
  <2> QED
    BY <1>1, <2>1, <2>3
<1> QED
  BY <1>1, <1>2, <1>3
     DEF IndInv, IssuedInPast, StampsInOrder, SessionsDie, DoomedIsDead, PassedIsOver,
         Looking, Lasting, Expiry

(* A token is no younger after the clock has moved. *)
LEMMA TickStep ==
  ASSUME IndInv, Tick, UNCHANGED backend
  PROVE  IndInv'
<1>1. /\ now' = now + 1 /\ UNCHANGED <<backend, account, token, notBefore, call, dead>>
      /\ now \in Nat /\ now' \in Times
  BY JwtAssumption DEF Tick, IndInv, TypeOK, Times
<1>2. TypeOK'
  BY <1>1 DEF IndInv, TypeOK
<1>3. IssuedInPast' /\ SessionsDie' /\ DoomedIsDead'
  <2>1. \A j \in DOMAIN token : token[j].iat \in Nat
    BY ClaimsTyped DEF IndInv
  <2> QED
    BY <1>1, <2>1 DEF IndInv, IssuedInPast, SessionsDie, DoomedIsDead, Looking
<1>4. StampsInOrder'
  <2>1. \A c \in Calls : call[c].stamp \in Nat
    BY DEF IndInv, TypeOK, Call
  <2> QED
    BY <1>1, <2>1 DEF IndInv, StampsInOrder
<1>5. \A j \in DOMAIN token : Expiry(j) \in Nat /\ Expiry(j)' = Expiry(j)
  BY <1>1, ClaimsTyped DEF IndInv, Expiry
<1>6. RevocationLasts'
  BY <1>1, <1>5 DEF IndInv, RevocationLasts, RevokedUnder, Key, Lasting
<1>7. PassedIsOver'
  <2>1. \A c \in Calls : Looking(c) => call[c].jti \in DOMAIN token
    BY DEF IndInv, TypeOK, Looking, KeyKinds
  <2>2. \A c \in Calls : Looking(c) => Expiry(call[c].jti) \in Nat /\ Expiry(call[c].jti)' = Expiry(call[c].jti)
    BY <1>1, <1>5, <2>1
  <2> QED
    BY <1>1, <2>2 DEF IndInv, PassedIsOver, Looking, Lasting
<1> QED
  BY <1>2, <1>3, <1>4, <1>6, <1>7 DEF IndInv

(* A restart forgets the calls, and with the local table also what it had  *)
(* revoked.                                                                *)
LEMMA RestartStep ==
  ASSUME IndInv, Restart, UNCHANGED backend
  PROVE  IndInv'
<1>1. /\ call' = [c \in Calls |-> NoCall] /\ UNCHANGED <<backend, account, token, now>>
      /\ \/ DOMAIN notBefore' = {} /\ dead' = {}
         \/ UNCHANGED <<notBefore, dead>>
  BY DEF Restart
<1>2. \A c \in Calls : call'[c] = NoCall /\ call'[c].at = "idle"
  BY <1>1, NoCallTyped
<1>3. TypeOK'
  BY <1>1, <1>2, NoCallTyped DEF IndInv, TypeOK
<1>4. RevocationLasts'
  BY <1>1 DEF IndInv, RevocationLasts, RevokedUnder, Key, Lasting, Expiry
<1> QED
  BY <1>1, <1>2, <1>3, <1>4
     DEF IndInv, IssuedInPast, StampsInOrder, SessionsDie, DoomedIsDead, PassedIsOver,
         Looking, KeyKinds

-----------------------------------------------------------------------------
(* verify_with_revocation begins: what dooms the token is dead, and no     *)
(* lookup has been passed.                                                 *)
LEMMA VerifyStep ==
  ASSUME IndInv, NEW c \in Calls, NEW j \in Jtis, VerifyBegin(c, j), UNCHANGED backend
  PROVE  IndInv'
<1> DEFINE doom == {kind \in KeyKinds : <<kind, j>> \in dead}
           rec == [NoCall EXCEPT !.at = "user", !.jti = j, !.doomed = doom]
<1>1. doom \in SUBSET KeyKinds /\ \A kind \in doom : <<kind, j>> \in dead
  OBVIOUS
<1>2. /\ call' = [call EXCEPT ![c] = rec] /\ j \in DOMAIN token
      /\ UNCHANGED <<backend, token, notBefore, dead, now, account>>
  BY DEF VerifyBegin
<1> HIDE DEF doom
<1>3. rec \in Call /\ rec.at = "user" /\ rec.jti = j /\ rec.doomed = doom
  BY <1>1, NoCallTyped DEF Call
<1>4. account' \subseteq Users /\ Passed(rec.at) = {}
  BY <1>2, <1>3 DEF IndInv, TypeOK, Passed
<1> HIDE DEF rec
<1> QED
  BY <1>1, <1>2, <1>3, <1>4, CallMoves

(* The lookup after a passed one adds at most the key just read and, for a *)
(* token without a session, the session's.                                 *)
LEMMA NextPassed ==
  ASSUME NEW c \in Calls, call[c].at \in KeyKinds
  PROVE  /\ NextLookup(c) \in {"jti", "session", "accepted"}
         /\ \A kind \in Passed(NextLookup(c)) :
              \/ kind \in Passed(call[c].at) \/ kind = call[c].at
              \/ kind = "session" /\ ~token[call[c].jti].session
  BY DEF NextLookup, Passed, KeyKinds

(* get_not_before and the comparison: a doomed token that passes a lookup  *)
(* of a lasting key has expired.                                           *)
LEMMA LookupStep ==
  ASSUME IndInv, NEW c \in Calls, Lookup(c), UNCHANGED backend
  PROVE  IndInv'
<1>1. /\ call[c].at \in KeyKinds /\ call[c] \in Call /\ call[c].jti \in DOMAIN token
      /\ UNCHANGED <<backend, token, notBefore, dead, now, account>> /\ account' \subseteq Users
  BY DEF Lookup, IndInv, TypeOK, KeyKinds
<1>2. CASE RevokedUnder(call[c].at, call[c].jti)
  <2>1. call' = [call EXCEPT ![c] = NoCall]
    BY <1>2 DEF Lookup, Return
  <2> QED
    BY <1>1, <2>1, NoCallTyped, CallParks
<1>3. CASE ~RevokedUnder(call[c].at, call[c].jti)
  <2> DEFINE rec == [call[c] EXCEPT !.at = NextLookup(c)]
             j == call[c].jti
  <2>1. call' = [call EXCEPT ![c] = rec]
    BY <1>3 DEF Lookup
  <2>2. NextLookup(c) \in {"jti", "session", "accepted"}
    BY <1>1, NextPassed
  <2>3. /\ rec \in Call /\ rec.at = NextLookup(c) /\ rec.jti = j
        /\ rec.doomed = call[c].doomed /\ rec.blind = call[c].blind
    BY <1>1, <2>2 DEF Call
  <2>4. \A kind \in call[c].doomed : <<kind, j>> \in dead
    BY <1>1 DEF IndInv, DoomedIsDead, Looking
  <2>5. now \in Nat /\ Expiry(j) \in Nat
    BY <1>1, ClaimsTyped DEF IndInv, TypeOK, Times
  <2>6. ASSUME ~call[c].blind, NEW kind \in call[c].doomed \cap Lasting \cap Passed(NextLookup(c))
        PROVE  now >= Expiry(j)
    <3>1. CASE kind \in Passed(call[c].at)
      BY <1>1, <2>6, <3>1 DEF IndInv, PassedIsOver, Looking
    <3>2. CASE kind = call[c].at
      <4>1. <<kind, j>> \in dead /\ kind \in Lasting
        BY <2>4, <2>6
      <4>2. ~(now < Expiry(j))
        BY <1>1, <1>3, <3>2, <4>1 DEF IndInv, RevocationLasts
      <4> QED
        BY <2>5, <4>2
    <3>3. CASE kind = "session" /\ ~token[j].session
      <4>1. <<"session", j>> \in dead
        BY <2>4, <3>3
      <4>2. token[j].session
        BY <4>1 DEF IndInv, SessionsDie
      <4> QED
        BY <3>3, <4>2
    <3> QED
      BY <1>1, <3>1, <3>2, <3>3, NextPassed
  <2>7. rec.at # "write"
    BY <2>2, <2>3
  <2> HIDE DEF rec
  <2> QED
    BY <1>1, <2>1, <2>3, <2>4, <2>6, <2>7, CallMoves
<1> QED
  BY <1>2, <1>3

(* A failed query lets the token pass, and the verification is blind. *)
LEMMA LookupBlindStep ==
  ASSUME IndInv, NEW c \in Calls, LookupBlind(c), UNCHANGED backend
  PROVE  IndInv'
<1> DEFINE rec == [call[c] EXCEPT !.at = NextLookup(c), !.blind = TRUE]
<1>1. /\ call[c].at \in KeyKinds /\ call[c] \in Call /\ call[c].jti \in DOMAIN token
      /\ UNCHANGED <<backend, token, notBefore, dead, now, account>> /\ account' \subseteq Users
      /\ call' = [call EXCEPT ![c] = rec]
  BY DEF LookupBlind, IndInv, TypeOK, KeyKinds
<1>2. NextLookup(c) \in {"jti", "session", "accepted"}
  BY <1>1, NextPassed
<1>3. /\ rec \in Call /\ rec.at = NextLookup(c) /\ rec.jti = call[c].jti
      /\ rec.doomed = call[c].doomed /\ rec.blind = TRUE
  BY <1>1, <1>2 DEF Call
<1>4. \A kind \in call[c].doomed : <<kind, call[c].jti>> \in dead
  BY <1>1 DEF IndInv, DoomedIsDead, Looking
<1>5. rec.at # "write"
  BY <1>2, <1>3
<1> HIDE DEF rec
<1> QED
  BY <1>1, <1>3, <1>4, <1>5, CallMoves

-----------------------------------------------------------------------------
(* The calls of AuthService that do not write the backend. *)
LEMMA ParkingSteps ==
  ASSUME IndInv, NEW c \in Calls, UNCHANGED backend,
         \/ \E u \in Users, session \in BOOLEAN : AuthenticateUser(c, u, session)
         \/ LoginFails(c) \/ BackendRevokeFails(c) \/ RemoveUser(c)
  PROVE  IndInv'
<1>1. account \subseteq Users /\ call[c].key \in Keys
  BY DEF IndInv, TypeOK, Call
<1>2. ASSUME NEW u \in Users, NEW session \in BOOLEAN, AuthenticateUser(c, u, session) PROVE IndInv'
  <2> DEFINE rec == [NoCall EXCEPT !.at = "issue", !.user = u, !.session = session]
  <2>1. rec \in Call /\ rec.at = "issue"
    BY NoCallTyped DEF Call
  <2>2. call' = [call EXCEPT ![c] = rec] /\ UNCHANGED <<backend, token, notBefore, dead, now, account>>
    BY <1>2 DEF AuthenticateUser
  <2> HIDE DEF rec
  <2> QED
    BY <1>1, <2>1, <2>2, CallParks
<1>3. CASE LoginFails(c)
  BY <1>1, <1>3, NoCallTyped, CallParks DEF LoginFails, Return
<1>4. CASE RemoveUser(c)
  BY <1>1, <1>4, NoCallTyped, CallParks DEF RemoveUser, Return
<1>5. CASE BackendRevokeFails(c)
  <2> DEFINE rec == [NoCall EXCEPT !.at = "remove", !.key = call[c].key]
  <2>1. rec \in Call /\ rec.at = "remove"
    BY <1>1, NoCallTyped DEF Call
  <2>2. /\ call' = [call EXCEPT ![c] = rec] \/ call' = [call EXCEPT ![c] = NoCall]
        /\ UNCHANGED <<backend, token, notBefore, dead, now, account>>
    BY <1>5 DEF BackendRevokeFails, Written, Return
  <2> HIDE DEF rec
  <2> QED
    BY <1>1, <2>1, <2>2, NoCallTyped, CallParks
<1> QED
  BY <1>2, <1>3, <1>4, <1>5

(* The four calls that revoke, up to the backend's lock. *)
LEMMA SamplingSteps ==
  ASSUME IndInv, NEW c \in Calls, UNCHANGED backend,
         \/ \E u \in Users : ChangePassword(c, u) \/ DeleteUser(c, u)
         \/ \E j \in Jtis : RevokeToken(c, j) \/ Logout(c, j)
  PROVE  IndInv'
<1>1. ASSUME NEW u \in Users, ChangePassword(c, u) \/ DeleteUser(c, u) PROVE IndInv'
  <2> DEFINE key == <<"user", u>>
  <2>1. key \in Keys /\ key[1] = "user"
    BY DEF Keys
  <2>2. \E delete \in BOOLEAN : Sampled(c, key, now + 1, delete)
    BY <1>1 DEF ChangePassword, DeleteUser
  <2> HIDE DEF key
  <2> QED
    BY <2>1, <2>2, SampledStep
<1>2. ASSUME NEW j \in Jtis, RevokeToken(c, j) PROVE IndInv'
  <2> DEFINE key == <<"jti", j>>
  <2>1. key \in Keys /\ key[1] = "jti" /\ key[2] = j
    BY DEF Keys
  <2>2. Sampled(c, key, now, FALSE) /\ j \in DOMAIN token
    BY <1>2 DEF RevokeToken
  <2> HIDE DEF key
  <2> QED
    BY <2>1, <2>2, SampledStep
<1>3. ASSUME NEW j \in Jtis, Logout(c, j) PROVE IndInv'
  <2> DEFINE key == <<"session", j>>
  <2>1. key \in Keys /\ key[1] = "session" /\ key[2] = j
    BY DEF Keys
  <2>2. Sampled(c, key, now, FALSE) /\ j \in DOMAIN token /\ token[j].session
    BY <1>3 DEF Logout
  <2> HIDE DEF key
  <2> QED
    BY <2>1, <2>2, SampledStep
<1> QED
  BY <1>1, <1>2, <1>3

(* Every step keeps the invariant. *)
LEMMA IndStep == IndInv /\ [Next]_vars => IndInv'
<1> SUFFICES ASSUME IndInv, [Next]_vars PROVE IndInv'
  OBVIOUS
<1>1. CASE UNCHANGED vars
  BY <1>1
     DEF vars, IndInv, TypeOK, IssuedInPast, StampsInOrder, SessionsDie, DoomedIsDead, Looking,
         RevocationLasts, PassedIsOver, Lasting, Expiry, RevokedUnder, Key
<1>2. CASE Next
  <2>1. UNCHANGED backend
    BY <1>2 DEF Next
  <2>2. ASSUME NEW c \in Calls, Service(c) PROVE IndInv'
    BY <2>1, <2>2, IssueStep, ParkingSteps, SamplingSteps, RevokeStep DEF Service
  <2>3. ASSUME NEW c \in Calls, Verify(c) PROVE IndInv'
    BY <2>1, <2>3, VerifyStep, LookupStep, LookupBlindStep DEF Verify
  <2> QED
    BY <1>2, <2>1, <2>2, <2>3, CleanupStep, RestartStep, TickStep DEF Next
<1> QED
  BY <1>1, <1>2

(* The invariant holds of every reachable state. *)
LEMMA Inductive == Spec => []IndInv
<1> QED
  BY IndInit, IndStep, PTL DEF Spec

-----------------------------------------------------------------------------
(* JwtManager, its backend and the calls of AuthService keep their types:  *)
(* every verification under way is of an issued token, and only issued     *)
(* tokens are revoked (basic.rs, service/login/mod.rs).                    *)
THEOREM TypeCorrect == Spec => []TypeOK
<1>1. IndInv => TypeOK
  BY DEF IndInv
<1> QED
  BY <1>1, Inductive, PTL

(* A revocation that RevocationBackend::revoke recorded keeps hitting its  *)
(* token up to the token's expiry, through later revocations, the prune at *)
(* the cap, cleanup_revocation and, for the shared table, a restart.       *)
THEOREM RevocationsLast == Spec => []RevocationLasts
<1>1. IndInv => RevocationLasts
  BY DEF IndInv
<1> QED
  BY <1>1, Inductive, PTL

(* verify_with_revocation accepts no live token whose revocation had       *)
(* completed when it began, however its three lookups interleave with      *)
(* other revocations, cleanups and restarts.                               *)
THEOREM NoRevokedTokenAccepted == Spec => []RevokedIsRejected
<1>1. ASSUME IndInv PROVE RevokedIsRejected
  <2> SUFFICES ASSUME NEW c \in Calls, call[c].at = "accepted", ~call[c].blind,
                      NEW kind \in call[c].doomed \cap Lasting
               PROVE  now >= Expiry(call[c].jti)
    BY DEF RevokedIsRejected
  <2>1. kind \in Passed(call[c].at)
    BY DEF Passed, Lasting, KeyKinds
  <2> QED
    BY <1>1, <2>1 DEF IndInv, PassedIsOver, Looking
<1> QED
  BY <1>1, Inductive, PTL
=============================================================================
