--------------------------- MODULE TicketsProofs ---------------------------
(* Whatever is handed out to be used: refresh tokens, single-use tickets, invitations,
   visitor tickets and presence leases, for every value of their constants. *)
EXTENDS RefreshRotation, SingleUseStores, Invitations, VisitorTickets, Presence,
        FiniteSetTheorems, TLAPS

(* Refresh tokens. *)

(* Before the first login. *)
LEMMA InitInv == Init => IndInv
  BY RotationAssumption DEF Init, IndInv, TypeOK, Call, Times

(* Minting an id never seen before leaves everything known of the old ids  *)
(* in place.                                                               *)
LEMMA MintInv ==
    ASSUME IndInv, NEW sid \in Sids, Mint(sid), UNCHANGED <<entries, used, rotations, now>>,
           call' \in [Tasks -> Call],
           \A t \in Tasks : call'[t].at # "idle" => call'[t] = call[t]
    PROVE  IndInv'
  <1>1. /\ DOMAIN iat' = DOMAIN iat \cup {sid} /\ sid \notin DOMAIN iat
        /\ iat'[sid] = now /\ \A x \in DOMAIN iat : iat'[x] = iat[x]
    BY DEF Mint, With
  <1>2. TypeOK'
    BY <1>1 DEF IndInv, TypeOK
  <1>3. \A x \in DOMAIN iat' : iat'[x] <= now'
    BY <1>1 DEF IndInv, TypeOK, Times
  <1>4. \A x \in DOMAIN entries' : iat'[x] <= entries'[x]
    BY <1>1 DEF IndInv, TypeOK
  <1>5. \A t \in Tasks : call'[t].at # "idle" => /\ iat'[call'[t].sid] <= call'[t].sampled
                                                 /\ call'[t].sampled <= now'
    BY <1>1 DEF IndInv, TypeOK
  <1>6. \A x \in used' : Verifies(x)' => x \in DOMAIN entries'
    BY <1>1 DEF IndInv, TypeOK, Verifies
  <1> QED BY <1>2, <1>3, <1>4, <1>5, <1>6 DEF IndInv

(* Recording a minted id at a time between its issue and the present keeps *)
(* every used id that still verifies: what the prune drops is out of the   *)
(* window, and so is its token.                                            *)
LEMMA RecordInv ==
    ASSUME IndInv, NEW sid \in DOMAIN iat, NEW at \in Times,
           iat[sid] <= at, at <= now, RecordEntry(sid, at),
           used' = used \cup {sid}, UNCHANGED <<iat, now>>,
           rotations' \in [Sids -> Nat],
           call' \in [Tasks -> Call],
           \A t \in Tasks : call'[t].at # "idle" =>
              /\ call[t].at # "idle" /\ call'[t].sid = call[t].sid
              /\ call'[t].sampled = call[t].sampled
    PROVE  IndInv'
  <1> DEFINE es == With(entries, sid, at)
  <1>1. /\ DOMAIN es = DOMAIN entries \cup {sid} /\ es[sid] = at
        /\ \A x \in DOMAIN entries : x # sid => es[x] = entries[x]
    BY DEF With
  <1>2. \A x \in DOMAIN es : es[x] \in Times /\ x \in DOMAIN iat /\ iat[x] <= es[x]
    BY <1>1 DEF IndInv, TypeOK
  <1>3. /\ DOMAIN entries' \subseteq DOMAIN es
        /\ \A x \in DOMAIN entries' : entries'[x] = es[x]
        /\ \A x \in DOMAIN es : es[x] >= at - Window => x \in DOMAIN entries'
    BY DEF RecordEntry
  <1> HIDE DEF es
  <1>4. TypeOK'
    BY <1>2, <1>3 DEF IndInv, TypeOK
  <1>5. \A x \in DOMAIN entries' : iat'[x] <= entries'[x]
    BY <1>2, <1>3
  <1>6. \A x \in used' : Verifies(x)' => x \in DOMAIN entries'
    <2> SUFFICES ASSUME NEW x \in used', Verifies(x)' PROVE x \in DOMAIN entries'
      OBVIOUS
    <2>1. x \in DOMAIN iat /\ now <= iat[x] + RefreshTtl + Leeway
      BY DEF Verifies, IndInv, TypeOK
    <2>2. x \in DOMAIN es
      BY <1>1 DEF IndInv, Verifies
    <2>3. iat[x] \in Int /\ es[x] \in Int /\ at \in Int /\ now \in Int /\ iat[x] <= es[x]
      BY <1>2, <2>1, <2>2 DEF IndInv, TypeOK, Times
    <2>4. es[x] >= at - Window
      BY <2>1, <2>3, RotationAssumption DEF Window
    <2> QED BY <1>3, <2>2, <2>4
  <1>7. \A t \in Tasks : call'[t].at # "idle" => /\ iat'[call'[t].sid] <= call'[t].sampled
                                                 /\ call'[t].sampled <= now'
    BY DEF IndInv
  <1>8. \A x \in DOMAIN iat' : iat'[x] <= now'
    BY DEF IndInv
  <1> QED BY <1>4, <1>5, <1>6, <1>7, <1>8 DEF IndInv

(* A step that leaves the ids and the store alone. *)
LEMMA CallInv ==
    ASSUME IndInv, UNCHANGED <<iat, entries, used, rotations, now>>,
           call' \in [Tasks -> Call],
           \A t \in Tasks : call'[t].at # "idle" =>
              /\ call'[t].sid \in DOMAIN iat
              /\ iat[call'[t].sid] <= call'[t].sampled /\ call'[t].sampled <= now
    PROVE  IndInv'
  BY DEF IndInv, TypeOK, Verifies

(* Every step of refresh_rotating keeps the invariant. *)
LEMMA RotateInv ==
    ASSUME IndInv, NEW t \in Tasks, Rotate(t)
    PROVE  IndInv'
  <1>0. call[t] \in Call /\ now \in Times
    BY DEF IndInv, TypeOK
  <1>1. ASSUME NEW sid \in Sids, VerifyRefreshClaims(t, sid) PROVE IndInv'
    <2>1. call' \in [Tasks -> Call]
      BY <1>0, <1>1 DEF VerifyRefreshClaims, Call, IndInv, TypeOK
    <2>2. \A u \in Tasks : call'[u].at # "idle" =>
              /\ call'[u].sid \in DOMAIN iat
              /\ iat[call'[u].sid] <= call'[u].sampled /\ call'[u].sampled <= now
      BY <1>0, <1>1 DEF VerifyRefreshClaims, IndInv, TypeOK, Times
    <2> QED BY <1>1, <2>1, <2>2, CallInv DEF VerifyRefreshClaims
  <1>2. ASSUME NEW sid \in Sids, IssueRotated(t, sid) PROVE IndInv'
    <2>1. call' \in [Tasks -> Call]
      BY <1>0, <1>2 DEF IssueRotated, Call, IndInv, TypeOK
    <2>2. \A u \in Tasks : call'[u].at # "idle" => call'[u] = call[u]
      BY <1>0, <1>2 DEF IssueRotated, Call, IndInv, TypeOK
    <2> QED BY <1>2, <2>1, <2>2, MintInv DEF IssueRotated
  <1>3. CASE SampleNow(t)
    <2>1. call' \in [Tasks -> Call]
      BY <1>0, <1>3 DEF SampleNow, Call, IndInv, TypeOK
    <2>2. \A u \in Tasks : call'[u].at # "idle" =>
              /\ call'[u].sid \in DOMAIN iat
              /\ iat[call'[u].sid] <= call'[u].sampled /\ call'[u].sampled <= now
      BY <1>0, <1>3 DEF SampleNow, Call, IndInv, TypeOK, Times
    <2> QED BY <1>3, <2>1, <2>2, CallInv DEF SampleNow
  <1>4. CASE IssueFails(t)
    <2>1. call' \in [Tasks -> Call]
      BY <1>0, <1>4 DEF IssueFails, Call, IndInv, TypeOK
    <2>2. \A u \in Tasks : call'[u].at # "idle" => call'[u] = call[u]
      BY <1>0, <1>4 DEF IssueFails, Call, IndInv, TypeOK
    <2> QED BY <1>4, <2>1, <2>2, CallInv DEF IssueFails, IndInv, TypeOK
  <1>5. CASE CheckAndRevoke(t)
    <2>1. call' \in [Tasks -> Call] /\ call[t].sid \in DOMAIN iat
      BY <1>0, <1>5 DEF CheckAndRevoke, Call, IndInv, TypeOK
    <2>2. \A u \in Tasks : call'[u].at # "idle" =>
              /\ call[u].at # "idle" /\ call'[u].sid = call[u].sid
              /\ call'[u].sampled = call[u].sampled
      BY <1>0, <1>5 DEF CheckAndRevoke, Call, IndInv, TypeOK
    <2>3. CASE IsRevoked(call[t].sid, call[t].sampled)
      BY <1>5, <2>1, <2>2, <2>3, CallInv DEF CheckAndRevoke, IndInv, TypeOK
    <2>4. CASE ~IsRevoked(call[t].sid, call[t].sampled)
      <3>1. /\ RecordEntry(call[t].sid, call[t].sampled)
            /\ used' = used \cup {call[t].sid} /\ UNCHANGED <<iat, now>>
            /\ rotations' \in [Sids -> Nat]
        BY <1>0, <1>5, <2>4 DEF CheckAndRevoke, Call, IndInv, TypeOK
      <3>2. /\ call[t].sampled \in Times /\ iat[call[t].sid] <= call[t].sampled
            /\ call[t].sampled <= now
        BY <1>0, <1>5 DEF CheckAndRevoke, Call, IndInv
      <3> QED BY <2>1, <2>2, <3>1, <3>2, RecordInv
    <2> QED BY <2>3, <2>4
  <1> QED BY <1>1, <1>2, <1>3, <1>4, <1>5 DEF Rotate

(* Every step preserves the invariant. *)
LEMMA NextInv == IndInv /\ [Next]_vars => IndInv'
  <1> SUFFICES ASSUME IndInv, [Next]_vars PROVE IndInv'
    OBVIOUS
  <1>0. now \in Times /\ call \in [Tasks -> Call]
    BY DEF IndInv, TypeOK
  <1>1. ASSUME NEW sid \in Sids, IssuePair(sid) PROVE IndInv'
    BY <1>0, <1>1, MintInv DEF IssuePair
  <1>2. ASSUME NEW sid \in Sids, NEW new \in Sids, Refresh(sid, new) PROVE IndInv'
    BY <1>0, <1>2, MintInv DEF Refresh
  <1>3. ASSUME NEW sid \in Sids, Revoke(sid) PROVE IndInv'
    <2>1. sid \in DOMAIN iat /\ iat[sid] <= now /\ now <= now
      BY <1>0, <1>3 DEF Revoke, IndInv, Times
    <2>2. rotations' \in [Sids -> Nat]
      BY <1>3 DEF Revoke, IndInv, TypeOK
    <2> QED BY <1>0, <1>3, <2>1, <2>2, RecordInv DEF Revoke
  <1>4. CASE \E t \in Tasks : Rotate(t)
    BY <1>4, RotateInv
  <1>5. CASE Cleanup
    <2>1. \A x \in used : Verifies(x) => x \in DOMAIN entries'
      <3> SUFFICES ASSUME NEW x \in used, Verifies(x) PROVE x \in DOMAIN entries'
        OBVIOUS
      <3>1. /\ x \in DOMAIN entries /\ x \in DOMAIN iat
            /\ iat[x] \in Int /\ entries[x] \in Int /\ iat[x] <= entries[x]
        BY DEF IndInv, TypeOK, Times
      <3>2. entries[x] + Window >= now
        BY <1>0, <3>1, RotationAssumption DEF Verifies, Window, Times
      <3> QED BY <1>5, <3>1, <3>2 DEF Cleanup
    <2> QED BY <1>5, <2>1 DEF Cleanup, IndInv, TypeOK, Verifies
  <1>6. CASE Restart
    <2>1. call' \in [Tasks -> Call] /\ \A t \in Tasks : call'[t].at = "idle"
      BY <1>0, <1>6 DEF Restart, Call
    <2> QED BY <1>6, <2>1, RotationAssumption DEF Restart, IndInv, TypeOK
  <1>7. CASE Tick
    <2>1. now' = now + 1 /\ now' \in Times
      BY <1>0, <1>7, RotationAssumption DEF Tick, Times
    <2>2. \A x \in used : Verifies(x)' => Verifies(x)
      BY <1>0, <1>7, <2>1, RotationAssumption DEF Tick, Verifies, IndInv, TypeOK, Times
    <2>3. \A x \in DOMAIN iat : iat[x] <= now'
      BY <1>0, <2>1 DEF IndInv, TypeOK, Times
    <2>4. \A t \in Tasks : call[t].at # "idle" => call[t].sampled <= now'
      BY <1>0, <2>1 DEF IndInv, Call, Times
    <2> QED BY <1>7, <2>1, <2>2, <2>3, <2>4 DEF Tick, IndInv, TypeOK
  <1>8. CASE UNCHANGED vars
    BY <1>8 DEF vars, IndInv, TypeOK, Verifies
  <1> QED BY <1>1, <1>2, <1>3, <1>4, <1>5, <1>6, <1>7, <1>8 DEF Next

(* The invariant holds of every run of the token manager. *)
LEMMA Invariance == Spec => []IndInv
  BY InitInv, NextInv, PTL DEF Spec

-----------------------------------------------------------------------------
(* The state stays well-typed: the store only ever names minted sessions. *)
THEOREM TypeCorrect == Spec => []TypeOK
  <1>1. IndInv => TypeOK
    BY DEF IndInv
  <1> QED BY <1>1, Invariance, PTL

(* While its token verifies, a rotated or revoked session is reported as   *)
(* revoked by the store.                                                   *)
THEOREM StoreRemembers == Spec => []RejectedWhileVerifiable
  <1>1. IndInv => RejectedWhileVerifiable
    <2> SUFFICES ASSUME IndInv, NEW sid \in used, Verifies(sid)
                 PROVE  IsRevoked(sid, now)
      BY DEF RejectedWhileVerifiable
    <2>1. /\ sid \in DOMAIN entries /\ sid \in DOMAIN iat /\ now \in Int
          /\ iat[sid] \in Int /\ entries[sid] \in Int /\ iat[sid] <= entries[sid]
      BY DEF IndInv, TypeOK, Times
    <2> QED BY <2>1, RotationAssumption DEF Verifies, IsRevoked, Window
  <1> QED BY <1>1, Invariance, PTL

(* No session is admitted to a second rotation while its token verifies. *)
THEOREM RotatesOnce == Spec => OncePerLifetime
  <1> DEFINE Once == \A sid \in used :
                       rotations'[sid] > rotations[sid] => ~Verifies(sid)
  <1>1. IndInv /\ [Next]_vars => [Once]_vars
    <2> SUFFICES ASSUME IndInv, Next, NEW sid \in used,
                        rotations'[sid] > rotations[sid], Verifies(sid)
                 PROVE  FALSE
      OBVIOUS
    <2>1. sid \in DOMAIN iat /\ sid \in Sids /\ rotations[sid] \in Nat
      BY DEF IndInv, TypeOK
    <2>2. PICK t \in Tasks : CheckAndRevoke(t)
      <3>1. ~Restart
        BY <2>1 DEF Restart
      <3>2. rotations' # rotations
        BY <2>1
      <3> QED BY <3>1, <3>2 DEF Next, Rotate, IssuePair, Refresh, VerifyRefreshClaims,
                 SampleNow, IssueRotated, IssueFails, Revoke, Cleanup, Tick
    <2>3. call[t].sid = sid /\ ~IsRevoked(sid, call[t].sampled)
      BY <2>1, <2>2 DEF CheckAndRevoke, IndInv, TypeOK
    <2>4. /\ sid \in DOMAIN entries /\ iat[sid] <= entries[sid]
          /\ iat[sid] \in Int /\ entries[sid] \in Int /\ now \in Int
          /\ call[t].sampled \in Int /\ call[t].sampled <= now
      BY <2>2 DEF CheckAndRevoke, Call, IndInv, TypeOK, Times
    <2>5. call[t].sampled > entries[sid] + Window
      BY <2>3, <2>4, RotationAssumption DEF IsRevoked, Window
    <2> QED BY <2>4, <2>5, RotationAssumption DEF Verifies, Window
  <1> QED BY <1>1, Invariance, PTL DEF Spec, OncePerLifetime

-----------------------------------------------------------------------------
(* Single-use stores. *)

(* The types the invariant implies, in one place. *)
LEMMA StoresTypes ==
    ASSUME StoresInv
    PROVE  /\ serial \in Nat /\ serial <= MaxIssued /\ counter \in Nat /\ counter <= MaxIssued
           /\ storeNow \in Nat /\ lastPrune \in Nat /\ lastPrune <= storeNow
           /\ uses \in [Tickets -> Nat] /\ tries \in [Tickets -> Nat] /\ minted \in [Tickets -> Nat]
           /\ \A k \in DOMAIN table :
                 /\ table[k] \in TicketEntry /\ table[k].ticket \in Tickets
                 /\ table[k].at \in Nat /\ table[k].expires \in Nat /\ table[k].attempts \in Nat
           /\ Ttl \in Nat /\ Cap \in Nat \ {0} /\ MaxIssued \in Nat /\ MaxAttempts \in Nat \ {0}
           /\ \A t \in Tickets : t \in Nat /\ t >= 1 /\ minted[t] \in Nat /\ tries[t] \in Nat /\ uses[t] \in Nat
  <1> USE StoresAssumption
  <1>1. /\ \A k \in DOMAIN table : table[k] \in TicketEntry
        /\ serial \in 0..MaxIssued /\ counter \in 0..MaxIssued
        /\ storeNow \in Nat /\ lastPrune \in 0..storeNow
    BY DEF StoresInv, StoresBounded, StoresTypeOK
  <1>2. uses \in [Tickets -> Nat] /\ tries \in [Tickets -> Nat] /\ minted \in [Tickets -> Nat]
    BY DEF StoresInv
  <1>3. \A k \in DOMAIN table :
           /\ table[k] \in TicketEntry /\ table[k].ticket \in Tickets
           /\ table[k].at \in Nat /\ table[k].expires \in Nat /\ table[k].attempts \in Nat
    BY <1>1 DEF TicketEntry
  <1>4. \A t \in Tickets : t \in Nat /\ t >= 1
    BY DEF Tickets
  <1>5. \A t \in Tickets : minted[t] \in Nat /\ tries[t] \in Nat /\ uses[t] \in Nat
    BY <1>2
  <1>6. /\ serial \in Nat /\ serial <= MaxIssued /\ counter \in Nat /\ counter <= MaxIssued
        /\ storeNow \in Nat /\ lastPrune \in Nat /\ lastPrune <= storeNow
    BY <1>1
  <1> QED BY <1>2, <1>3, <1>4, <1>5, <1>6

(* Outside the code store the table is finite: its keys are issued tickets. *)
LEMMA TableFinite ==
    ASSUME StoresInv, store # "code"
    PROVE  /\ DOMAIN table \subseteq 1..serial /\ IsFiniteSet(DOMAIN table)
           /\ \A S \in SUBSET DOMAIN table : IsFiniteSet(S) /\ Cardinality(S) \in Nat
  <1>1. DOMAIN table \subseteq 1..serial
    <2> SUFFICES ASSUME NEW k \in DOMAIN table PROVE k \in 1..serial
      OBVIOUS
    <2>1. k = table[k].ticket /\ k <= serial
      BY DEF StoresInv, Keyed
    <2>2. k \in Tickets
      BY <2>1, StoresTypes
    <2> QED BY <2>1, <2>2, StoresTypes DEF Tickets
  <1>2. IsFiniteSet(1..serial)
    BY StoresTypes, FS_Interval
  <1>3. IsFiniteSet(DOMAIN table)
    BY <1>1, <1>2, FS_Subset
  <1> QED BY <1>1, <1>3, FS_Subset, FS_CardinalityType

(* The tickets issued no earlier than another are finitely many. *)
LEMMA NoEarlierFinite ==
    ASSUME StoresInv, NEW t
    PROVE  IsFiniteSet(NoEarlier(t)) /\ Cardinality(NoEarlier(t)) \in Nat
  <1>1. NoEarlier(t) \in SUBSET (1..serial)
    BY DEF NoEarlier
  <1>2. IsFiniteSet(1..serial)
    BY StoresTypes, FS_Interval
  <1> QED BY <1>1, <1>2, FS_Subset, FS_CardinalityType

(* Before the first issue. *)
LEMMA StoresInitInv == StoresInit => StoresInv
  <1> SUFFICES ASSUME StoresInit PROVE StoresInv
    OBVIOUS
  <1> USE StoresAssumption
  <1>1. DOMAIN table = {} /\ serial = 0 /\ counter = 0 /\ lastPrune = 0 /\ storeNow = PruneInterval
    BY DEF StoresInit
  <1>2. /\ uses = [t \in Tickets |-> 0] /\ tries = [t \in Tickets |-> 0] /\ minted = [t \in Tickets |-> 0]
        /\ inflight = [c \in Clients |-> NotCalling]
    BY DEF StoresInit
  <1>3. StoresTypeOK
    BY <1>1 DEF StoresTypeOK
  <1>4. TriesBounded
    BY <1>2 DEF TriesBounded, Tolerated
  <1>5. TableBounded
    BY <1>1, FS_EmptySet DEF TableBounded
  <1>6. NotDisplaced
    BY <1>1 DEF NotDisplaced
  <1>7. Keyed /\ Dated /\ Counted /\ Fresh
    BY <1>1, <1>2 DEF Keyed, Dated, Counted, Fresh
  <1>8. CallsFit
    BY <1>2 DEF CallsFit, StoreCall, NotCalling
  <1> QED BY <1>2, <1>3, <1>4, <1>5, <1>6, <1>7, <1>8 DEF StoresInv, StoresBounded

(* The clock moves on. *)
LEMMA StoresTickInv == StoresInv /\ StoresTick => StoresInv'
  <1> SUFFICES ASSUME StoresInv, StoresTick PROVE StoresInv'
    OBVIOUS
  <1> USE StoresAssumption
  <1>1. /\ storeNow' = storeNow + 1
        /\ UNCHANGED <<store, table, serial, lastPrune, counter, inflight, uses, tries, minted>>
    BY DEF StoresTick
  <1>2. StoresTypeOK'
    BY <1>1, StoresTypes DEF StoresTypeOK, StoresInv, StoresBounded, TicketEntry
  <1>3. TriesBounded' /\ TableBounded'
    BY <1>1 DEF TriesBounded, TableBounded, Tolerated, StoresInv, StoresBounded
  <1>4. NotDisplaced'
    <2>1. \A t \in 1..serial : t \in Tickets /\ minted[t] \in Nat
      BY StoresTypes DEF Tickets
    <2>2. \A t \in 1..serial : storeNow + 1 - minted[t] < Ttl => storeNow - minted[t] < Ttl
      BY <2>1, StoresTypes
    <2> SUFFICES ASSUME store' \in {"one_time", "captcha", "pow", "webauthn"}, NEW t \in 1..serial',
                        uses'[t] = 0, tries'[t] < Tolerated', storeNow' - minted'[t] < Ttl,
                        Cardinality(NoEarlier(t)') < Cap
                 PROVE  t \in DOMAIN table'
      BY DEF NotDisplaced
    <2>3. NoEarlier(t)' = NoEarlier(t) /\ Tolerated' = Tolerated
      BY <1>1, Zenon DEF NoEarlier, Tolerated
    <2>4. /\ t \in 1..serial
          /\ storeNow + 1 - minted[t] < Ttl
      <3>1. t \in 1..serial
        BY <1>1
      <3>2. minted'[t] = minted[t]
        BY <1>1
      <3>3. storeNow + 1 - minted[t] < Ttl
        BY <1>1, <2>1, <3>1, <3>2, StoresTypes
      <3> QED BY <3>1, <3>3
    <2>5. storeNow - minted[t] < Ttl
      BY <2>2, <2>4
    <2> QED BY <1>1, <2>3, <2>4, <2>5 DEF NotDisplaced, StoresInv, StoresBounded
  <1>5. Keyed' /\ Dated' /\ Counted' /\ CallsFit'
    BY <1>1 DEF Keyed, Dated, Counted, CallsFit, StoreCall, StoresInv
  <1>6. Fresh'
    BY <1>1, StoresTypes DEF Fresh, StoresInv
  <1> QED BY <1>1, <1>2, <1>3, <1>4, <1>5, <1>6 DEF StoresInv, StoresBounded

(* A step that issues nothing, keeps a part of the table with at most the attempts changed
   and drops a ticket only for a reason keeps the invariant: the ticket was accepted, has
   used up its answers or is past its lifetime. *)
LEMMA ShrinkInv ==
    ASSUME StoresInv, store # "one_shot",
           UNCHANGED <<store, storeNow, serial, lastPrune, minted>>, counter' \in 0..MaxIssued,
           uses' \in [Tickets -> Nat], tries' \in [Tickets -> Nat],
           DOMAIN table' \subseteq DOMAIN table,
           \A k \in DOMAIN table' :
              /\ table'[k] \in TicketEntry /\ table'[k].ticket = table[k].ticket
              /\ table'[k].at = table[k].at /\ table'[k].expires = table[k].expires,
           \A t \in Tickets : /\ tries'[t] >= tries[t] /\ uses'[t] >= uses[t]
                              /\ tries'[t] <= Tolerated
                              /\ t > serial => tries'[t] = tries[t] /\ (store # "hotp" => uses'[t] = uses[t]),
           Counted', CallsFit',
           store \in {"one_time", "captcha", "pow", "webauthn"} =>
              \A t \in DOMAIN table \ DOMAIN table' :
                 uses'[t] > 0 \/ tries'[t] >= Tolerated \/ storeNow - minted[t] >= Ttl
    PROVE  StoresInv'
  <1> USE StoresAssumption
  <1>1. StoresTypeOK'
    BY DEF StoresTypeOK, StoresInv, StoresBounded
  <1>2. Tolerated' = Tolerated
    BY DEF Tolerated
  <1>3. TriesBounded'
    BY <1>2 DEF TriesBounded
  <1>4. TableBounded'
    <2> SUFFICES ASSUME store \in {"pow", "webauthn"}
                 PROVE  Cardinality(DOMAIN table') <= (IF store = "pow" THEN Cap + 1 ELSE Cap)
      BY DEF TableBounded
    <2>1. IsFiniteSet(DOMAIN table) /\ IsFiniteSet(DOMAIN table')
      BY TableFinite
    <2>2. /\ Cardinality(DOMAIN table') <= Cardinality(DOMAIN table)
          /\ Cardinality(DOMAIN table') \in Nat /\ Cardinality(DOMAIN table) \in Nat
      BY <2>1, FS_Subset, FS_CardinalityType
    <2>3. Cardinality(DOMAIN table) <= (IF store = "pow" THEN Cap + 1 ELSE Cap)
      BY DEF StoresInv, StoresBounded, TableBounded
    <2> QED BY <2>2, <2>3
  <1>5. NotDisplaced'
    <2> SUFFICES ASSUME store \in {"one_time", "captcha", "pow", "webauthn"}, NEW t \in 1..serial,
                        uses'[t] = 0, tries'[t] < Tolerated, storeNow - minted[t] < Ttl,
                        Cardinality(NoEarlier(t)') < Cap
                 PROVE  t \in DOMAIN table'
      BY <1>2 DEF NotDisplaced
    <2>1. t \in Tickets /\ NoEarlier(t)' = NoEarlier(t)
      BY StoresTypes DEF Tickets, NoEarlier
    <2>2. Tolerated \in Nat
      BY DEF Tolerated
    <2>3. /\ uses[t] \in Nat /\ uses'[t] \in Nat /\ uses[t] <= uses'[t] /\ minted[t] \in Nat
          /\ tries[t] \in Nat /\ tries'[t] \in Nat /\ tries[t] <= tries'[t]
      BY <2>1, StoresTypes
    <2>4. uses[t] = 0 /\ tries[t] < Tolerated
      BY <2>2, <2>3
    <2>5. t \in DOMAIN table
      BY <2>1, <2>4 DEF StoresInv, StoresBounded, NotDisplaced
    <2>6. ~ (uses'[t] > 0 \/ tries'[t] >= Tolerated \/ storeNow - minted[t] >= Ttl)
      BY <2>2, <2>3, StoresTypes
    <2> QED BY <2>5, <2>6
  <1>6. Keyed' /\ Dated'
    BY DEF Keyed, Dated, StoresInv
  <1>7. Fresh'
    BY DEF Fresh, StoresInv
  <1> QED BY <1>1, <1>3, <1>4, <1>5, <1>6, <1>7 DEF StoresInv, StoresBounded

(* Handing out a ticket keeps the invariant: the ticket is new and the table keeps what it
   held, but for entries past their lifetime and those that Cap tickets issued no earlier
   have pushed out. *)
LEMMA HandOutInv ==
    ASSUME StoresInv, store \notin {"one_shot", "hotp"}, serial < MaxIssued,
           NEW K \in SUBSET DOMAIN table, NEW k, NEW e \in TicketEntry,
           e.ticket = serial + 1, e.at = storeNow, e.expires = storeNow + Ttl, e.attempts = 0,
           IF store = "code" THEN k \in CodeKeys ELSE k = serial + 1,
           MintTicket(serial + 1), table' = Put(Keep(K), k, e),
           UNCHANGED <<store, storeNow, lastPrune, counter, uses, tries>>,
           CallsFit', TableBounded',
           store \in {"one_time", "captcha", "pow", "webauthn"} =>
              \A t \in DOMAIN table \ K :
                 storeNow - minted[t] >= Ttl \/ Cardinality(NoEarlier(t)') >= Cap
    PROVE  StoresInv'
  <1> USE StoresAssumption
  <1>1. /\ serial' = serial + 1 /\ serial + 1 \in Tickets /\ serial \in Nat
        /\ minted' = [minted EXCEPT ![serial + 1] = storeNow]
    BY StoresTypes DEF MintTicket, Tickets
  <1>2. /\ DOMAIN table' = K \cup {k} /\ table'[k] = e
        /\ \A x \in K : x # k => table'[x] = table[x]
    BY DEF Put, Keep
  <1>3. /\ minted' \in [Tickets -> Nat] /\ minted'[serial + 1] = storeNow
        /\ \A t \in Tickets : t # serial + 1 => minted'[t] = minted[t]
    BY <1>1, StoresTypes
  <1>4. \A x \in DOMAIN table : /\ table[x].ticket \in Tickets /\ table[x].ticket # serial + 1
                                /\ table[x].ticket <= serial
    <2> SUFFICES ASSUME NEW x \in DOMAIN table
                 PROVE  table[x].ticket \in Tickets /\ table[x].ticket # serial + 1 /\ table[x].ticket <= serial
      OBVIOUS
    <2>1. table[x].ticket \in Tickets /\ table[x].ticket \in Nat
      BY StoresTypes
    <2>2. table[x].ticket <= serial
      BY DEF StoresInv, Keyed
    <2> QED BY <1>1, <2>1, <2>2
  <1>5. StoresTypeOK'
    <2>1. \A x \in DOMAIN table' : table'[x] \in TicketEntry
      BY <1>2, StoresTypes
    <2>2. serial' \in 0..MaxIssued
      BY <1>1, StoresTypes
    <2> QED BY <2>1, <2>2 DEF StoresTypeOK, StoresInv, StoresBounded
  <1>6. TriesBounded'
    BY DEF TriesBounded, Tolerated, StoresInv, StoresBounded
  <1>7. NotDisplaced'
    <2> SUFFICES ASSUME store \in {"one_time", "captcha", "pow", "webauthn"}, NEW t \in 1..serial',
                        uses[t] = 0, tries[t] < Tolerated, storeNow - minted'[t] < Ttl,
                        Cardinality(NoEarlier(t)') < Cap
                 PROVE  t \in DOMAIN table'
      BY DEF NotDisplaced, Tolerated
    <2>1. CASE t = serial + 1
      BY <2>1, <1>2
    <2>2. CASE t # serial + 1
      <3>1. t \in 1..serial /\ t \in Tickets
        BY <1>1, <2>2, StoresTypes DEF Tickets
      <3>2. minted'[t] = minted[t]
        BY <1>3, <2>2, <3>1
      <3>3. NoEarlier(t) \subseteq NoEarlier(t)'
        <4> SUFFICES ASSUME NEW o \in NoEarlier(t) PROVE o \in NoEarlier(t)'
          OBVIOUS
        <4>1. o \in 1..serial /\ o # t /\ minted[o] >= minted[t]
          BY DEF NoEarlier
        <4>2. o \in Tickets /\ o # serial + 1 /\ o \in 1..serial'
          BY <1>1, <4>1, StoresTypes DEF Tickets
        <4> QED BY <1>3, <3>2, <4>1, <4>2 DEF NoEarlier
      <3>4. IsFiniteSet(NoEarlier(t)')
        <4>1. NoEarlier(t)' \in SUBSET (1..serial')
          BY DEF NoEarlier
        <4>2. IsFiniteSet(1..serial')
          BY <1>1, FS_Interval
        <4> QED BY <4>1, <4>2, FS_Subset
      <3>5. /\ Cardinality(NoEarlier(t)) <= Cardinality(NoEarlier(t)')
            /\ Cardinality(NoEarlier(t)) \in Nat /\ Cardinality(NoEarlier(t)') \in Nat
        BY <3>3, <3>4, FS_Subset, FS_CardinalityType
      <3>6. Cardinality(NoEarlier(t)) < Cap /\ ~ (Cardinality(NoEarlier(t)') >= Cap)
        BY <3>5
      <3>7. storeNow - minted[t] < Ttl /\ ~ (storeNow - minted[t] >= Ttl)
        BY <3>1, <3>2, StoresTypes
      <3>8. t \in DOMAIN table
        BY <3>1, <3>6, <3>7 DEF StoresInv, StoresBounded, NotDisplaced
      <3> QED BY <1>2, <3>6, <3>7, <3>8
    <2> QED BY <2>1, <2>2
  <1>8. Keyed'
    <2>1. \A x \in DOMAIN table' : table'[x].ticket <= serial'
      BY <1>1, <1>2, <1>4, StoresTypes
    <2>2. store # "code" => \A x \in DOMAIN table' : table'[x].ticket = x
      BY <1>2 DEF StoresInv, Keyed
    <2>3. store = "code" => /\ DOMAIN table' \subseteq CodeKeys
                            /\ \A i, j \in DOMAIN table' : table'[i].ticket = table'[j].ticket => i = j
      <3> SUFFICES ASSUME store = "code"
                   PROVE  /\ DOMAIN table' \subseteq CodeKeys
                          /\ \A i, j \in DOMAIN table' : table'[i].ticket = table'[j].ticket => i = j
        OBVIOUS
      <3>1. DOMAIN table \subseteq CodeKeys /\ k \in CodeKeys
            /\ \A i, j \in DOMAIN table : table[i].ticket = table[j].ticket => i = j
        BY DEF StoresInv, Keyed
      <3> QED BY <1>2, <1>4, <3>1
    <2> QED BY <2>1, <2>2, <2>3 DEF Keyed
  <1>9. Dated'
    <2> SUFFICES ASSUME NEW x \in DOMAIN table'
                 PROVE  /\ table'[x].expires = minted'[table'[x].ticket] + Ttl
                        /\ table'[x].at = minted'[table'[x].ticket]
      BY DEF Dated
    <2>1. CASE x = k
      BY <1>2, <1>3, <2>1
    <2>2. CASE x # k
      <3>1. x \in DOMAIN table /\ table'[x] = table[x]
        BY <1>2, <2>2
      <3>2. minted'[table[x].ticket] = minted[table[x].ticket]
        BY <1>3, <1>4, <3>1
      <3> QED BY <3>1, <3>2 DEF StoresInv, Dated
    <2> QED BY <2>1, <2>2
  <1>10. Counted'
    <2>1. tries[serial + 1] = 0
      BY <1>1 DEF StoresInv, Fresh
    <2> QED BY <1>2, <2>1 DEF Counted, StoresInv
  <1>11. Fresh'
    <2> SUFFICES ASSUME NEW t \in Tickets
                 PROVE  /\ minted'[t] <= storeNow
                        /\ t > serial' => tries[t] = 0 /\ uses[t] = 0
      BY DEF Fresh
    <2>1. minted[t] <= storeNow /\ (t > serial => tries[t] = 0 /\ uses[t] = 0)
      BY DEF StoresInv, Fresh
    <2>2. t > serial' => t > serial
      BY <1>1 DEF Tickets
    <2> QED BY <1>3, <2>1, <2>2, StoresTypes
  <1> QED BY <1>3, <1>5, <1>6, <1>7, <1>8, <1>9, <1>10, <1>11 DEF StoresInv, StoresBounded

(* Steps of the promise, from what they do to the tickets that are live. *)
LEMMA VoidStep ==
    ASSUME UNCHANGED uses, \A x \in Tickets : Live(x)' => Live(x)
    PROVE  TicketPromise!Next
  <1> DEFINE S == {x \in Tickets : ~ Live(x)'}
  <1>1. TicketPromise!Void(S)
    <2>1. TicketsLeft' = [x \in Tickets |-> IF x \in S THEN 0 ELSE TicketsLeft[x]]
      BY DEF TicketsLeft
    <2> QED BY <2>1 DEF TicketPromise!Void, TicketPromise!VoidedIn
  <1>2. S \in SUBSET Tickets
    OBVIOUS
  <1> QED BY <1>1, <1>2 DEF TicketPromise!Next

(* An acceptance spends a ticket that was live and is not live afterwards. *)
LEMMA UseStep ==
    ASSUME NEW t \in Tickets, Live(t), ~ Live(t)', AcceptTicket(t),
           \A x \in Tickets : Live(x)' => Live(x)
    PROVE  TicketPromise!Next
  <1> DEFINE S == {x \in Tickets : ~ Live(x)'}
  <1>1. TicketPromise!Use(t, S)
    <2>1. TicketsLeft' = [x \in Tickets |-> IF x \in S THEN 0 ELSE [TicketsLeft EXCEPT ![t] = @ - 1][x]]
      BY DEF TicketsLeft
    <2>2. TicketsLeft[t] > 0
      BY DEF TicketsLeft
    <2> QED BY <2>1, <2>2 DEF TicketPromise!Use, TicketPromise!VoidedIn, AcceptTicket
  <1>2. S \in SUBSET Tickets
    OBVIOUS
  <1> QED BY <1>1, <1>2 DEF TicketPromise!Next

(* A ticket is handed out that never was live and was never accepted. *)
LEMMA IssueStep ==
    ASSUME NEW t \in Tickets, ~ Live(t), uses[t] = 0, UNCHANGED uses,
           \A x \in Tickets : x # t => (Live(x)' => Live(x))
    PROVE  TicketPromise!Next
  <1> DEFINE S == {x \in Tickets : ~ Live(x)'}
  <1>1. TicketsLeft'[t] \in Nat
    BY DEF TicketsLeft
  <1>2. TicketPromise!Issue(t, TicketsLeft'[t], S)
    <2>1. TicketsLeft' = [[x \in Tickets |-> IF x \in S THEN 0 ELSE TicketsLeft[x]]
                             EXCEPT ![t] = TicketsLeft'[t]]
      BY DEF TicketsLeft
    <2>2. TicketsLeft[t] = 0
      BY DEF TicketsLeft
    <2> QED BY <2>1, <2>2 DEF TicketPromise!Issue, TicketPromise!VoidedIn
  <1>3. S \in SUBSET Tickets
    OBVIOUS
  <1> QED BY <1>1, <1>2, <1>3 DEF TicketPromise!Next

(* Handing out a ticket is an issue of the promise, whatever it drops. *)
LEMMA HandOutRefines ==
    ASSUME StoresInv, store \notin {"one_shot", "hotp"}, serial < MaxIssued,
           NEW K \in SUBSET DOMAIN table, NEW k, NEW e, e.ticket = serial + 1,
           table' = Put(Keep(K), k, e), UNCHANGED <<store, uses>>
    PROVE  TicketPromise!Next
  <1>1. serial + 1 \in Tickets
    BY StoresTypes DEF Tickets
  <1>2. ~ Live(serial + 1) /\ uses[serial + 1] = 0
    <2>1. \A x \in DOMAIN table : table[x].ticket \in Nat /\ table[x].ticket <= serial
      BY StoresTypes DEF StoresInv, Keyed
    <2>2. ~ Live(serial + 1)
      BY <2>1, StoresTypes DEF Live
    <2> QED BY <1>1, <2>2, StoresTypes DEF StoresInv, Fresh
  <1>3. \A x \in Tickets : x # serial + 1 => (Live(x)' => Live(x))
    <2> SUFFICES ASSUME NEW x \in Tickets, x # serial + 1, Live(x)' PROVE Live(x)
      OBVIOUS
    <2>1. PICK j \in DOMAIN table' : table'[j].ticket = x
      BY DEF Live
    <2>2. j \in DOMAIN table /\ table'[j] = table[j]
      BY <2>1 DEF Put, Keep
    <2> QED BY <2>1, <2>2 DEF Live
  <1> QED BY <1>1, <1>2, <1>3, IssueStep

(* The entry a store makes for a new ticket. *)
LEMMA NewEntryType ==
    ASSUME StoresInv, serial < MaxIssued
    PROVE  /\ NewEntry(serial + 1, Ttl) \in TicketEntry
           /\ NewEntry(serial + 1, Ttl).ticket = serial + 1 /\ NewEntry(serial + 1, Ttl).at = storeNow
           /\ NewEntry(serial + 1, Ttl).expires = storeNow + Ttl /\ NewEntry(serial + 1, Ttl).attempts = 0
  <1> DEFINE x == storeNow + Ttl
  <1>1. x \in Nat /\ storeNow \in Nat
    BY StoresTypes
  <1>2. serial + 1 \in Tickets
    BY StoresTypes DEF Tickets
  <1>3. NewEntry(serial + 1, Ttl) = [ticket |-> serial + 1, at |-> storeNow, expires |-> x, attempts |-> 0,
                                     purpose |-> "Register", user |-> Unbound]
    BY DEF NewEntry
  <1> HIDE DEF x
  <1>4. NewEntry(serial + 1, Ttl) \in TicketEntry
    BY <1>1, <1>2, <1>3 DEF TicketEntry, Purposes, Bindings, Unbound
  <1> QED BY <1>3, <1>4 DEF x

(* What a sweep drops is past its lifetime. *)
LEMMA SweptIsPast ==
    ASSUME StoresInv, store \notin {"one_shot", "code"}
    PROVE  /\ \A t \in DOMAIN table \ UnexpiredKeys : storeNow - minted[t] >= Ttl
           /\ \A t \in DOMAIN table \ WithinTtl : storeNow - minted[t] >= Ttl
  <1>1. \A t \in DOMAIN table : /\ table[t].at = minted[t] /\ table[t].expires = minted[t] + Ttl
                                /\ minted[t] \in Nat
    BY StoresTypes DEF StoresInv, Keyed, Dated
  <1> QED BY <1>1, StoresTypes DEF UnexpiredKeys, WithinTtl

(* The stores without a cap hand out a ticket. *)
LEMMA PlainIssue ==
    ASSUME StoresInv, OneTimeIssue \/ CaptchaGenerate \/ CredentialGenerate
    PROVE  StoresInv' /\ TicketPromise!Next
  <1> DEFINE K == IF store = "one_time" THEN UnexpiredKeys
                  ELSE IF store = "captcha" THEN WithinTtl ELSE DOMAIN table
  <1>1. /\ store \in {"one_time", "captcha", "credential"} /\ serial < MaxIssued
        /\ MintTicket(serial + 1)
        /\ UNCHANGED <<store, storeNow, lastPrune, counter, inflight, uses, tries>>
    BY DEF OneTimeIssue, CaptchaGenerate, CredentialGenerate
  <1>2. table' = Put(Keep(K), serial + 1, NewEntry(serial + 1, Ttl))
    <2>1. CASE OneTimeIssue
      BY <2>1 DEF OneTimeIssue
    <2>2. CASE CaptchaGenerate
      BY <2>2 DEF CaptchaGenerate
    <2>3. CASE CredentialGenerate
      BY <2>3 DEF CredentialGenerate, Put, Keep
    <2> QED BY <2>1, <2>2, <2>3
  <1>3. K \in SUBSET DOMAIN table
    BY DEF UnexpiredKeys, WithinTtl
  <1>4. \A t \in DOMAIN table \ K : storeNow - minted[t] >= Ttl
    BY <1>1, SweptIsPast
  <1>5. CallsFit' /\ TableBounded'
    BY <1>1 DEF CallsFit, StoreCall, TableBounded, StoresInv
  <1> HIDE DEF K
  <1>6. StoresInv'
    BY <1>1, <1>2, <1>3, <1>4, <1>5, NewEntryType, HandOutInv
  <1> QED BY <1>1, <1>2, <1>3, <1>6, NewEntryType, HandOutRefines

(* A code replaces the recipient's pending one. *)
LEMMA CodeIssue ==
    ASSUME StoresInv, NEW k \in CodeKeys, StoreCode(k)
    PROVE  StoresInv' /\ TicketPromise!Next
  <1>1. /\ store = "code" /\ serial < MaxIssued /\ MintTicket(serial + 1)
        /\ table' = Put(Keep(UnexpiredKeys), k, NewEntry(serial + 1, Ttl))
        /\ UNCHANGED <<store, storeNow, lastPrune, counter, inflight, uses, tries>>
    BY DEF StoreCode
  <1>2. UnexpiredKeys \in SUBSET DOMAIN table
    BY DEF UnexpiredKeys
  <1>3. CallsFit' /\ TableBounded'
    BY <1>1 DEF CallsFit, StoreCall, TableBounded, StoresInv
  <1>4. StoresInv'
    BY <1>1, <1>2, <1>3, NewEntryType, HandOutInv
  <1> QED BY <1>1, <1>2, <1>4, NewEntryType, HandOutRefines

(* How many entries are left once room is made, and with the new one. *)
LEMMA RoomMade ==
    ASSUME StoresInv, store \in Capped, NEW S \in SUBSET DOMAIN table,
           Cardinality(S) = (IF store = "pow" THEN PowEvicts ELSE WebAuthnEvicts), NEW x, x \notin DOMAIN table
    PROVE  /\ IsFiniteSet((DOMAIN table \ S) \cup {x})
           /\ Cardinality((DOMAIN table \ S) \cup {x}) \in Nat
           /\ Cardinality((DOMAIN table \ S) \cup {x}) <= (IF store = "pow" THEN Cap + 1 ELSE Cap)
           /\ S # {} => Cardinality((DOMAIN table \ S) \cup {x}) >= Cap
  <1> USE StoresAssumption
  <1> DEFINE D == DOMAIN table
             R == D \ S
             d == Cardinality(D)
             n == Cardinality(S)
  <1>1. IsFiniteSet(D) /\ IsFiniteSet(S) /\ IsFiniteSet(R) /\ d \in Nat /\ n \in Nat
    BY TableFinite, FS_Subset, FS_CardinalityType DEF Capped
  <1>2. Cardinality(R) = d - n
    <2>1. S \cap D = S /\ R \subseteq D
      OBVIOUS
    <2>2. Cardinality(D \ S) = Cardinality(D) - Cardinality(D \cap S)
      BY <1>1, FS_Difference
    <2>3. D \cap S = S
      OBVIOUS
    <2> QED BY <2>2, <2>3
  <1>3. x \notin R /\ IsFiniteSet(R \cup {x}) /\ Cardinality(R \cup {x}) = Cardinality(R) + 1
    BY <1>1, FS_AddElement
  <1>4. n = IF store = "pow" THEN (IF d >= Cap THEN d - Cap ELSE 0)
            ELSE IF d >= Cap THEN d - (Cap - 1) ELSE 0
    BY DEF PowEvicts, WebAuthnEvicts
  <1>5. S # {} => n # 0
    BY <1>1, FS_EmptySet
  <1> HIDE DEF D, R, d, n
  <1>6. /\ Cardinality(R \cup {x}) = d - n + 1
        /\ Cardinality(R \cup {x}) \in Nat
        /\ Cardinality(R \cup {x}) <= (IF store = "pow" THEN Cap + 1 ELSE Cap)
        /\ n # 0 => Cardinality(R \cup {x}) >= Cap
    BY <1>1, <1>2, <1>3, <1>4
  <1> QED BY <1>3, <1>5, <1>6 DEF D, R

(* An insertion under the cap: whoever is pushed out has been followed by Cap tickets. *)
LEMMA CappedIssue ==
    ASSUME StoresInv, NEW c \in Clients, store \in Capped, NEW S \in SUBSET DOMAIN table,
           Oldest(IF store = "pow" THEN PowEvicts ELSE WebAuthnEvicts, S),
           NEW e \in TicketEntry, e.ticket = serial + 1, e.at = storeNow, e.expires = storeNow + Ttl,
           e.attempts = 0, Insert(c, S, e)
    PROVE  StoresInv' /\ TicketPromise!Next
  <1> USE StoresAssumption
  <1> DEFINE K == DOMAIN table \ S
             s == serial + 1
  <1>1. /\ serial < MaxIssued /\ MintTicket(s)
        /\ table' = Put(Keep(K), s, e)
        /\ inflight' = [inflight EXCEPT ![c] = NotCalling]
        /\ UNCHANGED <<store, storeNow, lastPrune, counter, uses, tries>>
    BY DEF Insert
  <1>2. K \in SUBSET DOMAIN table /\ store \in {"pow", "webauthn"}
    BY DEF Capped
  <1>3. s \notin DOMAIN table /\ DOMAIN table \subseteq 1..serial /\ s \in Tickets
        /\ serial \in Nat
    <2>1. DOMAIN table \subseteq 1..serial
      BY <1>2, TableFinite
    <2>2. serial \in Nat /\ MaxIssued \in Nat /\ serial < MaxIssued
      BY <1>1, StoresTypes
    <2>3. s \notin 1..serial /\ s \in Tickets
      BY <2>2 DEF Tickets
    <2> QED BY <2>1, <2>2, <2>3
  <1>31. \A k \in DOMAIN table : k \in 1..serial /\ k \in 1..s /\ k # s /\ k \in Tickets
    <2>1. serial \in Nat /\ MaxIssued \in Nat /\ serial < MaxIssued
      BY <1>1, StoresTypes
    <2>2. \A k \in 1..serial : k \in 1..s /\ k # s /\ k \in Tickets
      BY <2>1 DEF Tickets
    <2> QED BY <1>3, <2>2
  <1>4. /\ Cardinality(S) = (IF store = "pow" THEN PowEvicts ELSE WebAuthnEvicts)
        /\ \A k \in S, j \in K : table[k].at <= table[j].at
    BY DEF Oldest
  <1>5. /\ IsFiniteSet(K \cup {s}) /\ Cardinality(K \cup {s}) \in Nat
        /\ Cardinality(K \cup {s}) <= (IF store = "pow" THEN Cap + 1 ELSE Cap)
        /\ S # {} => Cardinality(K \cup {s}) >= Cap
    BY <1>3, <1>4, RoomMade
  <1>6. TableBounded'
    <2>1. DOMAIN table' = K \cup {s}
      BY <1>1 DEF Put, Keep
    <2> QED BY <1>1, <1>2, <1>5, <2>1 DEF TableBounded
  <1>7. CallsFit'
    <2>1. NotCalling \in StoreCall
      BY DEF NotCalling, StoreCall
    <2> QED BY <1>1, <2>1 DEF CallsFit, StoresInv, NotCalling, StoreCall
  <1>8. \A t \in DOMAIN table \ K : Cardinality(NoEarlier(t)') >= Cap
    <2> SUFFICES ASSUME NEW t \in DOMAIN table \ K PROVE Cardinality(NoEarlier(t)') >= Cap
      OBVIOUS
    <2>1. t \in S /\ t # s /\ t \in 1..serial /\ t \in Tickets
      BY <1>31
    <2>2. minted' = [minted EXCEPT ![s] = storeNow] /\ serial' = s
      BY <1>1 DEF MintTicket
    <2>3. \A k \in DOMAIN table : k \in 1..serial' /\ k # s /\ minted'[k] = table[k].at /\ table[k].at \in Nat
      <3> SUFFICES ASSUME NEW k \in DOMAIN table
                   PROVE  k \in 1..serial' /\ k # s /\ minted'[k] = table[k].at /\ table[k].at \in Nat
        OBVIOUS
      <3>1. table[k].ticket = k /\ table[k].at = minted[table[k].ticket]
        BY <1>2 DEF StoresInv, Keyed, Dated
      <3>2. k \in 1..serial' /\ k # s /\ k \in Tickets
        BY <1>31, <2>2
      <3> QED BY <2>2, <3>1, <3>2, StoresTypes
    <2>4. minted'[s] = storeNow /\ s \in 1..serial'
      BY <1>3, <2>2, StoresTypes
    <2>5. minted[t] <= storeNow /\ minted'[t] = minted[t] /\ minted[t] \in Nat
      BY <1>3, <2>1, <2>2, StoresTypes DEF StoresInv, Fresh
    <2> HIDE DEF s
    <2>6. K \cup {s} \subseteq NoEarlier(t)'
      <3> SUFFICES ASSUME NEW o \in K \cup {s} PROVE o \in 1..serial' /\ o # t /\ minted'[o] >= minted'[t]
        BY DEF NoEarlier
      <3>1. CASE o = s
        BY <2>1, <2>4, <2>5, <3>1, StoresTypes
      <3>2. CASE o \in K
        <4>1. table[t].at <= table[o].at
          BY <1>4, <2>1, <3>2
        <4>2. o # t
          BY <2>1, <3>2
        <4> QED BY <2>3, <3>2, <4>1, <4>2
      <3> QED BY <3>1, <3>2
    <2>7. IsFiniteSet(NoEarlier(t)')
      <3>1. NoEarlier(t)' \in SUBSET (1..serial')
        BY DEF NoEarlier
      <3>2. IsFiniteSet(1..serial')
        BY <1>3, <2>2, FS_Interval DEF s
      <3> QED BY <3>1, <3>2, FS_Subset
    <2>8. /\ Cardinality(K \cup {s}) <= Cardinality(NoEarlier(t)')
          /\ Cardinality(NoEarlier(t)') \in Nat
      BY <2>6, <2>7, FS_Subset, FS_CardinalityType
    <2>9. Cardinality(K \cup {s}) >= Cap
      BY <1>5, <2>1
    <2> QED BY <1>5, <2>8, <2>9
  <1>9. StoresInv'
    BY <1>1, <1>2, <1>6, <1>7, <1>8, HandOutInv
  <1> QED BY <1>1, <1>2, <1>9, HandOutRefines

(* Seeds and challenges. *)
LEMMA InsertsHold ==
    ASSUME StoresInv, NEW c \in Clients,
           PowInsert(c) \/ \E p \in Purposes, u \in Bindings : WebAuthnInsert(c, p, u)
    PROVE  StoresInv' /\ TicketPromise!Next
  <1>1. CASE PowInsert(c)
    <2>1. PICK S \in SUBSET DOMAIN table : Oldest(PowEvicts, S) /\ Insert(c, S, NewEntry(serial + 1, Ttl))
      BY <1>1 DEF PowInsert
    <2>2. store = "pow" /\ serial < MaxIssued
      BY <1>1, <2>1 DEF PowInsert, Insert
    <2> QED BY <2>1, <2>2, NewEntryType, CappedIssue DEF Capped
  <1>2. CASE \E p \in Purposes, u \in Bindings : WebAuthnInsert(c, p, u)
    <2>1. PICK p \in Purposes, u \in Bindings : WebAuthnInsert(c, p, u)
      BY <1>2
    <2> DEFINE e == [NewEntry(serial + 1, Ttl) EXCEPT !.purpose = p, !.user = u]
    <2>2. PICK S \in SUBSET DOMAIN table : Oldest(WebAuthnEvicts, S) /\ Insert(c, S, e)
      BY <2>1 DEF WebAuthnInsert
    <2>3. store = "webauthn" /\ serial < MaxIssued
      BY <2>1, <2>2 DEF WebAuthnInsert, Insert
    <2>4. /\ e \in TicketEntry /\ e.ticket = serial + 1 /\ e.at = storeNow
          /\ e.expires = storeNow + Ttl /\ e.attempts = 0
      BY <2>3, NewEntryType DEF TicketEntry
    <2> HIDE DEF e
    <2> QED BY <2>2, <2>3, <2>4, CappedIssue DEF Capped
  <1> QED BY <1>1, <1>2

(* Two entries are not of the same ticket. *)
LEMMA TicketsDiffer ==
    ASSUME StoresInv, NEW j \in DOMAIN table, NEW k \in DOMAIN table, j # k
    PROVE  table[j].ticket # table[k].ticket
  BY DEF StoresInv, Keyed

(* Without an issue, and outside the JTI and counter stores, what is live was live. *)
LEMMA NothingRevives ==
    ASSUME store \notin {"one_shot", "hotp"}, UNCHANGED store, DOMAIN table' \subseteq DOMAIN table,
           \A k \in DOMAIN table' : table'[k].ticket = table[k].ticket
    PROVE  \A x \in Tickets : Live(x)' => Live(x)
  BY DEF Live

(* Counting one more of a ticket. *)
LEMMA OneMore ==
    ASSUME NEW f \in [Tickets -> Nat], NEW t \in Tickets
    PROVE  /\ [f EXCEPT ![t] = @ + 1] \in [Tickets -> Nat]
           /\ [f EXCEPT ![t] = @ + 1][t] = f[t] + 1
           /\ \A x \in Tickets : x # t => [f EXCEPT ![t] = @ + 1][x] = f[x]
           /\ \A x \in Tickets : [f EXCEPT ![t] = @ + 1][x] >= f[x]
  BY DEF Tickets

(* A sweep. *)
LEMMA SweptHolds ==
    ASSUME StoresInv, store \notin {"one_shot", "hotp"}, NEW K \in SUBSET DOMAIN table,
           DOMAIN table' = K, \A x \in K : table'[x] = table[x],
           UNCHANGED <<store, storeNow, serial, lastPrune, counter, uses, tries, minted>>,
           CallsFit',
           store \in {"one_time", "captcha", "pow", "webauthn"} =>
              \A t \in DOMAIN table \ K : storeNow - minted[t] >= Ttl
    PROVE  StoresInv' /\ TicketPromise!Next
  <1>1. DOMAIN table' = K /\ \A k \in K : table'[k] = table[k]
    OBVIOUS
  <1>2. Counted'
    BY <1>1 DEF Counted, StoresInv
  <1>3. \A t \in Tickets : tries[t] \in Nat /\ uses[t] \in Nat /\ tries[t] <= Tolerated
    BY StoresTypes DEF StoresInv, StoresBounded, TriesBounded
  <1>4. \A k \in DOMAIN table' : table'[k] \in TicketEntry
    BY <1>1, StoresTypes
  <1>5. counter' \in 0..MaxIssued
    BY DEF StoresInv, StoresBounded, StoresTypeOK
  <1>6. StoresInv'
    BY <1>1, <1>2, <1>3, <1>4, <1>5, StoresTypes, ShrinkInv
  <1> QED BY <1>1, <1>6, NothingRevives, VoidStep

(* An answer that consumes its ticket. *)
LEMMA AnsweredHolds ==
    ASSUME StoresInv, store \notin {"one_shot", "hotp"}, NEW k \in DOMAIN table,
           NEW K \in SUBSET (DOMAIN table \ {k}), DOMAIN table' = K, \A x \in K : table'[x] = table[x],
           NEW t, t = table[k].ticket,
           uses' = uses \/ AcceptTicket(t), tries' = tries \/ (Try(t) /\ tries[t] < Tolerated),
           UNCHANGED <<store, storeNow, serial, lastPrune, counter, inflight, minted>>,
           store \in {"one_time", "captcha", "pow", "webauthn"} =>
              /\ \A x \in DOMAIN table \ K : x # k => storeNow - minted[x] >= Ttl
              /\ AcceptTicket(t) \/ tries'[t] >= Tolerated \/ storeNow - minted[t] >= Ttl
    PROVE  StoresInv' /\ TicketPromise!Next
  <1>0. t \in Tickets /\ Tolerated \in Nat /\ t \in Nat /\ serial \in Nat
    BY StoresTypes DEF Tolerated
  <1>1. DOMAIN table' = K /\ \A x \in K : table'[x] = table[x]
    OBVIOUS
  <1>2. /\ uses' \in [Tickets -> Nat] /\ \A x \in Tickets : uses'[x] >= uses[x]
        /\ \A x \in Tickets : x # t => uses'[x] = uses[x]
        /\ AcceptTicket(t) => uses'[t] > 0
    <2>1. CASE uses' = uses
      BY <2>1, <1>0, StoresTypes, OneMore DEF AcceptTicket
    <2>2. CASE AcceptTicket(t)
      BY <2>2, <1>0, StoresTypes, OneMore DEF AcceptTicket
    <2> QED BY <2>1, <2>2
  <1>3. /\ tries' \in [Tickets -> Nat] /\ \A x \in Tickets : tries'[x] >= tries[x]
        /\ \A x \in Tickets : x # t => tries'[x] = tries[x]
        /\ \A x \in Tickets : tries'[x] <= Tolerated
    <2>0. \A x \in Tickets : tries[x] \in Nat /\ tries[x] <= Tolerated
      BY StoresTypes DEF StoresInv, StoresBounded, TriesBounded
    <2>1. CASE tries' = tries
      BY <2>0, <2>1, StoresTypes
    <2>2. CASE Try(t) /\ tries[t] < Tolerated
      <3>1. tries' = [tries EXCEPT ![t] = @ + 1]
        BY <2>2 DEF Try
      <3>2. /\ tries' \in [Tickets -> Nat] /\ tries'[t] = tries[t] + 1
            /\ \A x \in Tickets : x # t => tries'[x] = tries[x]
            /\ \A x \in Tickets : tries'[x] >= tries[x]
        BY <1>0, <3>1, StoresTypes, OneMore
      <3>3. tries[t] + 1 <= Tolerated
        BY <1>0, <2>0, <2>2
      <3> QED BY <2>0, <3>2, <3>3
    <2> QED BY <2>1, <2>2
  <1>4. \A x \in K : table[x].ticket # t /\ table[x].ticket \in Tickets
    BY TicketsDiffer, StoresTypes
  <1>5. Counted'
    BY <1>1, <1>3, <1>4 DEF Counted, StoresInv
  <1>6. t <= serial
    BY DEF StoresInv, Keyed
  <1>7. \A x \in Tickets : x > serial => tries'[x] = tries[x] /\ uses'[x] = uses[x]
    <2>1. \A x \in Tickets : x > serial => x # t
      BY <1>0, <1>6, StoresTypes
    <2> QED BY <1>2, <1>3, <2>1
  <1>8. CallsFit'
    BY DEF CallsFit, StoreCall, StoresInv
  <1>9. \A x \in DOMAIN table' : table'[x] \in TicketEntry
    BY <1>1, StoresTypes
  <1>10. counter' \in 0..MaxIssued
    BY DEF StoresInv, StoresBounded, StoresTypeOK
  <1>11. store \in {"one_time", "captcha", "pow", "webauthn"} =>
            \A x \in DOMAIN table \ DOMAIN table' :
               uses'[x] > 0 \/ tries'[x] >= Tolerated \/ storeNow - minted[x] >= Ttl
    <2> SUFFICES ASSUME store \in {"one_time", "captcha", "pow", "webauthn"}, NEW x \in DOMAIN table \ K
                 PROVE  uses'[x] > 0 \/ tries'[x] >= Tolerated \/ storeNow - minted[x] >= Ttl
      BY <1>1
    <2>1. CASE x = k
      <3>1. t = k
        BY DEF StoresInv, Keyed
      <3> QED BY <1>2, <2>1, <3>1
    <2>2. CASE x # k
      BY <2>2
    <2> QED BY <2>1, <2>2
  <1>12. StoresInv'
    BY <1>1, <1>2, <1>3, <1>5, <1>7, <1>8, <1>9, <1>10, <1>11, ShrinkInv
  <1>13. \A x \in Tickets : Live(x)' => Live(x)
    BY <1>1, NothingRevives
  <1>14. Live(t) /\ ~ Live(t)'
    BY <1>1, <1>4 DEF Live
  <1>15. TicketPromise!Next
    <2>1. CASE uses' = uses
      BY <2>1, <1>13, VoidStep
    <2>2. CASE AcceptTicket(t)
      BY <2>2, <1>0, <1>13, <1>14, UseStep
    <2> QED BY <2>1, <2>2
  <1> QED BY <1>12, <1>15

(* A wrong answer to a captcha or a code: one attempt fewer. *)
LEMMA WrongHolds ==
    ASSUME StoresInv, store \in {"captcha", "code"}, NEW K \in SUBSET DOMAIN table, NEW k \in K,
           DOMAIN table' = K, table'[k] = [table[k] EXCEPT !.attempts = @ + 1],
           \A x \in K : x # k => table'[x] = table[x],
           Try(table[k].ticket), table[k].attempts < MaxAttempts,
           UNCHANGED <<store, storeNow, serial, lastPrune, counter, inflight, uses, minted>>,
           store = "captcha" => \A x \in DOMAIN table \ K : storeNow - minted[x] >= Ttl
    PROVE  StoresInv' /\ TicketPromise!Next
  <1> DEFINE t == table[k].ticket
             n == table[k].attempts + 1
  <1>0. /\ t \in Tickets /\ t \in Nat /\ serial \in Nat /\ n \in Nat /\ n <= MaxAttempts
        /\ MaxAttempts \in Nat /\ tries[t] + 1 = n
    <2>1. tries[t] = table[k].attempts
      BY DEF Counted, StoresInv
    <2> QED BY <2>1, StoresTypes
  <1>1. /\ table'[k] = [table[k] EXCEPT !.attempts = n] /\ table[k] \in TicketEntry
    BY StoresTypes
  <1>2. tries' = [tries EXCEPT ![t] = @ + 1]
    BY DEF Try
  <1>3. /\ tries' \in [Tickets -> Nat] /\ tries'[t] = n
        /\ \A x \in Tickets : x # t => tries'[x] = tries[x]
        /\ \A x \in Tickets : tries'[x] >= tries[x]
    BY <1>0, <1>2, StoresTypes, OneMore
  <1> HIDE DEF n
  <1>4. /\ table'[k] \in TicketEntry /\ table'[k].ticket = t /\ table'[k].attempts = n
        /\ table'[k].at = table[k].at /\ table'[k].expires = table[k].expires
    BY <1>0, <1>1 DEF TicketEntry
  <1>5. \A x \in K : /\ table'[x] \in TicketEntry /\ table'[x].ticket = table[x].ticket
                     /\ table'[x].at = table[x].at /\ table'[x].expires = table[x].expires
    BY <1>4, StoresTypes
  <1>6. \A x \in K : x # k => table[x].ticket # t /\ table[x].ticket \in Tickets
    BY TicketsDiffer, StoresTypes
  <1>7. Counted'
    <2> SUFFICES ASSUME NEW x \in K PROVE tries'[table'[x].ticket] = table'[x].attempts
      BY DEF Counted
    <2>1. CASE x = k
      BY <1>3, <1>4, <2>1
    <2>2. CASE x # k
      <3>1. tries[table[x].ticket] = table[x].attempts
        BY DEF Counted, StoresInv
      <3> QED BY <1>3, <1>6, <2>2, <3>1
    <2> QED BY <2>1, <2>2
  <1>8. t <= serial
    BY DEF StoresInv, Keyed
  <1>9. \A x \in Tickets : x > serial => tries'[x] = tries[x]
    <2>1. \A x \in Tickets : x > serial => x # t
      BY <1>0, <1>8, StoresTypes
    <2> QED BY <1>3, <2>1
  <1>10. CallsFit'
    BY DEF CallsFit, StoreCall, StoresInv
  <1>11. counter' \in 0..MaxIssued
    BY DEF StoresInv, StoresBounded, StoresTypeOK
  <1>12. \A x \in Tickets : tries'[x] <= Tolerated
    <2>1. \A x \in Tickets : tries[x] <= Tolerated
      BY DEF StoresInv, StoresBounded, TriesBounded
    <2>2. Tolerated = MaxAttempts
      BY DEF Tolerated
    <2> QED BY <1>0, <1>3, <2>1, <2>2
  <1>13. uses' \in [Tickets -> Nat] /\ \A x \in Tickets : uses'[x] >= uses[x]
    BY StoresTypes
  <1> HIDE DEF t
  <1>14. StoresInv'
    BY <1>3, <1>5, <1>7, <1>9, <1>10, <1>11, <1>12, <1>13, ShrinkInv
  <1> QED BY <1>5, <1>14, NothingRevives, VoidStep

(* Sweeps on their own, and the one before an insertion. *)
LEMMA SweepsHold ==
    ASSUME StoresInv, OneTimeCleanup \/ CaptchaCleanup \/ \E c \in Clients : IssuePrune(c)
    PROVE  StoresInv' /\ TicketPromise!Next
  <1>1. CASE OneTimeCleanup
    <2>1. /\ store = "one_time" /\ table' = Keep(UnexpiredKeys)
          /\ UNCHANGED <<store, storeNow, serial, lastPrune, counter, inflight, uses, tries, minted>>
      BY <1>1 DEF OneTimeCleanup
    <2>2. UnexpiredKeys \in SUBSET DOMAIN table /\ DOMAIN table' = UnexpiredKeys
          /\ \A x \in UnexpiredKeys : table'[x] = table[x]
      BY <2>1 DEF UnexpiredKeys, Keep
    <2>3. CallsFit'
      BY <2>1 DEF CallsFit, StoreCall, StoresInv
    <2> QED BY <2>1, <2>2, <2>3, SweptIsPast, SweptHolds
  <1>2. CASE CaptchaCleanup
    <2>1. /\ store = "captcha" /\ table' = Keep(WithinTtl)
          /\ UNCHANGED <<store, storeNow, serial, lastPrune, counter, inflight, uses, tries, minted>>
      BY <1>2 DEF CaptchaCleanup
    <2>2. WithinTtl \in SUBSET DOMAIN table /\ DOMAIN table' = WithinTtl
          /\ \A x \in WithinTtl : table'[x] = table[x]
      BY <2>1 DEF WithinTtl, Keep
    <2>3. CallsFit'
      BY <2>1 DEF CallsFit, StoreCall, StoresInv
    <2> QED BY <2>1, <2>2, <2>3, SweptIsPast, SweptHolds
  <1>3. ASSUME NEW c \in Clients, IssuePrune(c) PROVE StoresInv' /\ TicketPromise!Next
    <2>1. /\ store \in {"pow", "webauthn"} /\ table' = Keep(WithinTtl)
          /\ inflight' = [inflight EXCEPT ![c].op = "insert"]
          /\ UNCHANGED <<store, storeNow, serial, lastPrune, counter, uses, tries, minted>>
      BY <1>3 DEF IssuePrune, Capped
    <2>2. WithinTtl \in SUBSET DOMAIN table /\ DOMAIN table' = WithinTtl
          /\ \A x \in WithinTtl : table'[x] = table[x]
      BY <2>1 DEF WithinTtl, Keep
    <2>3. CallsFit'
      <3>1. [inflight[c] EXCEPT !.op = "insert"] \in StoreCall
            /\ [inflight[c] EXCEPT !.op = "insert"].op = "insert"
        BY DEF CallsFit, StoreCall, StoresInv
      <3>2. inflight' = [inflight EXCEPT ![c] = [inflight[c] EXCEPT !.op = "insert"]]
        BY <2>1
      <3> QED BY <2>1, <3>1, <3>2 DEF CallsFit, StoresInv
    <2> QED BY <2>1, <2>2, <2>3, SweptIsPast, SweptHolds
  <1> QED BY <1>1, <1>2, <1>3

(* Claims of a token, a seed or a challenge: one answer each. *)
LEMMA ClaimsHold ==
    ASSUME StoresInv, NEW t \in DOMAIN table, store \in {"one_time", "pow", "webauthn"},
           table' = Without(t), Try(t), AcceptTicket(t) \/ UNCHANGED uses,
           UNCHANGED <<store, storeNow, serial, lastPrune, counter, inflight, minted>>
    PROVE  StoresInv' /\ TicketPromise!Next
  <1>1. t = table[t].ticket /\ tries[t] = 0 /\ Tolerated = 1 /\ t \in Tickets
    BY StoresTypes DEF StoresInv, Keyed, Counted, Tolerated
  <1>2. tries'[t] = 1
    BY <1>1, StoresTypes, OneMore DEF Try
  <1>3. DOMAIN table' = DOMAIN table \ {t} /\ \A x \in DOMAIN table \ {t} : table'[x] = table[x]
    BY DEF Without, Keep
  <1>4. tries[t] < Tolerated /\ tries'[t] >= Tolerated
    BY <1>1, <1>2
  <1>5. \A x \in DOMAIN table \ (DOMAIN table \ {t}) : x = t
    OBVIOUS
  <1> QED BY <1>1, <1>3, <1>4, <1>5, AnsweredHolds

(* A step that changes no store state at all. *)
LEMMA NothingDone ==
    ASSUME StoresInv, store \notin {"one_shot", "hotp"}, UNCHANGED svars
    PROVE  StoresInv' /\ TicketPromise!Next
  <1>1. CallsFit'
    BY DEF CallsFit, StoreCall, StoresInv, svars
  <1> QED BY <1>1, SweptHolds DEF svars

(* The verifications of these stores. *)
LEMMA VerifiesHold ==
    ASSUME StoresInv, NEW t \in Tickets,
           \/ OneTimeClaim(t)
           \/ \E ok \in BOOLEAN : PowVerify(t, ok)
           \/ \E p \in Purposes, u \in Bindings : WebAuthnVerify(t, p, u)
    PROVE  StoresInv' /\ TicketPromise!Next
  <1>1. CASE OneTimeClaim(t)
    <2>1. CASE t \in DOMAIN table
      BY <1>1, <2>1, ClaimsHold DEF OneTimeClaim
    <2>2. CASE t \notin DOMAIN table
      <3>1. /\ store = "one_time" /\ DOMAIN table' = DOMAIN table /\ \A x \in DOMAIN table : table'[x] = table[x]
            /\ UNCHANGED <<store, storeNow, serial, lastPrune, counter, inflight, uses, tries, minted>>
        BY <1>1, <2>2 DEF OneTimeClaim, Without, Keep, UnexpiredKeys
      <3>2. CallsFit'
        BY <3>1 DEF CallsFit, StoreCall, StoresInv
      <3> QED BY <3>1, <3>2, SweptHolds
    <2> QED BY <2>1, <2>2
  <1>2. CASE \E ok \in BOOLEAN : PowVerify(t, ok)
    BY <1>2, ClaimsHold DEF PowVerify
  <1>3. CASE \E p \in Purposes, u \in Bindings : WebAuthnVerify(t, p, u)
    BY <1>3, ClaimsHold DEF WebAuthnVerify
  <1> QED BY <1>1, <1>2, <1>3

(* A credential. *)
LEMMA CredentialHolds ==
    ASSUME StoresInv, NEW t \in Tickets, NEW right \in BOOLEAN, CredentialVerify(t, right)
    PROVE  StoresInv' /\ TicketPromise!Next
  <1>1. /\ store = "credential"
        /\ UNCHANGED <<store, storeNow, serial, lastPrune, counter, inflight, tries, minted>>
    BY DEF CredentialVerify
  <1>2. CASE right /\ t \in DOMAIN table
    <2>1. AcceptTicket(t) /\ DOMAIN table' = DOMAIN table \ {t}
          /\ \A x \in DOMAIN table \ {t} : table'[x] = table[x]
      BY <1>2 DEF CredentialVerify, Without, Keep
    <2>2. t = table[t].ticket
      BY <1>1, <1>2 DEF StoresInv, Keyed
    <2> QED BY <1>1, <1>2, <2>1, <2>2, AnsweredHolds
  <1>3. CASE ~ (right /\ t \in DOMAIN table)
    BY <1>1, <1>3, NothingDone DEF CredentialVerify, svars
  <1> QED BY <1>2, <1>3

(* A captcha. *)
LEMMA CaptchaHolds ==
    ASSUME StoresInv, NEW t \in Tickets, NEW right \in BOOLEAN, CaptchaVerify(t, right)
    PROVE  StoresInv' /\ TicketPromise!Next
  <1> DEFINE rest == IF right THEN Without(t) ELSE [table EXCEPT ![t].attempts = @ + 1]
  <1>1. /\ store = "captcha" /\ t \in DOMAIN table
        /\ UNCHANGED <<store, storeNow, serial, lastPrune, counter, inflight, minted>>
    BY DEF CaptchaVerify
  <1>2. /\ t = table[t].ticket /\ tries[t] = table[t].attempts /\ Tolerated = MaxAttempts
        /\ tries[t] \in Nat /\ MaxAttempts \in Nat
    BY <1>1, StoresTypes DEF StoresInv, Keyed, Counted, Tolerated
  <1>3. CASE t \notin WithinTtl \/ WornOut(table[t])
    <2>1. /\ uses' = uses /\ tries' = tries /\ DOMAIN table' = DOMAIN table \ {t}
          /\ \A x \in DOMAIN table \ {t} : table'[x] = table[x]
      BY <1>3 DEF CaptchaVerify, Without, Keep
    <2>2. tries'[t] >= Tolerated \/ storeNow - minted[t] >= Ttl
      BY <1>1, <1>2, <1>3, <2>1, SweptIsPast DEF WornOut
    <2>3. \A x \in DOMAIN table \ (DOMAIN table \ {t}) : x = t
      OBVIOUS
    <2> QED BY <1>1, <1>2, <2>1, <2>2, <2>3, AnsweredHolds
  <1>4. CASE ~ (t \notin WithinTtl \/ WornOut(table[t]))
    <2>1. /\ table' = IF Cardinality(DOMAIN rest) > CleanupThreshold
                       THEN [k \in DOMAIN rest \cap WithinTtl |-> rest[k]] ELSE rest
          /\ Try(t) /\ IF right THEN AcceptTicket(t) ELSE UNCHANGED uses
      BY <1>4 DEF CaptchaVerify
    <2>2. tries[t] < Tolerated /\ table[t].attempts < MaxAttempts
      BY <1>2, <1>4 DEF WornOut
    <2>3. PICK K \in SUBSET DOMAIN rest :
             /\ DOMAIN table' = K /\ \A x \in K : table'[x] = rest[x]
             /\ DOMAIN rest \ K \subseteq DOMAIN rest \ WithinTtl
      <3>1. CASE Cardinality(DOMAIN rest) > CleanupThreshold
        <4> WITNESS DOMAIN rest \cap WithinTtl \in SUBSET DOMAIN rest
        <4> QED BY <2>1, <3>1
      <3>2. CASE ~ (Cardinality(DOMAIN rest) > CleanupThreshold)
        <4> WITNESS DOMAIN rest \in SUBSET DOMAIN rest
        <4> QED BY <2>1, <3>2
      <3> QED BY <3>1, <3>2
    <2>4. CASE right
      <3>1. DOMAIN rest = DOMAIN table \ {t} /\ \A x \in DOMAIN rest : rest[x] = table[x]
        BY <2>4 DEF Without, Keep
      <3> HIDE DEF rest
      <3>2. K \in SUBSET (DOMAIN table \ {t}) /\ \A x \in K : table'[x] = table[x]
        BY <2>3, <3>1
      <3>3. \A x \in DOMAIN table \ K : x # t => storeNow - minted[x] >= Ttl
        BY <1>1, <2>3, <3>1, SweptIsPast
      <3> QED BY <1>1, <1>2, <2>1, <2>2, <2>3, <2>4, <3>2, <3>3, AnsweredHolds
    <2>5. CASE ~ right
      <3>1. DOMAIN rest = DOMAIN table /\ rest[t] = [table[t] EXCEPT !.attempts = @ + 1]
            /\ \A x \in DOMAIN table : x # t => rest[x] = table[x]
        BY <1>1, <2>5
      <3> HIDE DEF rest
      <3>2. t \in K /\ K \in SUBSET DOMAIN table
        BY <1>1, <1>4, <2>3, <3>1
      <3>3. \A x \in DOMAIN table \ K : storeNow - minted[x] >= Ttl
        BY <1>1, <2>3, <3>1, SweptIsPast
      <3>4. table'[t] = [table[t] EXCEPT !.attempts = @ + 1] /\ \A x \in K : x # t => table'[x] = table[x]
        BY <2>3, <3>1, <3>2
      <3>5. Try(table[t].ticket) /\ UNCHANGED uses
        BY <1>2, <2>1, <2>5
      <3> QED BY <1>1, <2>2, <2>3, <3>2, <3>3, <3>4, <3>5, WrongHolds
    <2> QED BY <2>4, <2>5
  <1> QED BY <1>3, <1>4

(* A verification code. *)
LEMMA CodeHolds ==
    ASSUME StoresInv, NEW k \in CodeKeys, NEW t \in Tickets, VerifyCode(k, t)
    PROVE  StoresInv' /\ TicketPromise!Next
  <1> DEFINE e == table[k]
  <1>1. /\ store = "code" /\ k \in DOMAIN table
        /\ UNCHANGED <<store, storeNow, serial, lastPrune, counter, inflight, minted>>
    BY DEF VerifyCode
  <1>2. /\ tries[e.ticket] = e.attempts /\ Tolerated = MaxAttempts
        /\ e.attempts \in Nat /\ MaxAttempts \in Nat
    BY <1>1, StoresTypes DEF StoresInv, Counted, Tolerated
  <1>3. CASE k \notin UnexpiredKeys \/ e.attempts + 1 > MaxAttempts
    <2>1. /\ uses' = uses /\ tries' = tries /\ DOMAIN table' = DOMAIN table \ {k}
          /\ \A x \in DOMAIN table \ {k} : table'[x] = table[x]
      BY <1>3 DEF VerifyCode, Without, Keep
    <2> QED BY <1>1, <2>1, AnsweredHolds
  <1>4. CASE ~ (k \notin UnexpiredKeys \/ e.attempts + 1 > MaxAttempts)
    <2>1. tries[e.ticket] < Tolerated /\ e.attempts < MaxAttempts
      BY <1>2, <1>4
    <2>2. /\ Try(e.ticket)
          /\ IF e.ticket = t THEN table' = Without(k) /\ AcceptTicket(t)
             ELSE table' = [table EXCEPT ![k].attempts = @ + 1] /\ UNCHANGED uses
      BY <1>4 DEF VerifyCode
    <2>3. CASE e.ticket = t
      <3>1. AcceptTicket(t) /\ DOMAIN table' = DOMAIN table \ {k}
            /\ \A x \in DOMAIN table \ {k} : table'[x] = table[x]
        BY <2>2, <2>3 DEF Without, Keep
      <3> QED BY <1>1, <2>1, <2>2, <2>3, <3>1, AnsweredHolds
    <2>4. CASE e.ticket # t
      <3>1. /\ DOMAIN table' = DOMAIN table /\ table'[k] = [table[k] EXCEPT !.attempts = @ + 1]
            /\ \A x \in DOMAIN table : x # k => table'[x] = table[x]
        BY <1>1, <2>2, <2>4
      <3> QED BY <1>1, <2>1, <2>2, <2>4, <3>1, WrongHolds
    <2> QED BY <2>3, <2>4
  <1> QED BY <1>3, <1>4

(* A JTI comes into being. *)
LEMMA JtiMintHolds ==
    ASSUME StoresInv, JtiMint
    PROVE  StoresInv' /\ TicketPromise!Next
  <1> USE StoresAssumption
  <1>1. /\ store = "one_shot" /\ serial < MaxIssued /\ serial' = serial + 1
        /\ minted' = [minted EXCEPT ![serial + 1] = storeNow]
        /\ UNCHANGED <<store, table, storeNow, lastPrune, counter, inflight, uses, tries>>
    BY DEF JtiMint, MintTicket
  <1>2. serial \in Nat /\ MaxIssued \in Nat /\ storeNow \in Nat /\ minted \in [Tickets -> Nat]
    BY StoresTypes
  <1>3. serial + 1 \in Tickets /\ \A x \in Tickets : x \in Nat
    BY <1>1, <1>2 DEF Tickets
  <1>4. /\ minted' \in [Tickets -> Nat] /\ minted'[serial + 1] = storeNow
        /\ \A x \in Tickets : x # serial + 1 => minted'[x] = minted[x]
    BY <1>1, <1>2, <1>3
  <1>5. \A k \in DOMAIN table : /\ table[k].ticket \in Tickets /\ table[k].ticket \in Nat
                                /\ table[k].ticket <= serial /\ table[k].ticket # serial + 1
                                /\ table[k].ticket = k
    <2>1. \A k \in DOMAIN table : /\ table[k].ticket \in Tickets /\ table[k].ticket <= serial
                                  /\ table[k].ticket = k
      BY <1>1, StoresTypes DEF StoresInv, Keyed
    <2>2. \A x \in Tickets : x <= serial => x # serial + 1
      BY <1>2, <1>3
    <2> QED BY <1>3, <2>1, <2>2
  <1>6. StoresTypeOK' /\ TriesBounded' /\ TableBounded' /\ NotDisplaced'
    <2>1. StoresTypeOK'
      BY <1>1, <1>2 DEF StoresTypeOK, StoresInv, StoresBounded
    <2>2. TriesBounded' /\ TableBounded'
      BY <1>1 DEF TriesBounded, TableBounded, Tolerated, StoresInv, StoresBounded
    <2>3. NotDisplaced'
      BY <1>1 DEF NotDisplaced
    <2> QED BY <2>1, <2>2, <2>3
  <1>7. Keyed'
    BY <1>1, <1>2, <1>5 DEF Keyed
  <1>8. Dated'
    <2>1. \A k \in DOMAIN table : minted'[table[k].ticket] = minted[table[k].ticket]
      BY <1>4, <1>5
    <2> QED BY <1>1, <2>1 DEF Dated, StoresInv
  <1>9. Counted' /\ CallsFit'
    BY <1>1 DEF Counted, CallsFit, StoreCall, StoresInv
  <1>10. Fresh'
    <2>1. \A x \in Tickets : minted'[x] <= storeNow
      BY <1>2, <1>4 DEF StoresInv, Fresh
    <2>2. \A x \in Tickets : x > serial + 1 => x > serial
      BY <1>2, <1>3
    <2> QED BY <1>1, <2>1, <2>2 DEF StoresInv, Fresh
  <1>11. StoresInv'
    BY <1>1, <1>4, <1>6, <1>7, <1>8, <1>9, <1>10 DEF StoresInv, StoresBounded
  <1>12. ~ Live(serial + 1) /\ uses[serial + 1] = 0
    BY <1>1, <1>2, <1>3 DEF Live, StoresInv, Fresh
  <1>13. \A x \in Tickets : x # serial + 1 => (Live(x)' => Live(x))
    <2> SUFFICES ASSUME NEW x \in Tickets, x # serial + 1, Live(x)' PROVE Live(x)
      OBVIOUS
    <2>1. x <= serial + 1 /\ storeNow < minted'[x] + Ttl /\ x \notin DOMAIN table
      BY <1>1 DEF Live, Expiry
    <2> QED BY <1>1, <1>2, <1>3, <1>4, <2>1 DEF Live, Expiry
  <1> QED BY <1>1, <1>3, <1>11, <1>12, <1>13, IssueStep

(* A JTI is checked and marked: what the sweeps forget has expired, so a JTI that is not
   found was never seen. *)
LEMMA OneShotHolds ==
    ASSUME StoresInv, NEW t \in Tickets, OneShotMark(t)
    PROVE  StoresInv' /\ TicketPromise!Next
  <1> USE StoresAssumption
  <1> DEFINE due == storeNow - lastPrune >= PruneInterval
             swept == IF due THEN UnexpiredKeys ELSE DOMAIN table
             kept == IF Cardinality(swept) >= Cap THEN swept \cap UnexpiredKeys ELSE swept
             entry == [NewEntry(t, 0) EXCEPT !.expires = Expiry(t)]
  <1>1. /\ store = "one_shot" /\ t <= serial
        /\ lastPrune' = IF due THEN storeNow ELSE lastPrune
        /\ IF Cardinality(kept) >= Cap
           THEN table' = Keep(kept) /\ UNCHANGED uses
           ELSE /\ table' = Put(Keep(kept), t, entry)
                /\ IF t \notin kept /\ storeNow < Expiry(t) THEN AcceptTicket(t) ELSE UNCHANGED uses
        /\ UNCHANGED <<store, storeNow, serial, counter, inflight, tries, minted>>
    BY DEF OneShotMark
  <1>2. kept \in SUBSET DOMAIN table /\ DOMAIN table \ kept \subseteq DOMAIN table \ UnexpiredKeys
    BY DEF UnexpiredKeys
  <1>3. lastPrune' \in 0..storeNow
    BY <1>1, StoresTypes
  <1> HIDE DEF due, swept, kept
  <1>4. \A x \in DOMAIN table : /\ table[x] \in TicketEntry /\ table[x].ticket = x /\ x \in Tickets
                                /\ x <= serial /\ table[x].expires = Expiry(x)
    <2>1. \A x \in DOMAIN table : table[x] \in TicketEntry /\ table[x].ticket \in Tickets
      BY StoresTypes
    <2>2. \A x \in DOMAIN table : table[x].ticket = x /\ table[x].ticket <= serial
      BY <1>1 DEF StoresInv, Keyed
    <2>3. \A x \in DOMAIN table : table[x].expires = Expiry(table[x].ticket)
      BY DEF StoresInv, Dated, Expiry
    <2> QED BY <2>1, <2>2, <2>3
  <1>5. entry \in TicketEntry /\ entry.ticket = t /\ entry.expires = Expiry(t)
    <2> DEFINE x == Expiry(t)
    <2>1. x \in Nat /\ storeNow \in Nat /\ storeNow + 0 \in Nat
      BY StoresTypes DEF Expiry
    <2> HIDE DEF x
    <2>2. entry = [ticket |-> t, at |-> storeNow, expires |-> x, attempts |-> 0,
                   purpose |-> "Register", user |-> Unbound]
      BY DEF NewEntry, x
    <2>3. entry \in TicketEntry /\ entry.ticket = t /\ entry.expires = x
      BY <2>1, <2>2 DEF TicketEntry, Purposes, Bindings, Unbound
    <2> QED BY <2>3 DEF x
  <1> HIDE DEF entry
  <1>6. \A x \in DOMAIN table' : /\ table'[x] \in TicketEntry /\ table'[x].ticket = x /\ x \in Tickets
                                 /\ x <= serial /\ table'[x].expires = Expiry(x)
    <2>1. CASE Cardinality(kept) >= Cap
      BY <1>1, <1>2, <1>4, <2>1 DEF Keep
    <2>2. CASE ~ (Cardinality(kept) >= Cap)
      <3>1. table' = Put(Keep(kept), t, entry)
        BY <1>1, <2>2
      <3>2. /\ DOMAIN table' = kept \cup {t} /\ table'[t] = entry
            /\ \A x \in kept : x # t => table'[x] = table[x]
        BY <3>1 DEF Put, Keep
      <3> QED BY <1>1, <1>2, <1>4, <1>5, <3>2
    <2> QED BY <2>1, <2>2
  <1>7. TableBounded'
    <2>1. IsFiniteSet(DOMAIN table) /\ IsFiniteSet(kept)
      BY <1>1, <1>2, TableFinite
    <2>2. /\ Cardinality(kept) \in Nat /\ Cardinality(DOMAIN table) \in Nat
          /\ Cardinality(kept) <= Cardinality(DOMAIN table) /\ Cardinality(DOMAIN table) <= Cap
      BY <1>1, <1>2, <2>1, FS_Subset, FS_CardinalityType DEF StoresInv, StoresBounded, TableBounded
    <2>3. CASE Cardinality(kept) >= Cap
      <3>1. DOMAIN table' = kept
        BY <1>1, <2>3 DEF Keep
      <3> QED BY <1>1, <2>2, <3>1 DEF TableBounded
    <2>4. CASE ~ (Cardinality(kept) >= Cap)
      <3>1. DOMAIN table' = kept \cup {t}
        BY <1>1, <2>4 DEF Put, Keep
      <3>2. Cardinality(kept \cup {t}) = Cardinality(kept) \/ Cardinality(kept \cup {t}) = Cardinality(kept) + 1
        BY <2>1, FS_AddElement
      <3>3. Cardinality(kept \cup {t}) <= Cap
        BY <2>2, <2>4, <3>2
      <3> QED BY <1>1, <3>1, <3>3 DEF TableBounded
    <2> QED BY <2>3, <2>4
  <1>8. uses' \in [Tickets -> Nat] /\ \A x \in Tickets : x # t => uses'[x] = uses[x]
    <2>1. AcceptTicket(t) \/ UNCHANGED uses
      BY <1>1
    <2> QED BY <2>1, StoresTypes, OneMore DEF AcceptTicket
  <1>9. StoresTypeOK' /\ TriesBounded' /\ NotDisplaced'
    <2>1. StoresTypeOK'
      BY <1>1, <1>3, <1>6 DEF StoresTypeOK, StoresInv, StoresBounded
    <2>2. TriesBounded'
      BY <1>1 DEF TriesBounded, Tolerated, StoresInv, StoresBounded
    <2>3. NotDisplaced'
      BY <1>1 DEF NotDisplaced
    <2> QED BY <2>1, <2>2, <2>3
  <1>10. Keyed' /\ Dated' /\ Counted' /\ CallsFit'
    <2>1. Keyed'
      BY <1>1, <1>6 DEF Keyed
    <2>2. Dated'
      BY <1>1, <1>6 DEF Dated, Expiry
    <2>3. Counted'
      BY <1>1 DEF Counted
    <2>4. CallsFit'
      BY <1>1 DEF CallsFit, StoreCall, StoresInv
    <2> QED BY <2>1, <2>2, <2>3, <2>4
  <1>11. Fresh'
    <2>1. \A x \in Tickets : x > serial => x # t
      BY <1>1, StoresTypes
    <2> QED BY <1>1, <1>8, <2>1 DEF StoresInv, Fresh
  <1>12. StoresInv'
    BY <1>1, <1>7, <1>8, <1>9, <1>10, <1>11 DEF StoresInv, StoresBounded
  <1>13. \A x \in DOMAIN table : x \notin kept => ~ (storeNow < Expiry(x))
    BY <1>2, <1>4 DEF UnexpiredKeys
  <1>14. kept \subseteq DOMAIN table'
    BY <1>1 DEF Put, Keep
  <1>15. \A x \in Tickets : Live(x)' => Live(x)
    <2> SUFFICES ASSUME NEW x \in Tickets, Live(x)' PROVE Live(x)
      OBVIOUS
    <2>1. x <= serial /\ storeNow < Expiry(x) /\ x \notin DOMAIN table'
      BY <1>1 DEF Live, Expiry
    <2>2. x \notin DOMAIN table
      BY <1>13, <1>14, <2>1
    <2> QED BY <1>1, <2>1, <2>2 DEF Live
  <1>16. TicketPromise!Next
    <2>1. CASE UNCHANGED uses
      BY <1>15, <2>1, VoidStep
    <2>2. CASE ~ UNCHANGED uses
      <3>1. /\ AcceptTicket(t) /\ t \notin kept /\ storeNow < Expiry(t)
            /\ table' = Put(Keep(kept), t, entry)
        BY <1>1, <2>2
      <3>2. t \in DOMAIN table' /\ t \notin DOMAIN table
        BY <1>13, <3>1 DEF Put
      <3>3. Live(t) /\ ~ Live(t)'
        BY <1>1, <3>1, <3>2 DEF Live
      <3> QED BY <1>15, <3>1, <3>3, UseStep
    <2> QED BY <2>1, <2>2
  <1> QED BY <1>12, <1>16

(* The counter of the HOTP verifier: a compare-exchange that succeeds spends the code of
   the counter value it replaces, and the counter never goes back. *)
LEMMA HotpHolds ==
    ASSUME StoresInv, NEW c \in Clients,
           \/ \E code \in {HotpCode[t] : t \in Tickets} : HotpStart(c, code)
           \/ HotpLoad(c) \/ HotpCas(c)
    PROVE  StoresInv' /\ TicketPromise!Next
  <1> USE StoresAssumption
  <1>0. /\ inflight \in [Clients -> StoreCall] /\ inflight[c] \in StoreCall
        /\ \A x \in Clients : /\ inflight[x].op \in {"load", "cas"} => store = "hotp"
                              /\ inflight[x].op = "cas" => inflight[x].seen < MaxIssued
    BY DEF CallsFit, StoresInv
  <1>1. /\ store = "hotp"
        /\ UNCHANGED <<store, table, storeNow, serial, lastPrune, tries, minted>>
    BY <1>0 DEF HotpStart, HotpLoad, HotpCas
  <1>2. \A n \in StoreCall :
           /\ inflight' = [inflight EXCEPT ![c] = n]
           /\ n.op = "cas" => n.seen < MaxIssued
           => CallsFit'
    BY <1>0, <1>1 DEF CallsFit
  <1>3. NotCalling \in StoreCall /\ NotCalling.op = "idle"
    BY DEF NotCalling, StoreCall
  <1>4. ASSUME CallsFit', counter' \in 0..MaxIssued, uses' \in [Tickets -> Nat],
               \A x \in Tickets : uses'[x] >= uses[x]
        PROVE  StoresInv'
    <2>1. Counted' /\ \A x \in Tickets : tries[x] \in Nat /\ tries[x] <= Tolerated
      BY <1>1, StoresTypes DEF Counted, StoresInv, StoresBounded, TriesBounded
    <2>2. \A x \in DOMAIN table : table[x] \in TicketEntry
      BY StoresTypes
    <2> QED BY <1>1, <1>4, <2>1, <2>2, StoresTypes, ShrinkInv
  <1>5. ASSUME CallsFit', UNCHANGED <<counter, uses>> PROVE StoresInv' /\ TicketPromise!Next
    <2>1. counter' \in 0..MaxIssued /\ uses' \in [Tickets -> Nat] /\ \A x \in Tickets : uses'[x] >= uses[x]
      BY <1>5, StoresTypes
    <2>2. StoresInv'
      BY <1>4, <1>5, <2>1
    <2>3. \A x \in Tickets : Live(x)' => Live(x)
      BY <1>1, <1>5 DEF Live, HotpTickets
    <2> QED BY <1>5, <2>2, <2>3, VoidStep
  <1>6. ASSUME NEW code \in {HotpCode[t] : t \in Tickets}, HotpStart(c, code)
        PROVE  StoresInv' /\ TicketPromise!Next
    <2> DEFINE n == [op |-> "load", code |-> code, seen |-> 0, retries |-> 0]
    <2>1. n \in StoreCall /\ n.op = "load"
      BY DEF StoreCall
    <2>2. inflight' = [inflight EXCEPT ![c] = n] /\ UNCHANGED <<counter, uses>>
      BY <1>6 DEF HotpStart
    <2> HIDE DEF n
    <2> QED BY <1>2, <1>5, <2>1, <2>2
  <1>7. CASE HotpLoad(c)
    <2>1. inflight[c].op = "load" /\ UNCHANGED <<counter, uses>>
      BY <1>7 DEF HotpLoad
    <2>2. CASE counter < MaxIssued /\ HotpCode[counter + 1] = inflight[c].code
      <3> DEFINE n == [inflight[c] EXCEPT !.op = "cas", !.seen = counter]
      <3>1. n \in StoreCall /\ n.seen = counter
        BY <1>0, StoresTypes DEF StoreCall
      <3>2. inflight' = [inflight EXCEPT ![c] = n]
        BY <1>0, <1>7, <2>2 DEF HotpLoad
      <3> HIDE DEF n
      <3> QED BY <1>2, <1>5, <2>1, <2>2, <3>1, <3>2
    <2>3. CASE ~ (counter < MaxIssued /\ HotpCode[counter + 1] = inflight[c].code)
      <3>1. inflight' = [inflight EXCEPT ![c] = NotCalling]
        BY <1>0, <1>7, <2>3 DEF HotpLoad
      <3> QED BY <1>2, <1>3, <1>5, <2>1, <3>1
    <2> QED BY <2>2, <2>3
  <1>8. CASE HotpCas(c)
    <2>1. /\ inflight[c].op = "cas" /\ inflight[c].seen < MaxIssued /\ inflight[c].seen \in Nat
          /\ inflight[c].retries \in Nat
      BY <1>0, <1>8 DEF HotpCas, StoreCall
    <2>2. CASE counter = inflight[c].seen
      <3>0. counter \in Nat /\ MaxIssued \in Nat /\ counter < MaxIssued
        BY <2>1, <2>2
      <3>01. PICK t \in Tickets : t = counter + 1
        BY <3>0 DEF Tickets
      <3>1. /\ counter' = t /\ AcceptTicket(t)
            /\ inflight' = [inflight EXCEPT ![c] = NotCalling]
        BY <1>8, <2>2, <3>01 DEF HotpCas
      <3>2. counter' \in 0..MaxIssued
        BY <3>0, <3>01, <3>1
      <3>3. uses' \in [Tickets -> Nat] /\ \A x \in Tickets : uses'[x] >= uses[x]
        BY <3>1, StoresTypes, OneMore DEF AcceptTicket
      <3>4. CallsFit'
        BY <1>2, <1>3, <3>1
      <3>5. StoresInv'
        BY <1>4, <3>2, <3>3, <3>4
      <3>6. \A x \in Tickets : x \in Nat
        BY DEF Tickets
      <3>7. \A x \in Tickets : Live(x)' => Live(x)
        <4> SUFFICES ASSUME NEW x \in Tickets, x > t PROVE x > counter
          BY <1>1, <3>1 DEF Live, HotpTickets
        <4>1. x \in Nat /\ counter \in Nat /\ x > counter + 1
          BY <3>0, <3>01, <3>6
        <4> QED BY <4>1
      <3>8. Live(t) /\ ~ Live(t)'
        <4>1. t > counter /\ ~ (t > counter')
          BY <3>0, <3>01, <3>1
        <4> QED BY <1>1, <4>1 DEF Live, HotpTickets
      <3> QED BY <3>1, <3>5, <3>7, <3>8, UseStep
    <2>3. CASE counter # inflight[c].seen
      <3>1. UNCHANGED <<counter, uses>>
        BY <1>8, <2>3 DEF HotpCas
      <3>2. CASE inflight[c].retries + 1 >= MaxVerifyRetries
        <4>1. inflight' = [inflight EXCEPT ![c] = NotCalling]
          BY <1>0, <1>8, <2>3, <3>2 DEF HotpCas
        <4> QED BY <1>2, <1>3, <1>5, <3>1, <4>1
      <3>3. CASE ~ (inflight[c].retries + 1 >= MaxVerifyRetries)
        <4> DEFINE r == inflight[c].retries + 1
                   n == [inflight[c] EXCEPT !.op = "load", !.retries = r]
        <4>1. inflight' = [inflight EXCEPT ![c] = n]
          BY <1>0, <1>8, <2>3, <3>3 DEF HotpCas
        <4>2. r \in Nat
          BY <2>1
        <4> HIDE DEF r
        <4>3. n \in StoreCall /\ n.op = "load"
          BY <1>0, <4>2 DEF StoreCall
        <4> HIDE DEF n
        <4> QED BY <1>2, <1>5, <3>1, <4>1, <4>3
      <3> QED BY <3>2, <3>3
    <2> QED BY <2>2, <2>3
  <1> QED BY <1>6, <1>7, <1>8

(* Every step keeps the invariant and is a step of the promise. *)
LEMMA StoresStep ==
    StoresInv /\ [StoresNext]_svars => StoresInv' /\ [TicketPromise!Next]_<<TicketsLeft, uses>>
  <1> SUFFICES ASSUME StoresInv, [StoresNext]_svars
               PROVE  StoresInv' /\ [TicketPromise!Next]_<<TicketsLeft, uses>>
    OBVIOUS
  <1>1. CASE StoresTick
    <2>1. /\ storeNow' = storeNow + 1 /\ storeNow \in Nat
          /\ UNCHANGED <<store, table, serial, lastPrune, counter, inflight, uses, tries, minted>>
      BY <1>1, StoresTypes DEF StoresTick
    <2>2. \A x \in Tickets : Live(x)' => Live(x)
      <3> SUFFICES ASSUME NEW x \in Tickets, Live(x)' PROVE Live(x)
        OBVIOUS
      <3>1. storeNow + 1 < Expiry(x) => storeNow < Expiry(x)
        BY <2>1, StoresTypes DEF Expiry
      <3>2. CASE store = "one_shot"
        <4>1. x <= serial /\ storeNow + 1 < Expiry(x) /\ x \notin DOMAIN table
          BY <2>1, <3>2 DEF Live, Expiry
        <4> QED BY <3>1, <3>2, <4>1 DEF Live
      <3>3. CASE store # "one_shot"
        BY <2>1, <3>3 DEF Live, HotpTickets
      <3> QED BY <3>2, <3>3
    <2>3. TicketPromise!Next
      BY <2>1, <2>2, VoidStep
    <2> QED BY <1>1, <2>3, StoresTickInv
  <1>2. CASE OneTimeIssue \/ CaptchaGenerate \/ CredentialGenerate
    BY <1>2, PlainIssue
  <1>3. CASE OneTimeCleanup \/ CaptchaCleanup \/ \E c \in Clients : IssuePrune(c)
    BY <1>3, SweepsHold
  <1>4. CASE JtiMint
    BY <1>4, JtiMintHolds
  <1>5. ASSUME NEW t \in Tickets,
               \/ OneTimeClaim(t)
               \/ \E ok \in BOOLEAN : PowVerify(t, ok)
               \/ \E p \in Purposes, u \in Bindings : WebAuthnVerify(t, p, u)
        PROVE  StoresInv' /\ TicketPromise!Next
    BY <1>5, VerifiesHold
  <1>6. ASSUME NEW t \in Tickets, OneShotMark(t) PROVE StoresInv' /\ TicketPromise!Next
    BY <1>6, OneShotHolds
  <1>7. ASSUME NEW t \in Tickets, NEW ok \in BOOLEAN, CredentialVerify(t, ok) \/ CaptchaVerify(t, ok)
        PROVE  StoresInv' /\ TicketPromise!Next
    BY <1>7, CredentialHolds, CaptchaHolds
  <1>8. ASSUME NEW t \in Tickets, NEW k \in CodeKeys, VerifyCode(k, t)
        PROVE  StoresInv' /\ TicketPromise!Next
    BY <1>8, CodeHolds
  <1>9. ASSUME NEW k \in CodeKeys, StoreCode(k) PROVE StoresInv' /\ TicketPromise!Next
    BY <1>9, CodeIssue
  <1>10. ASSUME NEW c \in Clients,
                PowInsert(c) \/ \E p \in Purposes, u \in Bindings : WebAuthnInsert(c, p, u)
         PROVE  StoresInv' /\ TicketPromise!Next
    BY <1>10, InsertsHold
  <1>11. ASSUME NEW c \in Clients,
                \/ \E code \in {HotpCode[t] : t \in Tickets} : HotpStart(c, code)
                \/ HotpLoad(c) \/ HotpCas(c)
         PROVE  StoresInv' /\ TicketPromise!Next
    BY <1>11, HotpHolds
  <1>12. CASE UNCHANGED svars
    <2>1. StoresInv'
      BY <1>12 DEF svars, StoresInv, StoresBounded, StoresTypeOK, TriesBounded, TableBounded, NotDisplaced,
                   NoEarlier, Tolerated, Keyed, Dated, Counted, Fresh, CallsFit
    <2>2. UNCHANGED <<TicketsLeft, uses>>
      BY <1>12 DEF svars, TicketsLeft, Live, HotpTickets, Expiry
    <2> QED BY <2>1, <2>2
  <1> QED BY <1>1, <1>2, <1>3, <1>4, <1>5, <1>6, <1>7, <1>8, <1>9, <1>10, <1>11, <1>12 DEF StoresNext

(* The stores keep their invariant for ever. *)
LEMMA StoresInvariance == StoresSpec => []StoresInv
  BY StoresInitInv, StoresStep, PTL DEF StoresSpec

(* Whatever the number of clients, tickets, recipients, the capacity and the lifetimes: no
   ticket is compared with more answers than its store tolerates, the tables of
   unauthenticated callers stay within their capacity, and nobody's unused ticket is lost to
   others before the capacity forces it. *)
THEOREM StoresStayBounded == StoresSpec => []StoresBounded
  <1>1. StoresInv => StoresBounded
    BY DEF StoresInv
  <1> QED BY <1>1, StoresInvariance, PTL

(* Every store implements LimitedUse: tokens, captchas, seeds, challenges, codes, JTIs and
   HOTP counter values are each accepted at most once, and never after they were dropped. *)
THEOREM TicketsAreSingleUse == StoresSpec => SingleUse
  <1>1. StoresInit => TicketPromise!Init
    <2> SUFFICES ASSUME StoresInit PROVE TicketPromise!Init
      OBVIOUS
    <2>1. TicketsLeft \in [Tickets -> Nat]
      BY DEF TicketsLeft
    <2> QED BY <2>1 DEF StoresInit, TicketPromise!Init
  <1> QED BY <1>1, StoresStep, StoresInvariance, PTL
          DEF StoresSpec, SingleUse, TicketPromise!Spec, TicketPromise!lvars

-----------------------------------------------------------------------------
(* Invitations: the store implements LimitedUse. *)

(* Before anything is created. *)
LEMMA InvitationsInitInv == InvitationsInit => InvitationsInv
  BY InvitationsAssumption DEF InvitationsInit, InvitationsInv, InvitationsTypeOK

(* An invitation is not the absence of one. *)
LEMMA PresentType ==
    ASSUME InvitationsInv, NEW i \in Invites, inner[i] # Absent
    PROVE  inner[i] \in Invitation
  BY DEF InvitationsInv, InvitationsTypeOK

(* What every call does to one invitation, seen from outside: it is replaced by a record
   that keeps its worth and its first opening, is usable only if it was, and has either one
   admission more or none; the address and the time of an opening are set once. *)
ReplacedBy(i, inv) ==
    /\ inner' = [inner EXCEPT ![i] = inv]
    /\ inv \in Invitation
    /\ inv.status \in Usable =>
           /\ inner[i].status \in Usable
           /\ inv.use_count < Worth(inv)
    /\ inv.status = "Opened" => inv.opened_at # Never
    /\ inv.max_uses = inner[i].max_uses
    /\ inner[i].opened_at # Never =>
           inv.opened_at = inner[i].opened_at /\ inv.opened_ip = inner[i].opened_ip
    /\ UNCHANGED <<token_index, inviteNow>>

(* A change of status to one that admits nobody. *)
LEMMA ClosedBy ==
    ASSUME InvitationsInv, NEW i \in token_index, NEW s \in InvitationStatus \ Usable,
           SetStatus(i, s), UNCHANGED <<token_index, inviteNow>>
    PROVE  ReplacedBy(i, [inner[i] EXCEPT !.status = s])
  <1>1. i \in Invites /\ inner[i] # Absent
    BY DEF InvitationsInv, InvitationsTypeOK
  <1>2. inner[i] \in Invitation
    BY <1>1, PresentType
  <1>3. inner' = [inner EXCEPT ![i] = [inner[i] EXCEPT !.status = s]]
    BY DEF SetStatus
  <1> QED
    BY <1>2, <1>3 DEF ReplacedBy, Invitation, Usable

(* Such a replacement keeps the invariant. *)
LEMMA ReplacedInv ==
    ASSUME InvitationsInv, NEW i \in Invites, inner[i] # Absent, NEW inv, ReplacedBy(i, inv),
           grants' \in [Invites -> Nat], \A j \in Invites : j # i => grants'[j] = grants[j]
    PROVE  InvitationsInv'
  <1>1. \A j \in Invites : inner'[j] = IF j = i THEN inv ELSE inner[j]
    BY DEF InvitationsInv, ReplacedBy
  <1>2. inv \in Invitation /\ inv # Absent
    BY DEF ReplacedBy, Invitation, Absent, InvitationStatus
  <1>3. inner' \in [Invites -> Invitation \cup {Absent}]
    BY <1>2 DEF InvitationsInv, ReplacedBy
  <1>4. InvitationsTypeOK'
    BY <1>1, <1>2, <1>3 DEF InvitationsInv, InvitationsTypeOK, ReplacedBy, Invitation, Never
  <1>5. \A j \in Invites : inner'[j] = Absent => grants'[j] = 0
    BY <1>1, <1>2 DEF InvitationsInv
  <1>6. \A j \in Invites : inner'[j] # Absent =>
           /\ inner'[j].status \in Usable => inner'[j].use_count < Worth(inner'[j])
           /\ inner'[j].status = "Opened" => inner'[j].opened_at # Never
    BY <1>1 DEF InvitationsInv, ReplacedBy, Worth
  <1> QED BY <1>3, <1>4, <1>5, <1>6 DEF InvitationsInv, Worth, Never

(* open, as such a replacement. *)
LEMMA OpenReplaces ==
    ASSUME InvitationsInv, NEW i \in Invites, NEW ip \in Ips \cup {NoIp}, Open(i, ip)
    PROVE  /\ inner[i] # Absent /\ grants' = grants
           /\ \E inv : ReplacedBy(i, inv) /\ inv.use_count = inner[i].use_count
  <1> USE InvitationsAssumption
  <1>1. /\ i \in token_index /\ inner[i] # Absent /\ inner[i] \in Invitation
        /\ UNCHANGED <<token_index, inviteNow, grants>>
    BY PresentType DEF Open, InvitationsInv, InvitationsTypeOK
  <1>2. CASE inviteNow > inner[i].expires_at /\ SetStatus(i, "Expired")
    <2>1. ReplacedBy(i, [inner[i] EXCEPT !.status = "Expired"])
      BY <1>1, <1>2, ClosedBy DEF InvitationStatus, Usable
    <2>2. [inner[i] EXCEPT !.status = "Expired"].use_count = inner[i].use_count
      BY <1>1 DEF Invitation
    <2> QED BY <1>1, <2>1, <2>2
  <1>3. CASE /\ inner[i].status \in Usable
             /\ LET inv == Opened(i, ip) IN
                inner' = [inner EXCEPT ![i] =
                    IF inviteNow - inv.opened_at >= OpenWindow
                    THEN [inv EXCEPT !.status = "Expired"] ELSE inv]
    <2> DEFINE inv == Opened(i, ip)
               new == IF inviteNow - inv.opened_at >= OpenWindow
                      THEN [inv EXCEPT !.status = "Expired"] ELSE inv
    <2>1. /\ inv \in Invitation /\ inv.opened_at # Never
          /\ inv.status \in Usable /\ inv.use_count = inner[i].use_count
          /\ inv.max_uses = inner[i].max_uses
          /\ inner[i].opened_at # Never =>
                 inv.opened_at = inner[i].opened_at /\ inv.opened_ip = inner[i].opened_ip
      <3>1. CASE inner[i].opened_at # Never
        BY <1>1, <1>3, <3>1 DEF Opened
      <3>2. CASE inner[i].opened_at = Never
        <4>1. inv = [inner[i] EXCEPT !.opened_at = inviteNow, !.opened_ip = ip, !.status = "Opened"]
          BY <3>2 DEF Opened
        <4>2. inviteNow \in 0..Never /\ inviteNow # Never
          BY DEF InvitationsInv, InvitationsTypeOK, Never
        <4> QED BY <1>1, <3>2, <4>1, <4>2 DEF Invitation, Usable, InvitationStatus
      <3> QED BY <3>1, <3>2
    <2>2. inner' = [inner EXCEPT ![i] = new]
      BY <1>3
    <2> HIDE DEF inv
    <2>3. /\ new \in Invitation /\ new.opened_at = inv.opened_at /\ new.opened_ip = inv.opened_ip
          /\ new.use_count = inv.use_count /\ new.max_uses = inv.max_uses
          /\ new.status \in Usable => new.status = inv.status
      BY <2>1 DEF Invitation, InvitationStatus, Usable
    <2>4. inner[i].use_count < Worth(inner[i])
      BY <1>1, <1>3 DEF InvitationsInv
    <2> HIDE DEF new
    <2>5. ReplacedBy(i, new)
      BY <1>1, <1>3, <2>1, <2>2, <2>3, <2>4 DEF ReplacedBy, Worth
    <2> QED BY <1>1, <2>1, <2>3, <2>5
  <1> QED BY <1>2, <1>3 DEF Open

(* accept, when it admits: one admission more, in time and within the window. *)
LEMMA AcceptReplaces ==
    ASSUME InvitationsInv, NEW i \in Invites, NEW ip \in Ips \cup {NoIp}, Accept(i, ip)
    PROVE  /\ inner[i] # Absent /\ inner[i].status \in Usable
           /\ \/ /\ grants' = grants
                 /\ \E inv : ReplacedBy(i, inv) /\ inv.use_count = inner[i].use_count
              \/ /\ grants' = [grants EXCEPT ![i] = @ + 1]
                 /\ inviteNow <= inner[i].expires_at /\ ~ WindowOver(inner[i])
                 /\ \E inv : ReplacedBy(i, inv) /\ inv.use_count = inner[i].use_count + 1
  <1> USE InvitationsAssumption
  <1>1. /\ i \in token_index /\ inner[i] # Absent /\ inner[i] \in Invitation
        /\ inner[i].status \in Usable /\ UNCHANGED <<token_index, inviteNow>>
    BY PresentType DEF Accept, InvitationsInv, InvitationsTypeOK
  <1>2. CASE inviteNow > inner[i].expires_at \/ WindowOver(inner[i])
    <2>1. ReplacedBy(i, [inner[i] EXCEPT !.status = "Expired"])
      BY <1>1, <1>2, ClosedBy DEF InvitationStatus, Usable, Accept
    <2>2. [inner[i] EXCEPT !.status = "Expired"].use_count = inner[i].use_count
      BY <1>1 DEF Invitation
    <2> QED BY <1>1, <1>2, <2>1, <2>2 DEF Accept
  <1>3. CASE ~ (inviteNow > inner[i].expires_at \/ WindowOver(inner[i]))
    <2> DEFINE old == inner[i]
               new == [old EXCEPT !.use_count = old.use_count + 1,
                                  !.status = IF old.use_count + 1 >= old.max_uses
                                             THEN "Accepted" ELSE old.status]
    <2>1. Used(old) = new
      BY <1>1 DEF Used, Invitation
    <2>2. inner' = [inner EXCEPT ![i] = new] /\ grants' = [grants EXCEPT ![i] = @ + 1]
      <3>1. inner' = [inner EXCEPT ![i] = Used(old)] /\ grants' = [grants EXCEPT ![i] = @ + 1]
        BY <1>3 DEF Accept
      <3> QED BY <2>1, <3>1
    <2>3. inviteNow \in Nat /\ old.expires_at \in Nat /\ old.use_count \in Nat /\ old.max_uses \in Nat
      BY <1>1 DEF Invitation, InvitationsInv, InvitationsTypeOK
    <2>4. /\ new \in Invitation /\ new.use_count = old.use_count + 1
          /\ new.max_uses = old.max_uses /\ new.opened_at = old.opened_at
          /\ new.opened_ip = old.opened_ip
          /\ new.status \in Usable => new.status = old.status /\ old.use_count + 1 < old.max_uses
      <3>1. CASE old.use_count + 1 >= old.max_uses
        <4>1. new = [old EXCEPT !.use_count = old.use_count + 1, !.status = "Accepted"]
          BY <3>1
        <4> HIDE DEF new, old
        <4>2. old \in Invitation
          BY <1>1 DEF old
        <4>3. new \in Invitation
          <5> DEFINE n == old.use_count + 1
          <5>1. n \in Nat
            BY <2>3
          <5>2. new = [old EXCEPT !.use_count = n, !.status = "Accepted"]
            BY <4>1
          <5> HIDE DEF n
          <5> QED BY <4>2, <5>1, <5>2 DEF Invitation, InvitationStatus
        <4>4. /\ new.use_count = old.use_count + 1 /\ new.status = "Accepted"
              /\ new.max_uses = old.max_uses /\ new.opened_at = old.opened_at
              /\ new.opened_ip = old.opened_ip
          BY <4>1, <4>2 DEF Invitation
        <4> QED BY <4>3, <4>4 DEF Usable
      <3>2. CASE ~ (old.use_count + 1 >= old.max_uses)
        <4>1. new = [old EXCEPT !.use_count = old.use_count + 1]
          BY <1>1, <3>2 DEF Invitation
        <4>2. old.use_count + 1 < old.max_uses
          BY <2>3, <3>2
        <4> HIDE DEF new
        <4> QED BY <1>1, <2>3, <4>1, <4>2 DEF Invitation, InvitationStatus, Usable
      <3> QED BY <3>1, <3>2
    <2>5. old.status = "Opened" => old.opened_at # Never
      BY <1>1 DEF InvitationsInv
    <2> HIDE DEF new
    <2>6. new.status \in Usable => new.use_count < Worth(new)
      BY <2>3, <2>4 DEF Worth
    <2>7. ReplacedBy(i, new)
      BY <1>1, <2>2, <2>4, <2>5, <2>6 DEF ReplacedBy, Usable
    <2>8. inviteNow <= old.expires_at
      BY <1>3, <2>3
    <2> QED BY <1>1, <1>3, <2>2, <2>4, <2>7, <2>8
  <1> QED BY <1>2, <1>3

(* create keeps the invariant. *)
LEMMA CreateInv ==
    ASSUME InvitationsInv, NEW i \in Invites, NEW p \in Templates, Create(i, p)
    PROVE  /\ InvitationsInv' /\ inner[i] = Absent /\ inner'[i] # Absent
           /\ \A j \in Invites : j # i => inner'[j] = inner[j]
  <1> USE InvitationsAssumption
  <1> DEFINE new == [mode |-> p.mode, max_uses |-> p.max_uses, use_count |-> 0,
                     status |-> "Pending", opened_at |-> Never, opened_ip |-> NoIp,
                     expires_at |-> inviteNow + p.ttl]
  <1>1. p \in CreateParams /\ inviteNow \in Nat /\ inviteNow \in 0..MaxInviteTime
    BY DEF InvitationsInv, InvitationsTypeOK
  <1>2. new \in Invitation /\ new.use_count < Worth(new) /\ new.status = "Pending"
    BY <1>1 DEF CreateParams, Invitation, InvitationStatus, Worth, Never
  <1>3. new # Absent
    BY <1>2 DEF Absent
  <1>4. inner' = [inner EXCEPT ![i] = new] /\ inner[i] = Absent
        /\ UNCHANGED <<token_index, inviteNow, grants>>
    BY DEF Create
  <1> HIDE DEF new
  <1>5. \A j \in Invites : inner'[j] = IF j = i THEN new ELSE inner[j]
    BY <1>4 DEF InvitationsInv
  <1>6. inner' \in [Invites -> Invitation \cup {Absent}]
    BY <1>2, <1>4 DEF InvitationsInv
  <1>7. InvitationsTypeOK'
    BY <1>3, <1>4, <1>5, <1>6 DEF InvitationsInv, InvitationsTypeOK, Invitation, Never
  <1>8. \A j \in Invites :
           /\ inner'[j] = Absent => grants'[j] = 0
           /\ inner'[j] # Absent =>
                 /\ inner'[j].status \in Usable => inner'[j].use_count < Worth(inner'[j])
                 /\ inner'[j].status = "Opened" => inner'[j].opened_at # Never
    BY <1>2, <1>4, <1>5 DEF InvitationsInv, Worth
  <1> QED BY <1>3, <1>4, <1>5, <1>6, <1>7, <1>8 DEF InvitationsInv, Worth, Never

(* The sweep expires what is usable and touches nothing else. *)
LEMMA ExpireInv ==
    ASSUME InvitationsInv, ExpireStale
    PROVE  /\ InvitationsInv'
           /\ \A i \in Invites :
                 \/ inner'[i] = inner[i]
                 \/ /\ inner[i] # Absent /\ inner'[i] # Absent
                    /\ inner'[i].status = "Expired"
                    /\ inner'[i].opened_at = inner[i].opened_at
                    /\ inner'[i].opened_ip = inner[i].opened_ip
  <1>1. \A i \in Invites :
           \/ inner'[i] = inner[i]
           \/ inner[i] # Absent /\ inner'[i] = [inner[i] EXCEPT !.status = "Expired"]
    BY DEF ExpireStale
  <1>2. \A i \in Invites :
           \/ inner'[i] = inner[i]
           \/ /\ inner[i] # Absent /\ inner'[i] \in Invitation
              /\ inner'[i].status = "Expired"
              /\ inner'[i].opened_at = inner[i].opened_at
              /\ inner'[i].opened_ip = inner[i].opened_ip
    <2> SUFFICES ASSUME NEW i \in Invites, inner[i] # Absent,
                        inner'[i] = [inner[i] EXCEPT !.status = "Expired"]
                 PROVE  /\ inner'[i] \in Invitation
                        /\ inner'[i].status = "Expired"
                        /\ inner'[i].opened_at = inner[i].opened_at
                        /\ inner'[i].opened_ip = inner[i].opened_ip
      BY <1>1
    <2>1. inner[i] \in Invitation
      BY PresentType
    <2> QED BY <2>1 DEF Invitation, InvitationStatus
  <1>3. \A i \in Invites : inner'[i] \in Invitation => inner'[i] # Absent
    BY DEF Invitation, InvitationStatus, Absent
  <1>4. inner' \in [Invites -> Invitation \cup {Absent}]
    <2>1. inner' = [i \in Invites |-> inner'[i]]
      BY DEF ExpireStale
    <2> QED BY <1>2, <2>1 DEF InvitationsInv
  <1>5. UNCHANGED <<token_index, inviteNow, grants>>
    BY DEF ExpireStale
  <1>6. InvitationsTypeOK'
    BY <1>2, <1>3, <1>4, <1>5 DEF InvitationsInv, InvitationsTypeOK, Invitation, Never
  <1>7. \A j \in Invites :
           /\ inner'[j] = Absent => grants'[j] = 0
           /\ inner'[j] # Absent =>
                 /\ inner'[j].status \in Usable => inner'[j].use_count < Worth(inner'[j])
                 /\ inner'[j].status = "Opened" => inner'[j].opened_at # Never
    BY <1>2, <1>3, <1>5 DEF InvitationsInv, Worth, Usable
  <1> QED BY <1>2, <1>3, <1>4, <1>5, <1>6, <1>7 DEF InvitationsInv, Worth, Never

(* Every step keeps the invariant. *)
LEMMA InvitationsStepInv == InvitationsInv /\ [InvitationsNext]_ivars => InvitationsInv'
  <1> SUFFICES ASSUME InvitationsInv, [InvitationsNext]_ivars PROVE InvitationsInv'
    OBVIOUS
  <1>1. CASE InvitationsTick
    BY <1>1, InvitationsAssumption
    DEF InvitationsTick, InvitationsInv, InvitationsTypeOK, Invitation, Worth, Never
  <1>2. CASE ExpireStale
    BY <1>2, ExpireInv
  <1>3. ASSUME NEW i \in Invites, Index(i) PROVE InvitationsInv'
    BY <1>3 DEF Index, InvitationsInv, InvitationsTypeOK, Invitation, Worth, Never
  <1>4. ASSUME NEW i \in Invites, RevokeInvitation(i) PROVE InvitationsInv'
    <2>1. i \in token_index /\ inner[i] # Absent /\ UNCHANGED <<token_index, inviteNow, grants>>
      BY <1>4 DEF RevokeInvitation, InvitationsInv, InvitationsTypeOK
    <2>2. ReplacedBy(i, [inner[i] EXCEPT !.status = "Revoked"])
      BY <1>4, <2>1, ClosedBy DEF RevokeInvitation, InvitationStatus, Usable
    <2> QED BY <2>1, <2>2, ReplacedInv DEF InvitationsInv
  <1>5. ASSUME NEW i \in Invites, NEW p \in Templates, Create(i, p) PROVE InvitationsInv'
    BY <1>5, CreateInv
  <1>6. ASSUME NEW i \in Invites, NEW ip \in Ips \cup {NoIp}, Open(i, ip) PROVE InvitationsInv'
    <2>1. PICK inv : ReplacedBy(i, inv)
      BY <1>6, OpenReplaces
    <2>2. inner[i] # Absent /\ grants' = grants
      BY <1>6, OpenReplaces
    <2> QED BY <2>1, <2>2, ReplacedInv DEF InvitationsInv
  <1>7. ASSUME NEW i \in Invites, NEW ip \in Ips \cup {NoIp}, Accept(i, ip) PROVE InvitationsInv'
    <2>1. PICK inv : ReplacedBy(i, inv)
      BY <1>7, AcceptReplaces
    <2>2. inner[i] # Absent /\ (grants' = grants \/ grants' = [grants EXCEPT ![i] = @ + 1])
      BY <1>7, AcceptReplaces
    <2>3. grants' \in [Invites -> Nat] /\ \A j \in Invites : j # i => grants'[j] = grants[j]
      BY <2>2 DEF InvitationsInv
    <2> QED BY <2>1, <2>2, <2>3, ReplacedInv
  <1>8. CASE UNCHANGED ivars
    BY <1>8 DEF ivars, InvitationsInv, InvitationsTypeOK, Invitation, Worth, Never
  <1> QED
    BY <1>1, <1>2, <1>3, <1>4, <1>5, <1>6, <1>7, <1>8 DEF InvitationsNext

(* InvitationsInv holds in every reachable state. *)
LEMMA InvitationsInvariance == InvitationsSpec => []InvitationsInv
  BY InvitationsInitInv, InvitationsStepInv, PTL DEF InvitationsSpec

(* What is left of an invitation, before and after. *)
LEMMA LeftValue ==
    \A i \in Invites : AdmissionsLeft[i] =
        IF inner[i] # Absent /\ inner[i].status \in Usable
        THEN Worth(inner[i]) - inner[i].use_count ELSE 0
  BY DEF AdmissionsLeft

(* The same after the step. *)
LEMMA LeftValueNext ==
    \A i \in Invites : AdmissionsLeft'[i] =
        IF inner'[i] # Absent /\ inner'[i].status \in Usable
        THEN Worth(inner'[i]) - inner'[i].use_count ELSE 0
  BY DEF AdmissionsLeft, Worth

(* A replaced invitation that admitted nobody keeps what it was worth or loses it all. *)
LEMMA ReplacedVoids ==
    ASSUME InvitationsInv, NEW i \in Invites, inner[i] # Absent, NEW inv, ReplacedBy(i, inv),
           inv.use_count = inner[i].use_count, grants' = grants
    PROVE  InvitationPromise!Next
  <1> DEFINE S == IF inv.status \in Usable THEN {} ELSE {i}
  <1>1. \A j \in Invites : inner'[j] = IF j = i THEN inv ELSE inner[j]
    BY DEF InvitationsInv, ReplacedBy
  <1>2. inv # Absent /\ Worth(inv) = Worth(inner[i])
    BY DEF ReplacedBy, Invitation, Absent, InvitationStatus, Worth
  <1>3. \A j \in Invites : AdmissionsLeft'[j] = IF j \in S THEN 0 ELSE AdmissionsLeft[j]
    BY <1>1, <1>2, LeftValue, LeftValueNext DEF ReplacedBy
  <1>4. AdmissionsLeft' = [j \in Invites |-> IF j \in S THEN 0 ELSE AdmissionsLeft[j]]
    <2>1. AdmissionsLeft' = [j \in Invites |-> AdmissionsLeft'[j]]
      BY DEF AdmissionsLeft
    <2> HIDE DEF S
    <2> QED BY <1>3, <2>1
  <1>5. InvitationPromise!Void(S)
    BY <1>4 DEF InvitationPromise!Void, InvitationPromise!VoidedIn
  <1>6. S \in SUBSET Invites
    OBVIOUS
  <1> QED BY <1>5, <1>6 DEF InvitationPromise!Next

(* An invitation that admitted somebody is worth one admission less, or nothing. *)
LEMMA ReplacedUses ==
    ASSUME InvitationsInv, NEW i \in Invites, inner[i] # Absent, inner[i].status \in Usable,
           NEW inv, ReplacedBy(i, inv), inv.use_count = inner[i].use_count + 1,
           grants' = [grants EXCEPT ![i] = @ + 1]
    PROVE  InvitationPromise!Next
  <1> DEFINE S == IF inv.status \in Usable THEN {} ELSE {i}
  <1>1. \A j \in Invites : inner'[j] = IF j = i THEN inv ELSE inner[j]
    BY DEF InvitationsInv, ReplacedBy
  <1>2. inv # Absent /\ Worth(inv) = Worth(inner[i])
    BY DEF ReplacedBy, Invitation, Absent, InvitationStatus, Worth
  <1>3. inner[i] \in Invitation
    BY PresentType
  <1>4. Worth(inner[i]) \in Nat /\ inner[i].use_count \in Nat /\ inner[i].use_count < Worth(inner[i])
    BY <1>3 DEF InvitationsInv, Invitation, Worth
  <1>5. AdmissionsLeft[i] = Worth(inner[i]) - inner[i].use_count /\ AdmissionsLeft[i] > 0
    BY <1>4, LeftValue
  <1>6. \A j \in Invites : AdmissionsLeft'[j] =
           IF j \in S THEN 0 ELSE IF j = i THEN AdmissionsLeft[i] - 1 ELSE AdmissionsLeft[j]
    BY <1>1, <1>2, <1>4, <1>5, LeftValue, LeftValueNext DEF ReplacedBy
  <1>7. AdmissionsLeft' = [j \in Invites |-> IF j \in S THEN 0
                             ELSE [AdmissionsLeft EXCEPT ![i] = @ - 1][j]]
    <2>1. AdmissionsLeft' = [j \in Invites |-> AdmissionsLeft'[j]] /\ DOMAIN AdmissionsLeft = Invites
      BY DEF AdmissionsLeft
    <2> HIDE DEF S
    <2> QED BY <1>6, <2>1
  <1>8. InvitationPromise!Use(i, S)
    BY <1>5, <1>7 DEF InvitationPromise!Use, InvitationPromise!VoidedIn
  <1>9. S \in SUBSET Invites
    OBVIOUS
  <1> QED BY <1>8, <1>9 DEF InvitationPromise!Next

(* Every step of the store is a step of LimitedUse or changes nothing it speaks of. *)
LEMMA InvitationsStepRefines ==
    InvitationsInv /\ [InvitationsNext]_ivars
        => [InvitationPromise!Next]_(InvitationPromise!lvars)
  <1> SUFFICES ASSUME InvitationsInv, [InvitationsNext]_ivars
               PROVE  InvitationPromise!Next \/ UNCHANGED InvitationPromise!lvars
    OBVIOUS
  <1>1. CASE InvitationsTick \/ (\E i \in Invites : Index(i)) \/ UNCHANGED ivars
    <2>1. inner' = inner /\ grants' = grants
      BY <1>1 DEF InvitationsTick, Index, ivars
    <2>2. AdmissionsLeft' = AdmissionsLeft
      BY <2>1 DEF AdmissionsLeft, Worth
    <2> QED BY <2>1, <2>2 DEF InvitationPromise!lvars
  <1>2. CASE ExpireStale
    <2> DEFINE S == {i \in Invites : inner'[i] # inner[i]}
    <2>1. \A i \in Invites : AdmissionsLeft'[i] = IF i \in S THEN 0 ELSE AdmissionsLeft[i]
      BY <1>2, ExpireInv, LeftValue, LeftValueNext DEF Usable
    <2>2. AdmissionsLeft' = [j \in Invites |-> IF j \in S THEN 0 ELSE AdmissionsLeft[j]]
      <3>1. AdmissionsLeft' = [j \in Invites |-> AdmissionsLeft'[j]]
        BY DEF AdmissionsLeft
      <3> HIDE DEF S
      <3> QED BY <2>1, <3>1
    <2>3. InvitationPromise!Void(S)
      BY <1>2, <2>2 DEF InvitationPromise!Void, InvitationPromise!VoidedIn, ExpireStale
    <2>4. S \in SUBSET Invites
      OBVIOUS
    <2> QED BY <2>3, <2>4 DEF InvitationPromise!Next
  <1>3. ASSUME NEW i \in Invites, RevokeInvitation(i) PROVE InvitationPromise!Next
    <2>1. i \in token_index /\ inner[i] # Absent /\ UNCHANGED <<token_index, inviteNow, grants>>
      BY <1>3 DEF RevokeInvitation, InvitationsInv, InvitationsTypeOK
    <2>2. ReplacedBy(i, [inner[i] EXCEPT !.status = "Revoked"])
      BY <1>3, <2>1, ClosedBy DEF RevokeInvitation, InvitationStatus, Usable
    <2>3. [inner[i] EXCEPT !.status = "Revoked"].use_count = inner[i].use_count
      BY <2>1, PresentType DEF Invitation
    <2> QED BY <2>1, <2>2, <2>3, ReplacedVoids
  <1>4. ASSUME NEW i \in Invites, NEW p \in Templates, Create(i, p) PROVE InvitationPromise!Next
    <2>1. /\ inner[i] = Absent /\ inner'[i] # Absent /\ InvitationsInv'
          /\ \A j \in Invites : j # i => inner'[j] = inner[j]
      BY <1>4, CreateInv
    <2>2. grants' = grants /\ grants[i] = 0
      BY <1>4, <2>1 DEF Create, InvitationsInv
    <2>3. AdmissionsLeft[i] = 0 /\ \A j \in Invites : j # i => AdmissionsLeft'[j] = AdmissionsLeft[j]
      BY <2>1, LeftValue, LeftValueNext
    <2>4. AdmissionsLeft'[i] \in Nat
      <3>1. inner'[i] = [mode |-> p.mode, max_uses |-> p.max_uses, use_count |-> 0,
                         status |-> "Pending", opened_at |-> Never, opened_ip |-> NoIp,
                         expires_at |-> inviteNow + p.ttl]
        BY <1>4 DEF Create, InvitationsInv
      <3>2. p.max_uses \in Nat
        BY InvitationsAssumption DEF CreateParams
      <3>3. Worth(inner'[i]) \in Nat /\ inner'[i].use_count = 0
        BY <3>1, <3>2 DEF Worth
      <3>4. Worth(inner'[i]) - inner'[i].use_count \in Nat
        BY <3>3
      <3> QED BY <3>4, LeftValueNext
    <2>5. AdmissionsLeft' = [[j \in Invites |-> IF j \in {} THEN 0 ELSE AdmissionsLeft[j]]
                                EXCEPT ![i] = AdmissionsLeft'[i]]
      <3>1. AdmissionsLeft' = [j \in Invites |-> AdmissionsLeft'[j]]
        BY DEF AdmissionsLeft
      <3> QED BY <2>3, <3>1
    <2>6. InvitationPromise!Issue(i, AdmissionsLeft'[i], {})
      BY <2>2, <2>3, <2>5 DEF InvitationPromise!Issue, InvitationPromise!VoidedIn
    <2> QED BY <2>4, <2>6 DEF InvitationPromise!Next
  <1>5. ASSUME NEW i \in Invites, NEW ip \in Ips \cup {NoIp}, Open(i, ip)
        PROVE  InvitationPromise!Next
    BY <1>5, OpenReplaces, ReplacedVoids
  <1>6. ASSUME NEW i \in Invites, NEW ip \in Ips \cup {NoIp}, Accept(i, ip)
        PROVE  InvitationPromise!Next
    BY <1>6, AcceptReplaces, ReplacedVoids, ReplacedUses
  <1> QED
    BY <1>1, <1>2, <1>3, <1>4, <1>5, <1>6 DEF InvitationsNext

(* The acceptance of an opened invitation is in time, and a first opening is never moved. *)
LEMMA AcceptStepHolds == InvitationsInv /\ [InvitationsNext]_ivars => [AcceptStep]_ivars
  <1> SUFFICES ASSUME InvitationsInv, InvitationsNext, NEW i \in Invites
               PROVE  /\ grants'[i] > grants[i] =>
                             /\ inviteNow <= inner[i].expires_at
                             /\ (inner[i].mode = "Direct" /\ inner[i].status = "Opened") =>
                                    inviteNow <= inner[i].opened_at + OpenWindow
                      /\ (inner[i] # Absent /\ inner[i].opened_at # Never) =>
                             /\ inner'[i].opened_at = inner[i].opened_at
                             /\ inner'[i].opened_ip = inner[i].opened_ip
    BY DEF AcceptStep
  <1>0. grants[i] \in Nat
    BY DEF InvitationsInv
  <1>1. CASE InvitationsTick \/ (\E j \in Invites : Index(j))
    BY <1>0, <1>1 DEF InvitationsTick, Index
  <1>2. CASE ExpireStale
    <2>1. grants' = grants
      BY <1>2 DEF ExpireStale
    <2> QED BY <1>0, <1>2, <2>1, ExpireInv
  <1>3. ASSUME NEW j \in Invites, RevokeInvitation(j)
        PROVE  /\ grants' = grants
               /\ inner[i] # Absent => /\ inner'[i].opened_at = inner[i].opened_at
                                       /\ inner'[i].opened_ip = inner[i].opened_ip
    <2>1. inner' = [inner EXCEPT ![j] = [inner[j] EXCEPT !.status = "Revoked"]] /\ grants' = grants
      BY <1>3 DEF RevokeInvitation, SetStatus
    <2>2. inner[i] # Absent => inner[i] \in Invitation
      BY PresentType
    <2>3. inner'[i] = inner[i] \/ inner'[i] = [inner[i] EXCEPT !.status = "Revoked"]
      BY <2>1 DEF InvitationsInv
    <2> QED BY <2>1, <2>2, <2>3 DEF Invitation
  <1>4. ASSUME NEW j \in Invites, NEW p \in Templates, Create(j, p)
        PROVE  grants' = grants /\ (inner[i] # Absent => inner'[i] = inner[i])
    <2>1. grants' = grants
      BY <1>4 DEF Create
    <2> QED BY <1>4, <2>1, CreateInv
  <1>5. ASSUME NEW j \in Invites, NEW ip \in Ips \cup {NoIp}, Open(j, ip)
        PROVE  /\ grants' = grants
               /\ inner[i].opened_at # Never =>
                      /\ inner'[i].opened_at = inner[i].opened_at
                      /\ inner'[i].opened_ip = inner[i].opened_ip
    <2>1. PICK inv : ReplacedBy(j, inv)
      BY <1>5, OpenReplaces
    <2>2. grants' = grants
      BY <1>5, OpenReplaces
    <2> QED BY <2>1, <2>2 DEF ReplacedBy, InvitationsInv
  <1>6. ASSUME NEW j \in Invites, NEW ip \in Ips \cup {NoIp}, Accept(j, ip)
        PROVE  /\ grants'[i] > grants[i] =>
                      inviteNow <= inner[i].expires_at /\ ~ WindowOver(inner[i]) /\ inner[i] # Absent
               /\ inner[i].opened_at # Never =>
                      /\ inner'[i].opened_at = inner[i].opened_at
                      /\ inner'[i].opened_ip = inner[i].opened_ip
    <2>1. PICK inv : ReplacedBy(j, inv)
      BY <1>6, AcceptReplaces
    <2>2. /\ inner[j] # Absent
          /\ \/ grants' = grants
             \/ /\ grants' = [grants EXCEPT ![j] = @ + 1]
                /\ inviteNow <= inner[j].expires_at /\ ~ WindowOver(inner[j])
      BY <1>6, AcceptReplaces
    <2>3. grants'[i] > grants[i] =>
             inviteNow <= inner[i].expires_at /\ ~ WindowOver(inner[i]) /\ inner[i] # Absent
      BY <1>0, <2>2 DEF InvitationsInv
    <2> QED BY <2>1, <2>3 DEF ReplacedBy, InvitationsInv
  <1>7. (inner[i] # Absent /\ ~ WindowOver(inner[i])) =>
           ((inner[i].mode = "Direct" /\ inner[i].status = "Opened") =>
                inviteNow <= inner[i].opened_at + OpenWindow)
    <2> SUFFICES ASSUME inner[i] # Absent, ~ WindowOver(inner[i]),
                        inner[i].mode = "Direct", inner[i].status = "Opened"
                 PROVE  inviteNow <= inner[i].opened_at + OpenWindow
      OBVIOUS
    <2>1. inner[i] \in Invitation /\ inner[i].opened_at # Never
      BY PresentType DEF InvitationsInv
    <2>2. ~ (inviteNow - inner[i].opened_at > OpenWindow)
      BY <2>1 DEF WindowOver
    <2>3. inviteNow \in Nat /\ inner[i].opened_at \in Int
      BY <2>1, InvitationsAssumption DEF InvitationsInv, InvitationsTypeOK, Invitation, Never
    <2> QED BY <2>2, <2>3, InvitationsAssumption
  <1> QED
    BY <1>0, <1>1, <1>2, <1>3, <1>4, <1>5, <1>6, <1>7 DEF InvitationsNext

(* The invitation store implements LimitedUse, for any number of invitations, templates,
   clients and clock: no invitation admits more people than it was created for, none admits
   anybody after it was revoked, expired or used up, and an opened one admits only within
   the window and before its expiry. *)
THEOREM InvitationsAdmitAsInvited == InvitationsSpec => AdmitsAsInvited
  <1>1. InvitationsInit => InvitationPromise!Init
    BY DEF InvitationsInit, InvitationPromise!Init, AdmissionsLeft
  <1>2. InvitationsInv => InvitationsTypeOK
    BY DEF InvitationsInv
  <1>3. InvitationsSpec => InvitationPromise!Spec
    BY <1>1, InvitationsStepRefines, InvitationsInvariance, PTL
    DEF InvitationsSpec, InvitationPromise!Spec
  <1>4. InvitationsSpec => [][AcceptStep]_ivars
    BY AcceptStepHolds, InvitationsInvariance, PTL DEF InvitationsSpec
  <1> QED
    BY <1>2, <1>3, <1>4, InvitationsInvariance, PTL
    DEF AdmitsAsInvited, AdmitsWithinLimit, AcceptedInWindow

-----------------------------------------------------------------------------
(* Visitor tickets: admissions in two steps against revocations and restarts. *)

(* No principal, no call. *)
LEMMA VisitorsInitInv == VisitorsInit => VisitorsInv
  BY VisitorsAssumption
  DEF VisitorsInit, VisitorsInv, VisitsEnd, VisitorsTypeOK, RevokedStaysOut, ChainEnds,
      Admission, NoAdmission, NoOutcome, Unissued

(* A call may start, move on or end as long as it keeps naming an issued id and, when it
   was doomed, a retired one. *)
LEMMA AdmissionInv ==
    ASSUME VisitorsInv, NEW c \in Calls, NEW k \in Admission,
           admissions' = [admissions EXCEPT ![c] = k],
           k.step # "idle" => k.id \in Ids,
           k.step = "check" => k.id \in DOMAIN identities,
           (k.step # "idle" /\ k.doomed) => k.id \in retired,
           UNCHANGED <<identities, revoked, born, retired, visitNow>>,
           VisitsEnd', outcome'.kind # "none" => outcome'.id \in Ids /\ born[outcome'.id] # Unissued
    PROVE  VisitorsInv'
  <1>1. admissions' \in [Calls -> Admission]
    BY DEF VisitorsInv
  <1>2. \A d \in Calls : admissions'[d] = IF d = c THEN k ELSE admissions[d]
    BY DEF VisitorsInv
  <1>3. \A d \in Calls :
           /\ admissions'[d].step # "idle" => admissions'[d].id \in Ids
           /\ admissions'[d].step = "check" => admissions'[d].id \in DOMAIN identities'
           /\ (admissions'[d].step # "idle" /\ admissions'[d].doomed) => admissions'[d].id \in retired'
    BY <1>2 DEF VisitorsInv
  <1> QED BY <1>1, <1>3 DEF VisitorsInv, Unissued

(* A token minted now for a known id is one the store's tokens may hold. *)
LEMMA MintType ==
    ASSUME VisitorsInv, NEW i \in Ids, MintToken(i)
    PROVE  tokens' \subseteq VisitorToken
  BY VisitorsAssumption DEF VisitorsInv, VisitsEnd, VisitorsTypeOK, MintToken, Sign, VisitorToken

(* Every step keeps the invariant. *)
LEMMA VisitorsStepInv == VisitorsInv /\ [VisitorsNext]_vvars => VisitorsInv'
  <1> SUFFICES ASSUME VisitorsInv, [VisitorsNext]_vvars PROVE VisitorsInv'
    OBVIOUS
  <1> USE VisitorsAssumption
  <1>1. CASE VisitorsTick
    BY <1>1 DEF VisitorsTick, VisitorsInv, VisitsEnd, VisitorsTypeOK, RevokedStaysOut, ChainEnds, Unissued
  <1>2. CASE StoreCrash
    <2>1. /\ DOMAIN identities' = {} /\ revoked' = {}
          /\ \A c \in Calls : admissions'[c] = NoAdmission
          /\ admissions' \in [Calls -> Admission]
          /\ UNCHANGED <<tokens, born, retired, outcome, visitNow>>
      BY <1>2 DEF StoreCrash, NoAdmission, Admission
    <2> QED
      BY <2>1 DEF VisitorsInv, VisitsEnd, VisitorsTypeOK, RevokedStaysOut, ChainEnds, NoAdmission, Unissued
  <1>3. ASSUME NEW i \in Ids, IssueTicket(i) PROVE VisitorsInv'
    <2>1. /\ DOMAIN identities' = DOMAIN identities \cup {i}
          /\ identities'[i] = visitNow + InactivityWindow
          /\ \A j \in DOMAIN identities : j # i => identities'[j] = identities[j]
          /\ born[i] = Unissued /\ born' \in [Ids -> Nat] /\ born'[i] = visitNow
          /\ \A j \in Ids : j # i => born'[j] = born[j]
          /\ UNCHANGED <<revoked, retired, admissions, outcome, visitNow>>
      BY <1>3 DEF IssueTicket, VisitorsInv
    <2>2. tokens' \subseteq VisitorToken
      BY <1>3, MintType DEF IssueTicket
    <2>3. visitNow # Unissued'
      BY DEF VisitorsInv, Unissued
    <2>4. outcome.kind # "none" => outcome.id \in Ids /\ outcome.id # i
      BY <2>1 DEF VisitorsInv
    <2>5. VisitsEnd'
      BY <2>1, <2>2, <2>3, <2>4
      DEF VisitorsInv, VisitsEnd, VisitorsTypeOK, RevokedStaysOut, ChainEnds, Unissued
    <2>6. \A j \in DOMAIN identities' : identities'[j] = born'[j] + InactivityWindow
      BY <2>1 DEF VisitorsInv, VisitsEnd, VisitorsTypeOK
    <2> QED BY <2>1, <2>4, <2>5, <2>6 DEF VisitorsInv, Unissued
  <1>4. ASSUME NEW i \in Ids, RevokeTicket(i) PROVE VisitorsInv'
    BY <1>4 DEF RevokeTicket, VisitorsInv, VisitsEnd, VisitorsTypeOK, RevokedStaysOut, ChainEnds, Unissued
  <1>5. ASSUME NEW c \in Calls, NEW tok \in tokens, StartVerify(c, tok) \/ StartRenew(c, tok)
        PROVE  VisitorsInv'
    <2>1. PICK kind \in {"verify", "renew"} :
             admissions' = [admissions EXCEPT ![c] =
                 [kind |-> kind, step |-> "get", id |-> tok.id, doomed |-> tok.id \in retired]]
      BY <1>5 DEF StartVerify, StartRenew
    <2>2. tok.id \in Ids
      BY DEF VisitorsInv, VisitsEnd, VisitorsTypeOK, VisitorToken
    <2>3. UNCHANGED <<identities, revoked, tokens, born, retired, outcome, visitNow>>
      BY <1>5 DEF StartVerify, StartRenew
    <2>4. VisitsEnd'
      BY <2>3 DEF VisitorsInv, VisitsEnd, VisitorsTypeOK, RevokedStaysOut, ChainEnds, Unissued
    <2>5. [kind |-> kind, step |-> "get", id |-> tok.id, doomed |-> tok.id \in retired] \in Admission
      BY <2>2 DEF Admission
    <2> QED BY <2>1, <2>2, <2>3, <2>4, <2>5, AdmissionInv DEF VisitorsInv
  <1>6. ASSUME NEW c \in Calls, AdmitGet(c) PROVE VisitorsInv'
    <2> DEFINE k == IF admissions[c].id \in DOMAIN identities
                    THEN [admissions[c] EXCEPT !.step = "check"] ELSE NoAdmission
    <2>1. admissions' = [admissions EXCEPT ![c] = k]
      BY <1>6 DEF AdmitGet
    <2>2. k \in Admission
      BY DEF VisitorsInv, Admission, NoAdmission
    <2>3. /\ k.step # "idle" => k.id \in Ids /\ k.id \in DOMAIN identities
          /\ (k.step # "idle" /\ k.doomed) => k.id \in retired
      BY <1>6 DEF VisitorsInv, VisitsEnd, VisitorsTypeOK, Admission, NoAdmission, AdmitGet
    <2>4. UNCHANGED <<identities, revoked, tokens, born, retired, outcome, visitNow>>
      BY <1>6 DEF AdmitGet
    <2>5. VisitsEnd'
      BY <2>4 DEF VisitorsInv, VisitsEnd, VisitorsTypeOK, RevokedStaysOut, ChainEnds, Unissued
    <2> HIDE DEF k
    <2> QED BY <2>1, <2>2, <2>3, <2>4, <2>5, AdmissionInv DEF VisitorsInv
  <1>7. ASSUME NEW c \in Calls, AdmitCheck(c) PROVE VisitorsInv'
    <2> DEFINE k == admissions[c]
    <2>1. /\ k \in Admission /\ k.id \in DOMAIN identities /\ k.id \in Ids
          /\ k.doomed => k.id \in revoked
      BY <1>7 DEF VisitorsInv, AdmitCheck
    <2>2. identities[k.id] = born[k.id] + InactivityWindow /\ born[k.id] # Unissued
      BY <2>1 DEF VisitorsInv, VisitsEnd, VisitorsTypeOK
    <2>3. /\ admissions' = [admissions EXCEPT ![c] = NoAdmission]
          /\ UNCHANGED <<identities, revoked, born, retired, visitNow>>
      BY <1>7 DEF AdmitCheck
    <2>4. /\ tokens' \subseteq VisitorToken
          /\ \/ outcome' = outcome
             \/ /\ outcome' = [kind |-> k.kind, id |-> k.id, at |-> visitNow, doomed |-> k.doomed]
                /\ k.id \notin revoked /\ visitNow <= identities[k.id]
      <3>1. CASE Gate(k.id) /\ PrincipalAlive(k.id)
        <4>1. tokens' \subseteq VisitorToken
          BY <1>7, <2>1, <3>1, MintType DEF AdmitCheck, VisitorsInv, VisitsEnd, VisitorsTypeOK
        <4> QED BY <1>7, <3>1, <4>1 DEF AdmitCheck, Gate, PrincipalAlive
      <3>2. CASE ~ (Gate(k.id) /\ PrincipalAlive(k.id))
        BY <1>7, <3>2 DEF AdmitCheck, VisitorsInv, VisitsEnd, VisitorsTypeOK
      <3> QED BY <3>1, <3>2
    <2> HIDE DEF k
    <2>5. VisitsEnd' /\ (outcome'.kind # "none" => outcome'.id \in Ids /\ born[outcome'.id] # Unissued)
      BY <2>1, <2>2, <2>3, <2>4
      DEF VisitorsInv, VisitsEnd, VisitorsTypeOK, RevokedStaysOut, ChainEnds, Unissued
    <2>6. NoAdmission \in Admission /\ NoAdmission.step = "idle"
      BY DEF NoAdmission, Admission
    <2> QED BY <2>3, <2>5, <2>6, AdmissionInv
  <1>8. ASSUME NEW c \in Calls, AdmitFails(c) PROVE VisitorsInv'
    <2>1. /\ admissions' = [admissions EXCEPT ![c] = NoAdmission]
          /\ UNCHANGED <<identities, revoked, tokens, born, retired, outcome, visitNow>>
      BY <1>8 DEF AdmitFails
    <2>2. VisitsEnd'
      BY <2>1 DEF VisitorsInv, VisitsEnd, VisitorsTypeOK, RevokedStaysOut, ChainEnds, Unissued
    <2>3. NoAdmission \in Admission /\ NoAdmission.step = "idle"
      BY DEF NoAdmission, Admission
    <2> QED BY <2>1, <2>2, <2>3, AdmissionInv DEF VisitorsInv
  <1>9. CASE UNCHANGED vvars
    BY <1>9 DEF vvars, VisitorsInv, VisitsEnd, VisitorsTypeOK, RevokedStaysOut, ChainEnds, Unissued
  <1> QED
    BY <1>1, <1>2, <1>3, <1>4, <1>5, <1>6, <1>7, <1>8, <1>9 DEF VisitorsNext

(* No visitor call that starts after a revocation returned succeeds, through any token of
   the chain, even if the store has been restarted since and forgot the revocation (it
   forgot the principal too); and none succeeds later than the window counted from the principal's issue,
   however often it was renewed and whenever the store was restarted. *)
THEOREM VisitsDoEnd == VisitorsSpec => []VisitsEnd
  <1>1. VisitorsSpec => []VisitorsInv
    BY VisitorsInitInv, VisitorsStepInv, PTL DEF VisitorsSpec
  <1>2. VisitorsInv => VisitsEnd
    BY DEF VisitorsInv
  <1> QED BY <1>1, <1>2, PTL

-----------------------------------------------------------------------------
(* Presence: sweeps and queries against touches, drops and the clock. *)

(* Nothing is registered at the start. *)
LEMMA PresenceInitInv == PresenceInit => PresenceInv
  <1> SUFFICES ASSUME PresenceInit PROVE PresenceInv
    OBVIOUS
  <1>1. DOMAIN connections = {} /\ counted = NoCount
    BY DEF PresenceInit
  <1>2. FiguresHonest
    BY <1>1, FS_EmptySet DEF FiguresHonest, NoCount
  <1>3. PresenceTypeOK /\ ActiveStay
    BY <1>1 DEF PresenceInit, PresenceTypeOK, ActiveStay
  <1> QED
    BY <1>1, <1>2, <1>3, PresenceAssumption DEF PresenceInit, PresenceInv, PresenceHonest, NotLooking

(* The figures of a query over any set of registered connections that lies between the
   connections still active and the leases held. *)
LEMMA FiguresOfQuery ==
    ASSUME NEW S, NEW H, NEW A, IsFiniteSet(H), S \subseteq H, A \subseteq S,
           counted' = [conns |-> S, held |-> H, active |-> A,
                       total |-> ConnectionCount(S), users |-> UserCount(S),
                       anonymous |-> AnonymousCount(S), per_user |-> PerUserCounts(S)]
    PROVE  FiguresHonest'
  <1> DEFINE named == {c \in S : connections[c].user # Anonymous}
             nameless == {c \in S : connections[c].user = Anonymous}
             of(u) == {c \in S : connections[c].user = u}
             f == [c \in named |-> connections[c].user]
  <1>1. IsFiniteSet(S) /\ Cardinality(S) <= Cardinality(H)
    BY FS_Subset, Zenon
  <1>2. IsFiniteSet(A) /\ Cardinality(A) <= Cardinality(S)
    BY <1>1, FS_Subset, Zenon
  <1>3. IsFiniteSet(named) /\ IsFiniteSet(nameless)
    <2>1. named \in SUBSET S /\ nameless \in SUBSET S
      OBVIOUS
    <2> QED BY <2>1, <1>1, FS_Subset
  <1>4. /\ Cardinality(S) \in Nat /\ Cardinality(A) \in Nat /\ Cardinality(H) \in Nat
        /\ Cardinality(named) \in Nat /\ Cardinality(nameless) \in Nat
    BY <1>1, <1>2, <1>3, FS_CardinalityType
  <1>5. Cardinality(S) = Cardinality(named) + Cardinality(nameless)
    <2>1. named \cup nameless = S /\ named \cap nameless = {}
      OBVIOUS
    <2>2. Cardinality(named \cap nameless) = 0
      BY <2>1, FS_EmptySet
    <2> HIDE DEF named, nameless
    <2>3. Cardinality(named \cup nameless) =
             Cardinality(named) + Cardinality(nameless) - Cardinality(named \cap nameless)
      BY <1>3, FS_Union, Zenon
    <2>4. Cardinality(S) = Cardinality(named \cup nameless)
      BY <2>1, Zenon
    <2>5. \A a, b \in Nat : a + b - 0 = a + b
      OBVIOUS
    <2> QED BY <2>2, <2>3, <2>4, <2>5, <1>4
  <1>6. f \in Surjection(named, UsersOf(S))
    BY DEF Surjection, UsersOf
  <1>7. IsFiniteSet(UsersOf(S)) /\ Cardinality(UsersOf(S)) <= Cardinality(named)
    BY <1>3, <1>6, FS_Surjection
  <1>8. Cardinality(UsersOf(S)) \in Nat
    BY <1>7, FS_CardinalityType
  <1>9. \A u \in UsersOf(S) : Cardinality(of(u)) \in 1..Cardinality(named)
    <2> SUFFICES ASSUME NEW u \in UsersOf(S) PROVE Cardinality(of(u)) \in 1..Cardinality(named)
      OBVIOUS
    <2>1. of(u) \in SUBSET named /\ of(u) # {}
      BY DEF UsersOf
    <2>2. IsFiniteSet(of(u)) /\ Cardinality(of(u)) <= Cardinality(named)
      BY <2>1, <1>3, FS_Subset
    <2>3. Cardinality(of(u)) \in Nat /\ Cardinality(of(u)) # 0
      BY <2>1, <2>2, FS_CardinalityType, FS_EmptySet
    <2> QED BY <2>2, <2>3, <1>4
  <1>10. /\ counted'.conns = S /\ counted'.held = H /\ counted'.active = A
         /\ counted'.total = Cardinality(S) /\ counted'.users = Cardinality(UsersOf(S))
         /\ counted'.anonymous = Cardinality(nameless)
         /\ counted'.per_user = PerUserCounts(S)
    BY DEF ConnectionCount, UserCount, AnonymousCount
  <1>11. /\ DOMAIN PerUserCounts(S) = UsersOf(S)
         /\ \A u \in UsersOf(S) : PerUserCounts(S)[u] = Cardinality(of(u))
    BY DEF PerUserCounts
  <1> HIDE DEF named, nameless, of, f
  <1>12. Cardinality(S) \in Cardinality(A)..Cardinality(H)
    BY <1>1, <1>2, <1>4
  <1>13. Cardinality(UsersOf(S)) + Cardinality(nameless) <= Cardinality(S)
    BY <1>4, <1>5, <1>7, <1>8
  <1>14. \A u \in UsersOf(S) :
            PerUserCounts(S)[u] \in 1..(Cardinality(S) - Cardinality(nameless))
    BY <1>4, <1>5, <1>9, <1>11
  <1> QED
    BY <1>10, <1>11, <1>12, <1>13, <1>14 DEF FiguresHonest

(* A connection that stayed active is younger than every cutoff already read. *)
LEMMA ActiveAfterCutoff ==
    ASSUME PresenceInv, NEW o \in Observers, NEW c \in Conns, lease[c] = "held", c \notin quiet
    PROVE  c \in ActiveSince(looking[o].cutoff)
  <1>1. c \in DOMAIN connections /\ connections[c].last_activity = lastTouch[c]
    BY DEF PresenceInv, PresenceHonest, ActiveStay
  <1>2. /\ presenceNow < lastTouch[c] + IdleTimeout
        /\ looking[o].cutoff + IdleTimeout <= presenceNow
        /\ looking[o].cutoff \in Nat /\ lastTouch[c] \in Nat /\ presenceNow \in Nat
    BY DEF PresenceInv
  <1>3. lastTouch[c] > looking[o].cutoff
    BY <1>2, PresenceAssumption
  <1> QED BY <1>1, <1>3 DEF ActiveSince

(* Every step keeps the invariant. *)
LEMMA PresenceStepInv == PresenceInv /\ [PresenceNext]_pvars => PresenceInv'
  <1> SUFFICES ASSUME PresenceInv, [PresenceNext]_pvars PROVE PresenceInv'
    OBVIOUS
  <1> USE PresenceAssumption
  <1>1. CASE PresenceTick
    <2>1. PresenceHonest'
      BY <1>1 DEF PresenceInv, PresenceHonest, PresenceTypeOK, FiguresHonest, ActiveStay, PresenceTick
    <2>2. \A c \in Conns :
             (lease'[c] = "held" /\ c \notin quiet') => presenceNow' < lastTouch'[c] + IdleTimeout
      BY <1>1 DEF PresenceInv, PresenceTick
    <2>3. \A o \in Observers : looking'[o].cutoff + IdleTimeout <= presenceNow'
      BY <1>1 DEF PresenceInv, PresenceTick
    <2> QED BY <1>1, <2>1, <2>2, <2>3 DEF PresenceInv, PresenceTick
  <1>2. ASSUME NEW c \in Conns, Touch(c) PROVE PresenceInv'
    <2>1. /\ DOMAIN connections' = DOMAIN connections
          /\ \A d \in DOMAIN connections : d # c => connections'[d] = connections[d]
          /\ c \in DOMAIN connections =>
                 connections'[c] = [connections[c] EXCEPT !.last_activity = presenceNow]
      BY <1>2 DEF Touch
    <2>2. /\ lastTouch' \in [Conns -> Nat] /\ lastTouch'[c] = presenceNow
          /\ \A d \in Conns : d # c => lastTouch'[d] = lastTouch[d]
          /\ UNCHANGED <<lease, quiet, looking, counted, presenceNow>>
      BY <1>2 DEF PresenceInv, Touch
    <2>3. \A d \in DOMAIN connections' :
             connections'[d] \in Connection /\ connections'[d].last_activity = lastTouch'[d]
      BY <2>1, <2>2 DEF PresenceInv, PresenceHonest, PresenceTypeOK, Connection
    <2>4. PresenceHonest'
      BY <2>1, <2>2, <2>3 DEF PresenceInv, PresenceHonest, PresenceTypeOK, FiguresHonest, ActiveStay
    <2>5. \A d \in Conns :
             (lease'[d] = "held" /\ d \notin quiet') => presenceNow' < lastTouch'[d] + IdleTimeout
      BY <2>2 DEF PresenceInv
    <2> QED BY <2>1, <2>2, <2>3, <2>4, <2>5 DEF PresenceInv
  <1>3. ASSUME NEW c \in Conns, Remove(c) PROVE PresenceInv'
    <2>1. /\ DOMAIN connections' = DOMAIN connections \ {c}
          /\ \A d \in DOMAIN connections' : connections'[d] = connections[d]
      BY <1>3 DEF Remove
    <2>2. /\ lease' \in [Conns -> {"none", "held", "dropped"}] /\ lease'[c] = "dropped"
          /\ \A d \in Conns : d # c => lease'[d] = lease[d]
          /\ UNCHANGED <<lastTouch, quiet, looking, counted, presenceNow>>
      BY <1>3 DEF PresenceInv, PresenceHonest, PresenceTypeOK, Remove
    <2>3. PresenceHonest'
      BY <2>1, <2>2 DEF PresenceInv, PresenceHonest, PresenceTypeOK, FiguresHonest, ActiveStay
    <2> QED BY <2>1, <2>2, <2>3 DEF PresenceInv, PresenceHonest, PresenceTypeOK
  <1>4. ASSUME NEW c \in Conns, NEW u \in Users \cup {Anonymous}, Connect(c, u)
        PROVE  PresenceInv'
    <2>1. /\ DOMAIN connections' = DOMAIN connections \cup {c}
          /\ connections'[c] = [user |-> u, last_activity |-> presenceNow]
          /\ \A d \in DOMAIN connections : d # c => connections'[d] = connections[d]
      BY <1>4 DEF Connect
    <2>2. /\ lease' \in [Conns -> {"none", "held", "dropped"}] /\ lease'[c] = "held"
          /\ \A d \in Conns : d # c => lease'[d] = lease[d] /\ lastTouch'[d] = lastTouch[d]
          /\ lastTouch' \in [Conns -> Nat] /\ lastTouch'[c] = presenceNow
          /\ UNCHANGED <<quiet, looking, counted, presenceNow>>
      BY <1>4 DEF PresenceInv, PresenceHonest, PresenceTypeOK, Connect
    <2>3. \A d \in DOMAIN connections' :
             /\ connections'[d] \in Connection /\ connections'[d].last_activity = lastTouch'[d]
             /\ lease'[d] = "held"
      BY <2>1, <2>2 DEF PresenceInv, PresenceHonest, PresenceTypeOK, Connection
    <2>4. PresenceHonest'
      BY <2>1, <2>2, <2>3 DEF PresenceInv, PresenceHonest, PresenceTypeOK, FiguresHonest, ActiveStay
    <2>5. \A d \in Conns :
             (lease'[d] = "held" /\ d \notin quiet') => presenceNow' < lastTouch'[d] + IdleTimeout
      BY <2>2 DEF PresenceInv
    <2> QED BY <2>1, <2>2, <2>3, <2>4, <2>5 DEF PresenceInv
  <1>5. ASSUME NEW o \in Observers, Sweep(o) PROVE PresenceInv'
    <2> DEFINE kept == ActiveSince(looking[o].cutoff)
    <2>1. /\ DOMAIN connections' = kept
          /\ \A d \in kept : connections'[d] = connections[d]
      BY <1>5 DEF Sweep
    <2>2. kept \subseteq DOMAIN connections
      BY DEF ActiveSince
    <2>3. \A c \in Conns : (lease[c] = "held" /\ c \notin quiet) => c \in kept
      BY ActiveAfterCutoff
    <2>4. /\ \A x \in Observers : looking'[x] = looking[x] \/ looking'[x] = NotLooking
          /\ looking' \in [Observers -> [op : {"idle", "sweep", "query"}, cutoff : Nat]]
          /\ UNCHANGED <<lease, lastTouch, quiet, counted, presenceNow>>
      BY <1>5 DEF PresenceInv, Sweep, NotLooking
    <2> HIDE DEF kept
    <2>5. PresenceHonest'
      BY <2>1, <2>2, <2>3, <2>4
      DEF PresenceInv, PresenceHonest, PresenceTypeOK, FiguresHonest, ActiveStay
    <2>6. \A x \in Observers : looking'[x].cutoff + IdleTimeout <= presenceNow'
      BY <2>4 DEF PresenceInv, NotLooking
    <2> QED BY <2>1, <2>2, <2>4, <2>5, <2>6 DEF PresenceInv
  <1>6. ASSUME NEW o \in Observers, Query(o) PROVE PresenceInv'
    <2> DEFINE S == ActiveSince(looking[o].cutoff)
               H == {c \in Conns : lease[c] = "held"}
               A == {c \in Conns \ quiet : lease[c] = "held"}
    <2>1. S \subseteq H
      BY DEF ActiveSince, PresenceInv, PresenceHonest, PresenceTypeOK
    <2>2. A \subseteq S
      BY ActiveAfterCutoff
    <2>3. IsFiniteSet(H)
      BY FS_Subset
    <2>4. FiguresHonest'
      BY <1>6, <2>1, <2>2, <2>3, FiguresOfQuery DEF Query
    <2>5. /\ \A x \in Observers : looking'[x] = looking[x] \/ looking'[x] = NotLooking
          /\ looking' \in [Observers -> [op : {"idle", "sweep", "query"}, cutoff : Nat]]
          /\ UNCHANGED <<connections, lease, lastTouch, quiet, presenceNow>>
      BY <1>6 DEF PresenceInv, Query, NotLooking
    <2>6. \A x \in Observers : looking'[x].cutoff + IdleTimeout <= presenceNow'
      BY <2>5 DEF PresenceInv, NotLooking
    <2>7. PresenceHonest'
      BY <2>4, <2>5 DEF PresenceInv, PresenceHonest, PresenceTypeOK, ActiveStay
    <2> QED BY <2>5, <2>6, <2>7 DEF PresenceInv
  <1>7. ASSUME NEW o \in Observers, NEW op \in {"sweep", "query"}, ReadCutoff(o, op)
        PROVE  PresenceInv'
    <2>1. /\ looking' \in [Observers -> [op : {"idle", "sweep", "query"}, cutoff : Nat]]
          /\ looking'[o].cutoff = presenceNow - IdleTimeout
          /\ \A x \in Observers : x # o => looking'[x] = looking[x]
          /\ UNCHANGED <<connections, lease, lastTouch, quiet, counted, presenceNow>>
      BY <1>7 DEF PresenceInv, ReadCutoff, IdleCutoff
    <2>2. \A x \in Observers : looking'[x].cutoff + IdleTimeout <= presenceNow'
      BY <2>1 DEF PresenceInv
    <2>3. PresenceHonest'
      BY <2>1 DEF PresenceInv, PresenceHonest, PresenceTypeOK, FiguresHonest, ActiveStay
    <2> QED BY <2>1, <2>2, <2>3 DEF PresenceInv
  <1>8. CASE UNCHANGED pvars
    BY <1>8 DEF pvars, PresenceInv, PresenceHonest, PresenceTypeOK, FiguresHonest, ActiveStay
  <1> QED
    BY <1>1, <1>2, <1>3, <1>4, <1>5, <1>6, <1>7, <1>8 DEF PresenceNext

(* Whatever sweeps, queries, touches and drops interleave: no connection that was never
   silent for the idle timeout is dropped while its lease is held, and every figure a query
   returns counts all active and no closed connections. *)
THEOREM PresenceIsHonest == PresenceSpec => []PresenceHonest
  <1>1. PresenceSpec => []PresenceInv
    BY PresenceInitInv, PresenceStepInv, PTL DEF PresenceSpec
  <1>2. PresenceInv => PresenceHonest
    BY DEF PresenceInv
  <1> QED BY <1>1, <1>2, PTL
=============================================================================
